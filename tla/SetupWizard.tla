---------------------------- MODULE SetupWizard ----------------------------
(***************************************************************************)
(* The setup wizard of openpalm install: a process that serves the wizard, *)
(* waits for its answers and deploys, the server whose state the browser   *)
(* reads, and browser tabs that post the answers and then poll.  The server *)
(* ends with the process, and the tabs make of that what they can.         *)
(***************************************************************************)
EXTENDS Integers, Sequences

CONSTANTS
  Tabs,
  MaxPollErrors  \* how many failed polls in a row end the polling

ASSUME PollErrorsAssumption == MaxPollErrors \in Nat \ {0}

VARIABLES
  noStart,       \* --no-start
  cli,           \* where runWizardInstall is
  setupComplete, \* the state of the server
  deployStatus,  \* "none" (no entries), "pending", "some" (some running), "running" or "error"
  deployError,   \* whether there is one
  deploying,
  tab,           \* where each tab is
  poll,          \* per tab, the answer to its poll that is on its way, if any
  pollErrors,    \* deployPollErrors
  retried,       \* the tabs that posted from the deploy screen
  due,           \* the tabs that polled when the process began to linger and have not since
  deployed,      \* the services were up, or waited for long enough (history)
  broken         \* the deployment failed (history)

serverVars == <<setupComplete, deployStatus, deployError, deploying>>
tabVars == <<tab, poll, pollErrors, retried, due>>
wizardVars == <<noStart, cli, serverVars, tabVars, deployed, broken>>

Snapshots ==
  [complete : BOOLEAN, status : {"none", "pending", "some", "running", "error"},
   error : BOOLEAN, deploying : BOOLEAN]

WizardTypeOK ==
  /\ noStart \in BOOLEAN /\ deployed \in BOOLEAN /\ broken \in BOOLEAN
  /\ cli \in {"waiting", "stopping", "preparing", "pulling", "starting", "health",
              "lingering", "failing", "gone"}
  /\ setupComplete \in BOOLEAN /\ deployError \in BOOLEAN /\ deploying \in BOOLEAN
  /\ deployStatus \in {"none", "pending", "some", "running", "error"}
  /\ tab \in [Tabs -> {"review", "posting", "parsing", "accepted", "rejected", "polling", "error", "stuck", "back", "done"}]
  /\ poll \in [Tabs -> {<<>>} \cup {<<s>> : s \in Snapshots}]
  /\ pollErrors \in [Tabs -> 0..MaxPollErrors]
  /\ retried \subseteq Tabs /\ due \subseteq Tabs

WizardInit ==
  /\ noStart \in BOOLEAN /\ cli = "waiting"
  /\ setupComplete = FALSE /\ deployStatus = "none" /\ deployError = FALSE /\ deploying = FALSE
  /\ tab = [t \in Tabs |-> "review"] /\ poll = [t \in Tabs |-> <<>>]
  /\ pollErrors = [t \in Tabs |-> 0] /\ retried = {} /\ due = {}
  /\ deployed = FALSE /\ broken = FALSE

ServerUp == cli # "gone"

Turns(t, from, to) == tab[t] = from /\ tab' = [tab EXCEPT ![t] = to]

-----------------------------------------------------------------------------
(* POST /api/setup/complete and handleInstall.                              *)

\* The user clicks install, or retry under an error; back leads to a review whose
\* install button is still disabled.
Install(t) ==
  /\ \/ Turns(t, "review", "posting") /\ UNCHANGED retried
     \/ Turns(t, "error", "posting") /\ retried' = retried \cup {t}
     \/ Turns(t, "error", "back") /\ UNCHANGED retried
  /\ UNCHANGED <<noStart, cli, serverVars, poll, pollErrors, due, deployed, broken>>

\* What is complete and has not failed is not done again; else the body is awaited.
Check(t) ==
  /\ ServerUp
  /\ IF setupComplete /\ ~deployError THEN Turns(t, "posting", "accepted") ELSE Turns(t, "posting", "parsing")
  /\ UNCHANGED <<noStart, cli, serverVars, poll, pollErrors, retried, due, deployed, broken>>

\* performSetup has worked: the deploy state is reset, and the first time the
\* process goes on, before anything else is served.
Perform(t) ==
  /\ ServerUp /\ Turns(t, "parsing", "accepted")
  /\ setupComplete' = TRUE /\ deployStatus' = "none" /\ deployError' = FALSE
  /\ IF cli = "waiting"
     THEN /\ cli' = IF noStart THEN "stopping" ELSE "preparing"
          /\ deploying' = ~noStart
     ELSE UNCHANGED <<cli, deploying>>
  /\ UNCHANGED <<noStart, poll, pollErrors, retried, due, deployed, broken>>

\* The body is no JSON or no valid setup, or performSetup fails.
PerformFails(t) ==
  /\ ServerUp /\ Turns(t, "parsing", "rejected")
  /\ UNCHANGED <<noStart, cli, serverVars, poll, pollErrors, retried, due, deployed, broken>>

\* Where an error of the post leaves a tab: the deploy screen has no place for
\* it, and its buttons are hidden since the click on retry.
ShowError(t) == IF t \in retried THEN "stuck" ELSE "review"

\* The response, or a network error when the server is gone.
Respond(t) ==
  /\ \/ Turns(t, "accepted", "polling")
     \/ Turns(t, "rejected", ShowError(t))
     \/ ~ServerUp /\ \E s \in {"posting", "parsing", "accepted", "rejected"} : Turns(t, s, ShowError(t))
  /\ UNCHANGED <<noStart, cli, serverVars, poll, pollErrors, retried, due, deployed, broken>>

-----------------------------------------------------------------------------
(* pollDeployStatus; a poll is answered before the next is due.             *)

\* GET /api/setup/deploy-status.
DeployStatus(t) ==
  /\ ServerUp /\ tab[t] = "polling" /\ poll[t] = <<>>
  /\ poll' = [poll EXCEPT ![t] = <<[complete |-> setupComplete, status |-> deployStatus,
                                    error |-> deployError, deploying |-> deploying]>>]
  /\ due' = due \ {t}
  /\ UNCHANGED <<noStart, cli, serverVars, tab, pollErrors, retried, deployed, broken>>

\* A bug: an empty status after the setup is always taken for --no-start.
SaysNoStart_Early(s) == s.complete /\ s.status = "none"

\* Nothing to deploy.
SaysNoStart(s) == s.complete /\ ~s.deploying /\ s.status = "none"

PollAnswered(t) ==
  /\ tab[t] = "polling" /\ poll[t] # <<>>
  /\ poll' = [poll EXCEPT ![t] = <<>>]
  /\ pollErrors' = [pollErrors EXCEPT ![t] = 0]
  /\ LET s == Head(poll[t]) IN
     tab' = [tab EXCEPT ![t] =
       IF s.error THEN "error"
       ELSE IF SaysNoStart(s) \/ (s.complete /\ s.status = "running") THEN "done"
       ELSE "polling"]
  /\ UNCHANGED <<noStart, cli, serverVars, retried, due, deployed, broken>>

\* Three polls in a row have failed.
GivenUp(n) == n >= MaxPollErrors

\* The server is gone: after some failed polls that is taken for success.
PollFails(t) ==
  /\ ~ServerUp /\ tab[t] = "polling" /\ poll[t] = <<>>
  /\ pollErrors[t] < MaxPollErrors
  /\ pollErrors' = [pollErrors EXCEPT ![t] = @ + 1]
  /\ tab' = [tab EXCEPT ![t] = IF GivenUp(pollErrors'[t]) THEN "done" ELSE "polling"]
  /\ UNCHANGED <<noStart, cli, serverVars, poll, retried, due, deployed, broken>>

-----------------------------------------------------------------------------
(* runWizardInstall and pollContainerHealth.                                *)

Moves(from, to) == cli = from /\ cli' = to

\* --no-start: the server is stopped, then the process ends.
Stop ==
  /\ Moves("stopping", "gone")
  /\ UNCHANGED <<noStart, serverVars, tabVars, deployed, broken>>

\* Docker is there and the files are written; or that fails, outside the try
\* block, and the process ends at once.
Prepare ==
  /\ \/ /\ Moves("preparing", "pulling")
        /\ deployStatus' = "pending" /\ UNCHANGED broken
     \/ /\ Moves("preparing", "gone")
        /\ broken' = TRUE /\ UNCHANGED deployStatus
  /\ UNCHANGED <<noStart, setupComplete, deployError, deploying, tabVars, deployed>>

\* docker compose pull, whose failure is only a warning.
Pull ==
  /\ Moves("pulling", "starting") /\ deployStatus' = "pending"
  /\ UNCHANGED <<noStart, setupComplete, deployError, deploying, tabVars, deployed, broken>>

Lingers == due' = {t \in Tabs : tab[t] = "polling"} /\ UNCHANGED <<tab, poll, pollErrors, retried>>

\* docker compose up.
Up ==
  /\ \/ Moves("starting", "health") /\ UNCHANGED <<deployStatus, deployError, broken, tabVars>>
     \/ /\ Moves("starting", "failing") /\ Lingers
        /\ deployStatus' = "error" /\ deployError' = TRUE /\ broken' = TRUE
  /\ UNCHANGED <<noStart, setupComplete, deploying, deployed>>

\* More services run than before, or all of them.
MoreRunning ==
  /\ \/ cli = "health" /\ deployStatus' = "some" /\ UNCHANGED <<cli, tabVars, deployed>>
     \/ Moves("health", "lingering") /\ Lingers /\ deployStatus' = "running" /\ deployed' = TRUE
  /\ UNCHANGED <<noStart, setupComplete, deployError, deploying, broken>>

\* They were waited for long enough: what entries there are, are marked as running.
MarkAllRunning ==
  /\ Moves("health", "lingering") /\ Lingers /\ deployed' = TRUE
  /\ deployStatus' = IF deployStatus = "none" THEN "none" ELSE "running"
  /\ UNCHANGED <<noStart, setupComplete, deployError, deploying, broken>>

\* 8 or 10 seconds, in which every tab that polls does so once more.
Linger ==
  /\ Moves("lingering", "gone") \/ Moves("failing", "gone")
  /\ \A t \in due : tab[t] # "polling"
  /\ UNCHANGED <<noStart, serverVars, tabVars, deployed, broken>>

-----------------------------------------------------------------------------
Browses(t) == Check(t) \/ Perform(t) \/ PerformFails(t) \/ Respond(t) \/ PollAnswered(t) \/ PollFails(t)
Deploys == Stop \/ Prepare \/ Pull \/ Up \/ MarkAllRunning \/ Linger

WizardNext ==
  \/ \E t \in Tabs : Install(t) \/ DeployStatus(t) \/ Browses(t)
  \/ Deploys \/ MoreRunning

WizardSpec == WizardInit /\ [][WizardNext]_wizardVars

\* Docker's commands end, and the wait for health does after two minutes; tabs
\* keep polling.  A user need not click.
WizardFairness ==
  /\ WF_wizardVars(Deploys)
  /\ \A t \in Tabs : WF_wizardVars(Browses(t)) /\ WF_wizardVars(DeployStatus(t))

LiveWizardSpec == WizardSpec /\ WizardFairness

(***************************************************************************)
(* Properties.                                                             *)
(***************************************************************************)
\* A tab only says "Setup Complete" when the services were up or waited for,
\* when nothing was to be started, or when the server is gone.
DoneIsEarned ==
  [][\A t \in Tabs : tab[t] # "done" /\ tab'[t] = "done" => deployed \/ noStart \/ ~ServerUp]_wizardVars

\* A tab does not poll for ever, however the process ends and whatever other
\* tabs post meanwhile; and what it says then is right.
WizardEndsRight ==
  /\ DoneIsEarned
  /\ \A t \in Tabs : tab[t] = "polling" ~> tab[t] \in {"done", "error"}

\* The walkthrough's promise: "On failure, an error card appears".
FailureIsShown == broken => \A t \in Tabs : tab[t] # "done"
=============================================================================
