------------------------------ MODULE MCAdmin ------------------------------
(***************************************************************************)
(* The admin console in one run: its page, its voice buttons, its providers*)
(* and its tabs, which share no state: `part` says which a behaviour is    *)
(* about, the others rest.                                                 *)
(***************************************************************************)
EXTENDS AdminConsole, ProviderPanel, AdminTabs

VARIABLE part

AdminInit ==
  /\ part \in {"console", "providers", "dictation", "form", "catalog"}
  /\ ConsoleInit /\ PanelInit /\ DictationInit /\ FormInit /\ CatalogInit
  \* a part that rests need not begin in each of its initial states
  /\ part # "console" => stored = NoToken
  /\ part # "form" => legacy = Empty /\ spec = Blank
  /\ part # "catalog" => on = {} /\ tab = "addons"

AdminNext ==
  \* bound: two things happen elsewhere while the page is open
  \/ part = "console" /\ ConsoleNext /\ good' + world' + elsewhere' <= 2
     /\ UNCHANGED <<part, panelVars, dictationVars, capsVars, catalogVars>>
  \/ part = "providers" /\ PanelNext
     /\ UNCHANGED <<part, consoleVars, dictationVars, capsVars, catalogVars>>
  \/ part = "dictation" /\ DictationNext
     /\ UNCHANGED <<part, consoleVars, panelVars, capsVars, catalogVars>>
  \/ part = "form" /\ FormNext
     /\ UNCHANGED <<part, consoleVars, panelVars, dictationVars, catalogVars>>
  \/ part = "catalog" /\ CatalogNext
     /\ UNCHANGED <<part, consoleVars, panelVars, dictationVars, capsVars>>

adminVars == <<part, consoleVars, panelVars, dictationVars, capsVars, catalogVars>>

\* The fair actions of a part that rests are not enabled: its console has sent nothing,
\* and its list is being loaded by no action.
AdminSpec ==
  AdminInit /\ [][AdminNext]_adminVars /\ ConsoleFairness /\ CatalogFairness

\* The states of all are well-typed, and what the console shows is so: the providers
\* and their actions, the lists, and whether the microphone listens.
AdminShowsTruth ==
  /\ ConsoleTypeOK /\ PanelTypeOK /\ DictationTypeOK /\ FormTypeOK /\ CatalogTypeOK
  /\ PanelShowsTruth /\ ListHonest /\ MicInReach

\* Nothing the user did not ask for: an answer that comes late opens no editor he
\* left, and a save changes only what he entered.
NothingUnasked == EditorStays /\ SavesOnlyEdits

\* Whatever becomes of the requests, a login ends and a row is free again.
AdminGoesOn == ConsoleGoesOn /\ RowSettles
=============================================================================
