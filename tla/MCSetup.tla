------------------------------ MODULE MCSetup ------------------------------
(***************************************************************************)
(* A stack that is set up, in one run: the wizard's pages, what becomes of *)
(* the answers given there, and the files an installation needs; and what  *)
(* its assistant comes to remember.  The four share no state: `part` says  *)
(* which of them a behaviour is about.                                     *)
(***************************************************************************)
EXTENDS WizardPages, SetupPayload, Installation, MemoryCuration

VARIABLE part

SetupInit ==
  /\ part \in {"pages", "payload", "installation", "memories"}
  /\ PagesInit /\ PayloadInit /\ InstallationInit /\ CurationInit
  \* a part that rests need not begin in each of its initial states
  /\ part # "installation" => tag = Absent
  /\ part # "memories" => issued = 0

SetupNext ==
  \/ part = "pages" /\ PagesNext /\ UNCHANGED <<part, payloadVars, installationVars, curationVars>>
  \/ part = "payload" /\ PayloadNext /\ UNCHANGED <<part, pageVars, installationVars, curationVars>>
  \/ part = "installation" /\ InstallationNext /\ UNCHANGED <<part, pageVars, payloadVars, curationVars>>
  \* bound: a tool is used or the assistant restarted, not both
  \/ part = "memories" /\ CurationNext /\ uses' + restarts' <= 1
     /\ UNCHANGED <<part, pageVars, payloadVars, installationVars>>

SetupSpec ==
  SetupInit /\ [][SetupNext]_<<part, pageVars, payloadVars, installationVars, curationVars>>

Symmetry == Permutations(Keyed) \cup Permutations(Secrets)
=============================================================================
