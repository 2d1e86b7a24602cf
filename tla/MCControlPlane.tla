--------------------------- MODULE MCControlPlane ---------------------------
(***************************************************************************)
(* The stack, checked in one run: the operations on the whole of it, and   *)
(* the files that configure it.  `part` says which of the two a behaviour  *)
(* is about; the other stays as it begins.  The operations of a part differ*)
(* in nothing but their kind, which each behaviour chooses.                *)
(***************************************************************************)
EXTENDS Lifecycle, StackConfig, TLC

VARIABLE part

ControlPlaneInit ==
  /\ part \in {"lifecycle", "config"}
  /\ LifecycleInit /\ ConfigInit
  \* the part that stays as it begins need not begin in each of its initial states
  /\ part # "config" => stackYml = Unset
  /\ part # "lifecycle" =>
       enabled = {} /\ snapshot.by = None /\ \A o \in Ops : kind[o] = "install"

ControlPlaneNext ==
  \* bounds: two operations in flight at a time (a third may follow), and where a
  \* process is killed a third one never begins
  \/ /\ part = "lifecycle" /\ LifecycleNext
     /\ Cardinality(InFlight') <= 2
     /\ (\E o \in Ops : pc'[o] = "killed") => \E o \in Ops : pc'[o] = "new"
     /\ UNCHANGED <<part, configVars>>
  \/ part = "config" /\ ConfigNext /\ UNCHANGED <<part, lifecycleVars>>

ControlPlaneSpec == ControlPlaneInit /\ [][ControlPlaneNext]_<<part, lifecycleVars, configVars>>

\* The writers and providers are few: to permute them too costs more than it saves.
Symmetry == Permutations(Ops)
=============================================================================
