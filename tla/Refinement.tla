----------------------------- MODULE Refinement -----------------------------
(***************************************************************************)
(* The watcher implements Investigation: a finding's life is the phase of  *)
(* the RemediationJob that is stored under its name.                       *)
(***************************************************************************)
EXTENDS Mechanic

Life == [f \in FP |-> IF rjobs[f] = NoObject THEN "absent" ELSE rjobs[f].phase]

Abstract == INSTANCE Investigation WITH life <- Life

(* Every write of the controller and of the providers moves one            *)
(* investigation along its lifecycle, although each of them writes on the  *)
(* strength of an object that it read some steps earlier.                  *)
ImplementsInvestigation == Abstract!Spec
=============================================================================
