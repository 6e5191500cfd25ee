---------------------------- MODULE Investigation ----------------------------
(***************************************************************************)
(* What the watcher promises about the investigation of a finding, with no *)
(* reconciles, caches or Jobs: the phases that a RemediationJob may go     *)
(* through between its creation and its deletion, one finding per step.    *)
(***************************************************************************)
CONSTANT FP      \* fingerprints

VARIABLE life    \* [FP -> "absent" or the phase of its RemediationJob]

Init == life = [f \in FP |-> "absent"]

Becomes(f, before, after) ==
  life[f] \in before /\ \E x \in after : life' = [life EXCEPT ![f] = x]

Accepted == {"Pending", "Dispatched", "Running"}

Begin(f) == Becomes(f, {"absent"}, {"New"})
Accept(f) == Becomes(f, {"New"}, {"Pending"})

(* In favour of the primary of a correlation group, and for good. *)
Suppress(f) == Becomes(f, {"Pending"}, {"Suppressed"})

(* A Job between two attempts is back at Dispatched. *)
Work(f) == Becomes(f, Accepted, {"Dispatched", "Running"})
Finish(f) == Becomes(f, Accepted, {"Succeeded", "Failed", "PermanentlyFailed"})

(* A tombstone ends, or a failed investigation makes room for the next. *)
Forget(f) == Becomes(f, {"Succeeded", "Failed"}, {"absent"})

(* The deletion of an expired tombstone, by name, may hit its successor,   *)
(* but only before that was accepted.                                      *)
Withdraw(f) == Becomes(f, {"New"}, {"absent"})

Next ==
  \E f \in FP : \/ Begin(f) \/ Accept(f) \/ Suppress(f) \/ Work(f) \/ Finish(f)
                \/ Forget(f) \/ Withdraw(f)

Spec == Init /\ [][Next]_life
=============================================================================
