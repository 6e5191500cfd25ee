------------------------------- MODULE Snapshots ----------------------------
(***************************************************************************)
(* What the correlation rules are asked about: RemediationJobs that come   *)
(* and go as Pending, at any time, and pods that are deleted meanwhile.    *)
(* Every candidate is evaluated against the other pending ones.            *)
(***************************************************************************)
EXTENDS Correlator

CONSTANT Times  \* the creation times

ASSUME TimesAssumption == Times \subseteq Nat

VARIABLES
  pending,  \* the Pending RemediationJobs
  created,  \* their creation times
  alive     \* the pods that have not been deleted

vars == <<pending, created, alive>>

Init == pending = {} /\ created = [f \in FP |-> 0] /\ alive = FP

Arrive(f, t) ==
  /\ f \notin pending
  /\ pending' = pending \cup {f}
  /\ created' = [created EXCEPT ![f] = t]
  /\ UNCHANGED alive

Leave(f) ==
  /\ f \in pending
  /\ pending' = pending \ {f}
  /\ created' = [created EXCEPT ![f] = 0]
  /\ UNCHANGED alive

PodDeleted(f) ==
  /\ f \in alive
  /\ Finding[f].kind = "Pod"
  /\ alive' = alive \ {f}
  /\ UNCHANGED <<pending, created>>

Next == \E f \in FP : (\E t \in Times : Arrive(f, t)) \/ Leave(f) \/ PodDeleted(f)

Spec == Init /\ [][Next]_vars

Verdict(c) == Evaluate(c, pending \ {c}, created, alive)
Waits(c) == Verdict(c).matched /\ Verdict(c).primary # c

(* A candidate that is not its group's primary only waits for it, so there *)
(* must be no ring of candidates, matched by whichever rules, that all     *)
(* wait for one another: nothing would ever be dispatched.                 *)
NoWaitCycle ==
  LET waiting == {<<c, Verdict(c).primary>> : c \in {x \in pending : Waits(x)}}
  IN  \A S \in (SUBSET {edge[1] : edge \in waiting}) \ {{}} :
        \E edge \in waiting : edge[1] \in S /\ edge[2] \notin S
=============================================================================
