----------------------------- MODULE MCMechanic -----------------------------
(* Small instances of Mechanic. *)
EXTENDS Refinement, TLC

CONSTANTS f1, f2, f3, s1, s2, s3, p1, p2

(* f1 is a Deployment, f2 and f3 are Pods of applications whose names      *)
(* extend its name: SameNamespaceParentRule correlates f1 with both.       *)
MCFinding ==
  LET at(k, par, o) == [kind |-> k, ns |-> "ns", parent |-> par, order |-> o,
                        name |-> "", node |-> "", claims |-> {}]
      all == f1 :> at("Deployment", <<"app">>, 1)
             @@ f2 :> at("Pod", <<"app", "db">>, 2)
             @@ f3 :> at("Pod", <<"app", "web">>, 3)
  IN  [f \in FP |-> all[f]]

MCSrcProvider == [s \in Src |-> IF s = s2 THEN p2 ELSE p1]
MCOneProvider == [s \in Src |-> p1]
MCSrcFindings ==
  LET all == s1 :> {f1} @@ s2 :> {f2} @@ s3 :> {f3} IN [s \in Src |-> all[s]]
MCSrcRef == [s \in Src |-> s]
MCSharedRef == [s \in Src |-> s1]  \* e.g. a Deployment and a Pod of one name
MCNodeOrder == <<>>

=============================================================================
