---------------------------- MODULE MCCorrelator ----------------------------
(* The correlation rules over every snapshot of a few pending findings:    *)
(* pods a and b mount volume claim v, a mounts w too; the Deployment d is  *)
(* a's parent; a, b run on node n1, e and h on node n2.                    *)
EXTENDS Snapshots, TLC

CONSTANTS a, b, v, w, d, e, h

MCFinding ==
  LET pod(par, o, n, cl) == [kind |-> "Pod", ns |-> "ns", parent |-> par, order |-> o,
                             name |-> "", node |-> n, claims |-> cl]
      pvc(nm, o) == [kind |-> "PersistentVolumeClaim", ns |-> "ns", parent |-> <<nm>>,
                     order |-> o, name |-> nm, node |-> "", claims |-> {}]
      all == a :> pod(<<"app">>, 1, "n1", {"v", "w"})
             @@ b :> pod(<<"app", "db">>, 2, "n1", {"v"})
             @@ v :> pvc("v", 3) @@ w :> pvc("w", 4)
             @@ d :> [pod(<<"app">>, 5, "", {}) EXCEPT !.kind = "Deployment"]
             @@ e :> pod(<<"shop">>, 6, "n2", {})
             @@ h :> pod(<<"mail">>, 7, "n2", {})
  IN  [f \in FP |-> all[f]]

MCNodeOrder == <<"n1", "n2">>
=============================================================================
