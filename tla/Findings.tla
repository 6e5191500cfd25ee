------------------------------ MODULE Findings ------------------------------
(***************************************************************************)
(* The findings the watcher investigates, as the fields that its decisions *)
(* read.  A finding is named by its fingerprint; everything that is hashed *)
(* into the fingerprint is constant for it (domain.FindingFingerprint), so *)
(* Finding is a constant function.  The name "mechanic-<fp12>" of the      *)
(* RemediationJob and the name "mechanic-agent-<fp12>" of its batch Job    *)
(* are functions of the fingerprint, so FP also names both kinds of object *)
(* (two fingerprints that share their first 12 hex digits are left out).   *)
(***************************************************************************)
EXTENDS Integers, FiniteSets

CONSTANTS
  FP,       \* fingerprints
  Finding   \* [FP -> record]: kind, name, ns, parent, order, node, claims

(* domain.KindHierarchyRank: larger means closer to the root cause; a kind *)
(* that the table does not list has rank 0.                                *)
KindHierarchyRank(kind) ==
  CASE kind = "Deployment"                       -> 10
    [] kind = "StatefulSet"                      -> 9
    [] kind = "DaemonSet"                        -> 8
    [] kind = "Job"                              -> 7
    [] kind = "ReplicaSet"                       -> 6
    [] kind \in {"Pod", "PersistentVolumeClaim"} -> 1
    [] OTHER                                     -> 0

Rank(f) == KindHierarchyRank(Finding[f].kind)
=============================================================================
