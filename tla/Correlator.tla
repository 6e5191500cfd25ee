----------------------------- MODULE Correlator -----------------------------
(***************************************************************************)
(* internal/correlator: which pending RemediationJobs belong to one        *)
(* investigation, and which of them is its primary.  Pure: a rule sees the *)
(* candidate c, the other pending jobs peers, their creation times, and    *)
(* the set alive of findings whose Pod can still be read from the cluster. *)
(***************************************************************************)
EXTENDS Findings, Sequences

CONSTANTS
  NodeOrder,  \* the node names, in lexicographic order
  Threshold   \* MultiPodSameNodeRule.Threshold

ASSUME ThresholdAssumption == Threshold \in Nat \ {0}

(* RemediationJobs of different findings have different names. *)
ASSUME NameAssumption ==
  /\ \A f \in FP : Finding[f].order \in Nat
  /\ \A f, g \in FP : Finding[f].order = Finding[g].order => f = g

NoMatch == [matched |-> FALSE, primary |-> "none", members |-> {}]
Match(p, M) == [matched |-> TRUE, primary |-> p, members |-> M]

(* Creation time, then name.  Finding[f].order is the rank of the name     *)
(* "mechanic-<fp12>" in lexicographic order.                               *)
Older(created, f, g) ==
  \/ created[f] < created[g]
  \/ created[f] = created[g] /\ Finding[f].order < Finding[g].order

Oldest(created, S) == CHOOSE f \in S : \A g \in S \ {f} : Older(created, f, g)

SelectPrimary(created, S) ==
  CHOOSE f \in S : \A g \in S \ {f} :
    \/ Rank(f) > Rank(g)
    \/ Rank(f) = Rank(g) /\ Older(created, f, g)

SameNamespace(f, g) == Finding[f].ns = Finding[g].ns

(* A parent name is the sequence of its dash-separated tokens. *)
IsParentPrefix(a, b) == Len(b) <= Len(a) /\ SubSeq(a, 1, Len(b)) = b

SameNamespaceParentRule(c, peers, created) ==
  LET parent == Finding[c].parent
      matched == {p \in peers :
                    /\ SameNamespace(p, c)
                    /\ parent # <<>> /\ Finding[p].parent # <<>>
                    /\ \/ IsParentPrefix(parent, Finding[p].parent)
                       \/ IsParentPrefix(Finding[p].parent, parent)}
  IN  IF matched = {} THEN NoMatch
      ELSE Match(SelectPrimary(created, matched \cup {c}), matched \cup {c})

(* The pod's volumes are read from the cluster; a deleted pod matches nothing. *)
Mounts(pod, pvc, alive) ==
  /\ Finding[pod].kind = "Pod" /\ Finding[pvc].kind = "PersistentVolumeClaim"
  /\ SameNamespace(pod, pvc)
  /\ pod \in alive
  /\ Finding[pvc].name \in Finding[pod].claims

EvaluatePodCandidate(c, peers, created, alive) ==
  LET matchedPVCs == {p \in peers : Mounts(c, p, alive)}
  IN  IF matchedPVCs = {} THEN NoMatch
      ELSE Match(Oldest(created, matchedPVCs), matchedPVCs \cup {c})

(* Faulty variant: a claim waits for one of its pods, as its pods do for it. *)
EvaluatePVCCandidateWaits(c, peers, alive) ==
  LET matchedPods == {p \in peers : Mounts(p, c, alive)}
  IN  IF matchedPods = {} THEN NoMatch
      ELSE Match(CHOOSE p \in matchedPods : TRUE, matchedPods \cup {c})

EvaluatePVCCandidate(c, peers, alive) ==
  LET matchedPods == {p \in peers : Mounts(p, c, alive)}
  IN  IF matchedPods = {} THEN NoMatch ELSE Match(c, matchedPods \cup {c})

PVCPodRule(c, peers, created, alive) ==
  CASE Finding[c].kind = "Pod" -> EvaluatePodCandidate(c, peers, created, alive)
    [] Finding[c].kind = "PersistentVolumeClaim" -> EvaluatePVCCandidate(c, peers, alive)
    [] OTHER -> NoMatch

(* Only the first node, in name order, that has Threshold pod findings; the *)
(* candidate need not be one of them.                                      *)
MultiPodGroup(all, created) ==
  LET podsOn(n) == {f \in all : Finding[f].kind = "Pod" /\ Finding[f].node = n}
      qualifying == SelectSeq(NodeOrder, LAMBDA n : Cardinality(podsOn(n)) >= Threshold)
  IN  IF qualifying = <<>> THEN NoMatch
      ELSE Match(Oldest(created, podsOn(Head(qualifying))), podsOn(Head(qualifying)))

MultiPodSameNodeRule(c, peers, created) == MultiPodGroup(peers \cup {c}, created)

(* Correlator.Evaluate with the rules in the order of buildCorrelator: the *)
(* first one that matches decides.                                         *)
Evaluate(c, peers, created, alive) ==
  LET first == PVCPodRule(c, peers, created, alive)
      second == SameNamespaceParentRule(c, peers, created)
  IN  IF first.matched THEN first
      ELSE IF second.matched THEN second
      ELSE MultiPodSameNodeRule(c, peers, created)

(* CorrelatedUIDs, and the findings in AllFindings. *)
Correlated(group) == group.members \ {group.primary}
=============================================================================
