-------------------------- MODULE CorrelatorProofs --------------------------
(***************************************************************************)
(* NoWaitCycle for any findings, names, parents, volumes, nodes, creation  *)
(* times and deletions of pods.                                            *)
(*                                                                         *)
(* Take candidates that all wait for one of themselves.  None is decided   *)
(* by PVCPodRule: a pod waits for a claim, and the claim leads.  The last  *)
(* rule names one primary to all, which would wait for itself: so it was   *)
(* decided by SameNamespaceParentRule.  That rule is symmetric, and its    *)
(* primary is better in an order that has no infinite descent (rank, age,  *)
(* name): so the best of those decided by it waits for nobody.             *)
(***************************************************************************)
EXTENDS Snapshots, WellFoundedInduction, TLAPS

Better(time, f, g) ==
  \/ Rank(f) > Rank(g)
  \/ Rank(f) = Rank(g) /\ Older(time, f, g)

(* A set of numbers has a smallest member. *)
LEMMA Smallest ==
  ASSUME NEW N \in SUBSET Nat, N # {}
  PROVE  \E n \in N : \A m \in N : n <= m
<1>1. \E n \in N : \A m \in N : ~(m < n)
  <2>1. IsWellFoundedOn(OpToRel(<, Nat), Nat)
    BY NatLessThanWellFounded, Zenon
  <2>2. \E n \in N : \A m \in N : ~(<<m, n>> \in OpToRel(<, Nat))
    BY <2>1, WFMin, Zenon
  <2> QED BY <2>2, Zenon DEF OpToRel
<1>2. \A m, n \in Nat : ~(m < n) => n <= m
  OBVIOUS
<1> QED BY <1>1, <1>2

(* kindRank is a small number. *)
LEMMA RankBounded ==
  ASSUME NEW f
  PROVE  Rank(f) \in 0..10
BY DEF Rank, KindHierarchyRank

(* Every nonempty set of RemediationJobs has an oldest member. *)
LEMMA OldestExists ==
  ASSUME NEW time \in [FP -> Nat], NEW S \in SUBSET FP, S # {}
  PROVE  \E f \in S : \A g \in S \ {f} : Older(time, f, g)
<1> DEFINE times == {time[f] : f \in S}
<1>1. PICK t \in times : \A u \in times : t <= u
  <2>1. times \in SUBSET Nat /\ times # {}
    OBVIOUS
  <2> HIDE DEF times
  <2> QED BY <2>1, Smallest
<1> DEFINE first == {f \in S : time[f] = t}
           orders == {Finding[f].order : f \in first}
<1>2. PICK o \in orders : \A u \in orders : o <= u
  <2>1. orders \in SUBSET Nat /\ orders # {}
    BY NameAssumption
  <2> HIDE DEF orders
  <2> QED BY <2>1, Smallest
<1>3. PICK f \in first : Finding[f].order = o
  OBVIOUS
<1>4. ASSUME NEW g \in S \ {f}
      PROVE  Older(time, f, g)
  <2>1. time[f] = t /\ t <= time[g] /\ time[g] \in Nat /\ t \in Nat
    BY <1>1
  <2>2. CASE time[g] = t
    <3>1. o <= Finding[g].order
      BY <1>2, <2>2
    <3>2. Finding[f].order # Finding[g].order /\ Finding[g].order \in Nat /\ o \in Nat
      BY <1>3, NameAssumption
    <3> QED BY <1>3, <2>1, <2>2, <3>1, <3>2 DEF Older
  <2>3. CASE time[g] # t
    BY <2>1, <2>3 DEF Older
  <2> QED BY <2>2, <2>3
<1> QED BY <1>3, <1>4

(* and one that selectPrimary chooses. *)
LEMMA BestExists ==
  ASSUME NEW time \in [FP -> Nat], NEW S \in SUBSET FP, S # {}
  PROVE  \E f \in S : \A g \in S \ {f} : Better(time, f, g)
<1> DEFINE depths == {10 - Rank(f) : f \in S}
<1>1. PICK d \in depths : \A u \in depths : d <= u
  <2>1. depths \in SUBSET Nat /\ depths # {}
    BY RankBounded
  <2> HIDE DEF depths
  <2> QED BY <2>1, Smallest
<1> DEFINE top == {f \in S : 10 - Rank(f) = d}
<1>2. top \in SUBSET FP /\ top # {}
  OBVIOUS
<1>3. PICK f \in top : \A g \in top \ {f} : Older(time, f, g)
  <2> HIDE DEF top
  <2> QED BY <1>2, OldestExists
<1>4. ASSUME NEW g \in S \ {f}
      PROVE  Better(time, f, g)
  <2>1. 10 - Rank(f) = d /\ d <= 10 - Rank(g) /\ Rank(f) \in 0..10 /\ Rank(g) \in 0..10
    BY <1>1, RankBounded
  <2>2. CASE Rank(g) = Rank(f)
    BY <1>3, <2>1, <2>2 DEF Better
  <2>3. CASE Rank(g) # Rank(f)
    BY <2>1, <2>3 DEF Better
  <2> QED BY <2>2, <2>3
<1> QED BY <1>3, <1>4

(* Of two findings, at most one is better. *)
LEMMA BetterStrict ==
  ASSUME NEW time \in [FP -> Nat], NEW f \in FP, NEW g \in FP, Better(time, f, g)
  PROVE  ~Better(time, g, f)
<1>1. Rank(f) \in 0..10 /\ Rank(g) \in 0..10
  BY RankBounded
<1>2. Finding[f].order \in Nat /\ Finding[g].order \in Nat
  BY NameAssumption
<1> QED BY <1>1, <1>2 DEF Better, Older

-----------------------------------------------------------------------------
(* SameNamespaceParentRule names a primary that is better than the         *)
(* candidate, and that the rule matches as well.                           *)
LEMMA PrimaryOfParents ==
  ASSUME NEW time \in [FP -> Nat], NEW peers \in SUBSET FP, NEW c \in FP, c \notin peers,
         SameNamespaceParentRule(c, peers, time).matched,
         NEW p, p = SameNamespaceParentRule(c, peers, time).primary, p # c,
         NEW others \in SUBSET FP, c \in others
  PROVE  Better(time, p, c) /\ SameNamespaceParentRule(p, others, time).matched
<1> DEFINE related(f, g) == /\ SameNamespace(g, f)
                            /\ Finding[f].parent # <<>> /\ Finding[g].parent # <<>>
                            /\ \/ IsParentPrefix(Finding[f].parent, Finding[g].parent)
                               \/ IsParentPrefix(Finding[g].parent, Finding[f].parent)
           matched(f, P) == {g \in P : related(f, g)}
<1>1. \A f, P : SameNamespaceParentRule(f, P, time) =
                  IF matched(f, P) = {} THEN NoMatch
                  ELSE Match(SelectPrimary(time, matched(f, P) \cup {f}), matched(f, P) \cup {f})
  BY Zenon DEF SameNamespaceParentRule
<1>2. \A f, P : SameNamespaceParentRule(f, P, time).matched <=> matched(f, P) # {}
  <2>1. NoMatch.matched = FALSE /\ \A q, M : Match(q, M).matched = TRUE
    BY DEF NoMatch, Match
  <2>2. ASSUME NEW f, NEW P
        PROVE  SameNamespaceParentRule(f, P, time).matched <=> matched(f, P) # {}
    <3>1. CASE matched(f, P) = {}
      <4>1. SameNamespaceParentRule(f, P, time) = NoMatch
        BY <1>1, <3>1, Zenon
      <4> QED BY <2>1, <3>1, <4>1, Zenon
    <3>2. CASE matched(f, P) # {}
      <4>1. \E q, M : SameNamespaceParentRule(f, P, time) = Match(q, M)
        BY <1>1, <3>2, Zenon
      <4> QED BY <2>1, <3>2, <4>1, Zenon
    <3> QED BY <3>1, <3>2
  <2> QED BY <2>2
<1>3. p = SelectPrimary(time, matched(c, peers) \cup {c})
  <2>1. \A q, M : Match(q, M).primary = q
    BY DEF Match
  <2>2. matched(c, peers) # {}
    BY <1>2, Zenon
  <2>3. SameNamespaceParentRule(c, peers, time)
          = Match(SelectPrimary(time, matched(c, peers) \cup {c}), matched(c, peers) \cup {c})
    BY <1>1, <2>2, Zenon
  <2> QED BY <2>1, <2>3, Zenon
<1>4. p \in matched(c, peers) \cup {c} /\ \A g \in (matched(c, peers) \cup {c}) \ {p} : Better(time, p, g)
  <2> DEFINE S == matched(c, peers) \cup {c}
  <2>1. S \in SUBSET FP /\ S # {}
    OBVIOUS
  <2>2. p = CHOOSE f \in S : \A g \in S \ {f} : Better(time, f, g)
    BY <1>3, Zenon DEF SelectPrimary, Better
  <2> HIDE DEF S
  <2>3. \E f \in S : \A g \in S \ {f} : Better(time, f, g)
    BY <2>1, BestExists
  <2>4. p \in S /\ \A g \in S \ {p} : Better(time, p, g)
    BY <2>2, <2>3, Zenon
  <2> QED BY <2>4 DEF S
<1>5. related(c, p) => related(p, c)
  BY DEF SameNamespace
<1>6. p \in peers /\ related(c, p) /\ Better(time, p, c)
  BY <1>4
<1>7. c \in matched(p, others)
  BY <1>5, <1>6
<1> QED BY <1>2, <1>6, <1>7, Zenon

(* PVCPodRule makes a pod wait for a claim, which leads its own group. *)
LEMMA ClaimsLead ==
  ASSUME NEW time \in [FP -> Nat], NEW peers \in SUBSET FP, NEW c \in FP, NEW live,
         PVCPodRule(c, peers, time, live).matched,
         NEW p, p = PVCPodRule(c, peers, time, live).primary, p # c,
         NEW others \in SUBSET FP, c \in others
  PROVE  /\ PVCPodRule(p, others, time, live).matched
         /\ PVCPodRule(p, others, time, live).primary = p
<1>1. Finding[c].kind = "Pod"
  BY DEF PVCPodRule, EvaluatePVCCandidate, NoMatch, Match
<1> DEFINE claims == {g \in peers : Mounts(c, g, live)}
<1>2. claims # {} /\ p = Oldest(time, claims)
  BY <1>1 DEF PVCPodRule, EvaluatePodCandidate, NoMatch, Match
<1>3. p \in claims
  <2>1. claims \in SUBSET FP
    OBVIOUS
  <2> HIDE DEF claims
  <2>2. \E f \in claims : \A g \in claims \ {f} : Older(time, f, g)
    BY <1>2, <2>1, OldestExists
  <2> QED BY <1>2, <2>2, Zenon DEF Oldest
<1>4. Mounts(c, p, live) /\ Finding[p].kind = "PersistentVolumeClaim" /\ p \in peers
  BY <1>3 DEF Mounts
<1>5. {g \in others : Mounts(g, p, live)} # {}
  BY <1>4
<1>6. PVCPodRule(p, others, time, live) = EvaluatePVCCandidate(p, others, live)
  BY <1>4 DEF PVCPodRule
<1> QED BY <1>5, <1>6 DEF EvaluatePVCCandidate, Match

(* No ring in a snapshot. *)
LEMMA NoRing ==
  ASSUME pending \in SUBSET FP, created \in [FP -> Nat],
         NEW S \in SUBSET pending, S # {}, \A c \in S : Waits(c)
  PROVE  \E c \in S : Verdict(c).primary \notin S
<1> SUFFICES ASSUME \A c \in S : Verdict(c).primary \in S
             PROVE  FALSE
  OBVIOUS
<1> DEFINE claim(c) == PVCPodRule(c, pending \ {c}, created, alive)
           parent(c) == SameNamespaceParentRule(c, pending \ {c}, created)
           node == MultiPodGroup(pending, created)
<1>1. \A c \in S : Verdict(c) = IF claim(c).matched THEN claim(c)
                                ELSE IF parent(c).matched THEN parent(c) ELSE node
  <2>1. \A c \in S : (pending \ {c}) \cup {c} = pending
    OBVIOUS
  <2> QED BY <2>1, Zenon DEF Verdict, Evaluate, MultiPodSameNodeRule
<1>2. \A c \in S : ~claim(c).matched
  <2> SUFFICES ASSUME NEW c \in S, claim(c).matched
               PROVE  FALSE
    OBVIOUS
  <2>1. PICK p : p = claim(c).primary
    OBVIOUS
  <2>2. p # c /\ p \in S /\ c \in FP /\ p \in FP
    BY <1>1, <2>1, Zenon DEF Waits
  <2>3. /\ pending \ {c} \in SUBSET FP /\ pending \ {p} \in SUBSET FP
        /\ c \in pending \ {p}
    BY <2>2
  <2> DEFINE peers == pending \ {c}
             others == pending \ {p}
  <2>4. claim(p).matched /\ claim(p).primary = p
    <3>1. /\ PVCPodRule(c, peers, created, alive).matched
          /\ p = PVCPodRule(c, peers, created, alive).primary
      BY <2>1
    <3>2. peers \in SUBSET FP /\ others \in SUBSET FP /\ c \in others
      BY <2>3
    <3> HIDE DEF peers, others
    <3>3. /\ PVCPodRule(p, others, created, alive).matched
          /\ PVCPodRule(p, others, created, alive).primary = p
      BY <2>2, <3>1, <3>2, ClaimsLead
    <3> QED BY <3>3 DEF others
  <2> QED BY <1>1, <2>2, <2>4, Zenon DEF Waits
<1> DEFINE T == {c \in S : parent(c).matched}
<1>3. T # {}
  <2>1. PICK c \in S : TRUE
    OBVIOUS
  <2>2. CASE T = {}
    <3>1. \A d \in S : Verdict(d) = node
      BY <1>1, <1>2, <2>2, Zenon
    <3> QED BY <2>1, <3>1, Zenon DEF Waits
  <2> QED BY <2>2, Zenon
<1>4. ASSUME NEW c \in T
      PROVE  \E p \in T \ {c} : Better(created, p, c)
  <2>1. PICK p : p = parent(c).primary
    OBVIOUS
  <2>2. p # c /\ p \in S /\ c \in FP /\ p \in FP
    BY <1>1, <1>2, <2>1, Zenon DEF Waits
  <2>3. /\ pending \ {c} \in SUBSET FP /\ pending \ {p} \in SUBSET FP
        /\ c \in pending \ {p} /\ c \notin pending \ {c}
    BY <2>2
  <2> DEFINE peers == pending \ {c}
             others == pending \ {p}
  <2>4. Better(created, p, c) /\ parent(p).matched
    <3>1. /\ SameNamespaceParentRule(c, peers, created).matched
          /\ p = SameNamespaceParentRule(c, peers, created).primary
      BY <2>1, Zenon
    <3>2. peers \in SUBSET FP /\ others \in SUBSET FP /\ c \in others /\ c \notin peers
      BY <2>3
    <3> HIDE DEF peers, others
    <3>3. Better(created, p, c) /\ SameNamespaceParentRule(p, others, created).matched
      BY <2>2, <3>1, <3>2, PrimaryOfParents
    <3> QED BY <3>3 DEF others
  <2> QED BY <2>2, <2>4, Zenon
<1>5. PICK c \in T : \A g \in T \ {c} : Better(created, c, g)
  <2>1. T \in SUBSET FP
    OBVIOUS
  <2> HIDE DEF T
  <2> QED BY <1>3, <2>1, BestExists
<1>6. PICK p \in T \ {c} : Better(created, p, c)
  BY <1>4, Zenon
<1>7. c \in FP /\ p \in FP /\ Better(created, c, p)
  BY <1>5, <1>6
<1> QED BY <1>6, <1>7, BetterStrict

(* Whatever findings are pending, and whenever they arrived, the rules     *)
(* never make a ring of candidates wait for one another: at least one      *)
(* member of any set of waiting candidates waits for one outside it.       *)
THEOREM NobodyWaitsInARing == Spec => []NoWaitCycle
<1> DEFINE Dated == pending \in SUBSET FP /\ created \in [FP -> Nat]
<1>1. Init => Dated
  BY DEF Init
<1>2. Dated /\ [Next]_vars => Dated'
  BY TimesAssumption DEF Next, vars, Arrive, Leave, PodDeleted
<1>3. Dated => NoWaitCycle
  <2> DEFINE waiting == {<<c, Verdict(c).primary>> : c \in {x \in pending : Waits(x)}}
             sources == {edge[1] : edge \in waiting}
  <2>1. SUFFICES ASSUME Dated, NEW S \in (SUBSET sources) \ {{}}
                 PROVE  \E edge \in waiting : edge[1] \in S /\ edge[2] \notin S
    <3> HIDE DEF Dated
    <3> QED BY Zenon DEF NoWaitCycle
  <2>2. S \in SUBSET pending /\ S # {} /\ \A c \in S : Waits(c)
    <3>1. \A c \in sources : c \in pending /\ Waits(c)
      OBVIOUS
    <3> HIDE DEF sources, waiting, Dated
    <3>2. S \subseteq sources /\ S # {}
      BY <2>1
    <3>3. S \subseteq pending
      BY <3>1, <3>2, Zenon
    <3> QED BY <3>1, <3>2, <3>3, Zenon
  <2>3. pending \in SUBSET FP /\ created \in [FP -> Nat]
    BY <2>1
  <2> HIDE DEF waiting, Dated
  <2>4. PICK c \in S : Verdict(c).primary \notin S
    BY <2>2, <2>3, NoRing
  <2>5. <<c, Verdict(c).primary>> \in waiting
    BY <2>2 DEF waiting
  <2> QED BY <2>4, <2>5
<1> QED BY <1>1, <1>2, <1>3, PTL DEF Spec
=============================================================================
