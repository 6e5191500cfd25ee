---------------------------- MODULE CascadeProofs ----------------------------
(***************************************************************************)
(* The depth gate bounds the cascade of Job findings, for every MaxDepth   *)
(* and every number of RemediationJobs.  The recorded ChainDepth is only a *)
(* number on the object; the inductive invariant says what it counts: it   *)
(* is at least the number of Job links that a chain ends in.               *)
(***************************************************************************)
EXTENDS SelfRemediation, TLAPS

Counted(c, depth) == \A k \in Nat : JobLinks(c, k) => k <= depth

DepthCounts ==
  ~orphaned =>
    /\ \A c \in DOMAIN rjobs : Counted(c, rjobs[c].depth)
    /\ \A w \in Worker : Counted(prv[w].chain, prv[w].depth)

IInv == TypeOK /\ DepthCounts

(* A user's finding, at depth 0, ends in no Job link. *)
LEMMA EmptyChain == Counted(<<>>, 0) /\ <<>> \in Chain
BY DEF Counted, JobLinks, Chain

(* A Pod link starts the count anew, a Job link adds one. *)
LEMMA LinkCounts ==
  ASSUME NEW c \in Chain, NEW parent \in Nat \X Nat, NEW n \in Nat,
         NEW reason \in Condition \cup Status
  PROVE  /\ Append(c, Link("Pod", parent, n, reason)) \in Chain
         /\ Append(c, Link("Job", parent, n, reason)) \in Chain
         /\ Counted(Append(c, Link("Pod", parent, n, reason)), 0)
         /\ \A d \in Nat : Counted(c, d)
                           => Counted(Append(c, Link("Job", parent, n, reason)), d + 1)
<1> DEFINE l(kind) == Link(kind, parent, n, reason)
<1>1. \A kind \in {"Job", "Pod"} :
        l(kind) \in [kind : {"Job", "Pod"}, parent : Nat \X Nat, attempts : Nat,
                    reason : Condition \cup Status]
  BY DEF Link
<1>2. ASSUME NEW kind \in {"Job", "Pod"}
      PROVE  /\ Append(c, l(kind)) \in Chain
             /\ Len(Append(c, l(kind))) = Len(c) + 1
             /\ \A i \in 1..Len(c) : Append(c, l(kind))[i] = c[i]
             /\ Append(c, l(kind))[Len(c) + 1].kind = kind
  BY <1>1 DEF Chain, Link
<1> HIDE DEF l
<1>3. Len(c) \in Nat
  BY DEF Chain
<1>4. Counted(Append(c, l("Pod")), 0)
  <2> SUFFICES ASSUME NEW k \in Nat, JobLinks(Append(c, l("Pod")), k)
               PROVE  k <= 0
    BY DEF Counted
  <2> QED
    BY <1>2, <1>3 DEF JobLinks
<1>5. ASSUME NEW d \in Nat, Counted(c, d)
      PROVE  Counted(Append(c, l("Job")), d + 1)
  <2> SUFFICES ASSUME NEW k \in Nat, JobLinks(Append(c, l("Job")), k), k > 0
               PROVE  k - 1 <= d
    BY DEF Counted
  <2>1. JobLinks(c, k - 1)
    BY <1>2, <1>3 DEF JobLinks
  <2> QED
    BY <2>1, <1>5 DEF Counted
<1> QED
  BY <1>2, <1>4, <1>5 DEF l

(* Everything but a provider's finding, deletion and creation leaves what  *)
(* the invariant counts alone.                                             *)
LEMMA Preserved ==
  ASSUME IInv, TypeOK', DOMAIN rjobs' \subseteq DOMAIN rjobs,
         \A c \in DOMAIN rjobs' : rjobs'[c].depth = rjobs[c].depth,
         \A w \in Worker : prv'[w] = prv[w] \/ prv'[w] = Idle, UNCHANGED orphaned
  PROVE  IInv'
BY EmptyChain DEF IInv, DepthCounts, Idle

(* Adding or deleting an entry keeps the types of a map. *)
LEMMA TypedMaps ==
  ASSUME NEW m, NEW S, NEW T, Typed(m, S, T), NEW x
  PROVE  /\ Typed(Without(m, x), S, T)
         /\ \A v \in T : x \in S => Typed(With(m, x, v), S, T)
BY DEF Typed, With, Without

(* The types of an agent Job's parts. *)
LEMMA ClusterTypes ==
  ASSUME TypeOK, NEW c \in DOMAIN jobs
  PROVE  /\ c \in Chain /\ jobs[c] \in Job /\ PodOf(c) \in PodName
         /\ jobs[c].owner \in Nat /\ jobs[c].failed \in Nat /\ jobs[c].active \in 0..1
<1>1. c \in Chain /\ jobs[c] \in Job
  BY DEF TypeOK, Typed
<1> QED
  BY <1>1 DEF PodOf, PodName, Job

(* A Job put together from its parts is a Job. *)
LEMMA AgentJobType ==
  ASSUME NEW owner \in Nat, NEW active \in 0..1, NEW failed \in Nat, NEW condition \in Condition
  PROVE  AgentJob(owner, active, failed, condition) \in Job
BY DEF AgentJob, Job

(* Every step keeps the types; the depth gate is what keeps a              *)
(* RemediationJob's depth in 0..MaxDepth.                                  *)
THEOREM TypesPreserved == TypeOK /\ [Next]_vars => TypeOK'
<1> SUFFICES ASSUME TypeOK, [Next]_vars PROVE TypeOK'
  OBVIOUS
<1> USE DepthAssumption
<1>1. ASSUME NEW c \in DOMAIN rjobs, Dispatch(c) PROVE TypeOK'
  <2>1. c \in Chain /\ rjobs[c] \in RemediationJob
    BY DEF TypeOK, Typed
  <2>2. AgentJob(rjobs[c].uid, 0, 0, "none") \in Job
    BY <2>1, AgentJobType DEF RemediationJob, Condition
  <2>3. Typed(jobs', Chain, Job)
    BY <1>1, <2>1, <2>2, TypedMaps DEF Dispatch, TypeOK
  <2> QED
    BY <1>1, <2>3 DEF Dispatch, Cluster, TypeOK
<1>2. ASSUME NEW c \in DOMAIN rjobs, Sync(c) PROVE TypeOK'
  <2>1. c \in Chain /\ rjobs[c] \in RemediationJob
    BY DEF TypeOK, Typed
  <2>2. \A phase \in {"Succeeded", "Failed"} :
          [rjobs[c] EXCEPT !.phase = phase] \in RemediationJob
    BY <2>1 DEF RemediationJob
  <2>3. Typed(rjobs', Chain, RemediationJob)
    BY <1>2, <2>1, <2>2, TypedMaps DEF Sync, TypeOK
  <2> QED
    BY <1>2, <2>3 DEF Sync, Cluster, TypeOK
<1>3. ASSUME NEW c \in DOMAIN jobs,
             \/ \E s \in Trouble \cup {"running"} : PodStart(c, s)
             \/ PodRuns(c) \/ PodFail(c) \/ PodSucceed(c) \/ DeadlineExceeded(c)
      PROVE  TypeOK'
  <2>1. Trouble \cup {"running", "exit"} \subseteq Status
    BY DEF Status
  <2>2. \/ jobs' = jobs
        \/ \E j \in Job : jobs' = With(jobs, c, j)
    BY <1>3, ClusterTypes, AgentJobType
       DEF PodStart, PodRuns, PodFail, PodSucceed, DeadlineExceeded, Condition
  <2>3. \/ pods' = Without(pods, PodOf(c))
        \/ \E s \in Status : pods' = With(pods, PodOf(c), s)
    BY <1>3, <2>1, Zenon DEF PodStart, PodRuns, PodFail, PodSucceed, DeadlineExceeded
  <2>4. Typed(jobs', Chain, Job)
    BY <2>2, ClusterTypes, TypedMaps, Zenon DEF TypeOK
  <2>5. Typed(pods', PodName, Status)
    BY <2>3, ClusterTypes, TypedMaps, Zenon DEF TypeOK
  <2> QED
    BY <1>3, <2>4, <2>5
       DEF TypeOK, PodStart, PodRuns, PodFail, PodSucceed, DeadlineExceeded, Cluster
<1>4. ASSUME NEW c \in DOMAIN jobs, JobCollect(c) PROVE TypeOK'
  BY <1>4, TypedMaps DEF JobCollect, Cluster, TypeOK
<1>5. ASSUME NEW x \in DOMAIN pods, PodCollect(x) PROVE TypeOK'
  BY <1>5, TypedMaps DEF PodCollect, Cluster, TypeOK
<1>10. ASSUME NEW w \in Worker, NEW c \in Chain, NEW d \in Nat, Found(w, c, d),
              orphaned' \in BOOLEAN
       PROVE  TypeOK'
  <2>1. d \in 0..MaxDepth
    BY <1>10 DEF Found, DepthGate
  <2>2. \A pc \in {"deleteFailed", "create"} : [pc |-> pc, chain |-> c, depth |-> d] \in Working
    BY <2>1 DEF Working
  <2>3. prv' \in [Worker -> Working]
    BY <1>10, <2>2 DEF Found, TypeOK
  <2> QED
    BY <1>10, <2>3 DEF Found, TypeOK
<1>11. ASSUME SeeUserPod PROVE TypeOK'
  BY <1>10, <1>11, EmptyChain DEF SeeUserPod, TypeOK, Worker
<1>12. ASSUME NEW c \in DOMAIN jobs, SeeJob(c) PROVE TypeOK'
  <2>1. c \in Chain /\ jobs[c] \in Job /\ TheJob \in Nat \X Nat
    BY ClusterTypes DEF TheJob
  <2>2. jobs[c].failed \in Nat /\ jobs[c].condition \in Condition
    BY <2>1 DEF Job
  <2>3. Append(c, Link("Job", TheJob, jobs[c].failed, jobs[c].condition)) \in Chain
    BY <2>1, <2>2, LinkCounts
  <2>4. GetChainDepthFromOwner(c) \in Nat
    BY DEF GetChainDepthFromOwner, TypeOK, Typed, RemediationJob
  <2> QED
    BY <1>10, <1>12, <2>3, <2>4 DEF SeeJob, TypeOK, Worker
<1>13. ASSUME NEW x \in DOMAIN pods, SeePod(x) PROVE TypeOK'
  <2>1. x.chain \in Chain /\ pods[x] \in Status /\ GetParent(x) \in Nat \X Nat
    BY DEF TypeOK, Typed, PodName, GetParent, TheJob
  <2>2. Append(x.chain, Link("Pod", GetParent(x), 0, pods[x])) \in Chain
    BY <2>1, LinkCounts
  <2> QED
    BY <1>10, <1>13, <2>2 DEF SeePod, TypeOK, Worker
<1>14. Idle \in Working
  BY EmptyChain DEF Idle, Working
<1>15. ASSUME NEW w \in Worker, DeleteFailed(w) PROVE TypeOK'
  <2>1. [prv[w] EXCEPT !.pc = "create"] \in Working
    BY DEF TypeOK, Working
  <2> QED
    BY <1>15, <2>1, TypedMaps DEF DeleteFailed, TypeOK
<1>16. ASSUME NEW w \in Worker, Create(w) PROVE TypeOK'
  <2>1. prv[w].chain \in Chain /\ prv[w].depth \in 0..MaxDepth
    BY DEF TypeOK, Working
  <2>2. [uid |-> creates + 1, depth |-> prv[w].depth, phase |-> "open"] \in RemediationJob
    BY <2>1 DEF TypeOK, RemediationJob
  <2> QED
    BY <1>14, <1>16, <2>1, <2>2, TypedMaps DEF Create, Return, TypeOK
<1>17. ASSUME NEW w \in Worker, GiveUp(w) PROVE TypeOK'
  BY <1>14, <1>17 DEF GiveUp, Return, TypeOK
<1>18. CASE UNCHANGED vars
  BY <1>18 DEF vars, TypeOK
<1>19. ASSUME NEW c \in DOMAIN rjobs, Expire(c) PROVE TypeOK'
  BY <1>19, TypedMaps DEF Expire, Cluster, TypeOK
<1> QED
  BY <1>1, <1>2, <1>3, <1>4, <1>5, <1>11, <1>12, <1>13, <1>15, <1>16, <1>17, <1>18, <1>19
     DEF Next

(* What a provider takes on as a finding is counted by its depth. *)
LEMMA FoundCounts ==
  ASSUME IInv, TypeOK', NEW w \in Worker, NEW c, NEW d, Found(w, c, d),
         orphaned' \in BOOLEAN, orphaned => orphaned', ~orphaned' => Counted(c, d)
  PROVE  IInv'
<1>1. prv' = [prv EXCEPT ![w] = prv'[w]] /\ prv'[w].chain = c /\ prv'[w].depth = d
  BY DEF Found, IInv, TypeOK
<1> QED
  BY <1>1 DEF Found, IInv, TypeOK, DepthCounts

(* Every step keeps the depth of every RemediationJob, and of every        *)
(* finding a provider works on, at or above the number of Job links.       *)
THEOREM DepthCounted == IInv /\ [Next]_vars => IInv'
<1> SUFFICES ASSUME IInv, [Next]_vars PROVE IInv'
  OBVIOUS
<1> USE DepthAssumption
<1>1. TypeOK /\ TypeOK' /\ DepthCounts
  BY TypesPreserved DEF IInv
<1>2. ASSUME SeeUserPod PROVE IInv'
  BY <1>1, <1>2, EmptyChain, FoundCounts DEF SeeUserPod, TypeOK, Worker
<1>3. ASSUME NEW c \in DOMAIN jobs, SeeJob(c) PROVE IInv'
  <2> DEFINE d == GetChainDepthFromOwner(c)
             l == Append(c, Link("Job", TheJob, jobs[c].failed, jobs[c].condition))
  <2>1. c \in Chain /\ jobs[c] \in Job /\ TheJob \in Nat \X Nat
    BY <1>1, ClusterTypes DEF TheJob
  <2>2. jobs[c].failed \in Nat /\ jobs[c].condition \in Condition
    BY <2>1 DEF Job
  <2>3. \A n \in Nat : Counted(c, n) => Counted(l, n + 1)
    BY <2>1, <2>2, LinkCounts
  <2>4. ASSUME ~orphaned' PROVE Counted(l, d)
    <3>1. ~orphaned /\ c \in DOMAIN rjobs
      BY <1>3, <2>4 DEF SeeJob
    <3>2. rjobs[c].depth \in Nat /\ Counted(c, rjobs[c].depth)
      BY <1>1, <3>1 DEF TypeOK, Typed, RemediationJob, DepthCounts
    <3> HIDE DEF l
    <3> QED
      BY <2>3, <3>1, <3>2 DEF GetChainDepthFromOwner
  <2>5. Found("Job", l, d) /\ (orphaned => orphaned') /\ orphaned' \in BOOLEAN
    BY <1>1, <1>3 DEF SeeJob, TypeOK
  <2> HIDE DEF l, d
  <2> QED
    BY <1>1, <2>4, <2>5, FoundCounts DEF Worker
<1>4. ASSUME NEW x \in DOMAIN pods, SeePod(x) PROVE IInv'
  <2> DEFINE l == Append(x.chain, Link("Pod", GetParent(x), 0, pods[x]))
  <2>1. x.chain \in Chain /\ pods[x] \in Status /\ GetParent(x) \in Nat \X Nat
    BY <1>1 DEF TypeOK, Typed, PodName, GetParent, TheJob
  <2>2. Counted(l, 0)
    BY <2>1, LinkCounts
  <2>3. Found("Pod", l, 0) /\ UNCHANGED orphaned
    BY <1>4 DEF SeePod
  <2> HIDE DEF l
  <2> QED
    BY <1>1, <2>2, <2>3, FoundCounts DEF Worker, TypeOK
<1>5. ASSUME NEW w \in Worker, DeleteFailed(w) PROVE IInv'
  <2>1. /\ \A c \in DOMAIN rjobs' : c \in DOMAIN rjobs /\ rjobs'[c] = rjobs[c]
        /\ UNCHANGED orphaned
    BY <1>5 DEF DeleteFailed, Without
  <2>2. \A v \in Worker : prv'[v].chain = prv[v].chain /\ prv'[v].depth = prv[v].depth
    BY <1>1, <1>5 DEF DeleteFailed, TypeOK, Working
  <2> QED
    BY <1>1, <2>1, <2>2 DEF IInv, DepthCounts
<1>6. ASSUME NEW w \in Worker, Create(w) PROVE IInv'
  <2>1. /\ \A c \in DOMAIN rjobs' :
             \/ c = prv[w].chain /\ rjobs'[c].depth = prv[w].depth
             \/ c \in DOMAIN rjobs /\ rjobs'[c] = rjobs[c]
        /\ UNCHANGED orphaned
    BY <1>6 DEF Create, With
  <2>2. \A v \in Worker : prv'[v] = prv[v] \/ prv'[v] = Idle
    BY <1>1, <1>6 DEF Create, Return, TypeOK
  <2> QED
    BY <1>1, <2>1, <2>2, EmptyChain DEF IInv, DepthCounts, Idle
<1>7. ASSUME NEW w \in Worker, GiveUp(w) PROVE IInv'
  BY <1>1, <1>7, Preserved DEF GiveUp, Return, TypeOK
<1>8. ASSUME NEW c \in DOMAIN rjobs, Sync(c) PROVE IInv'
  <2>1. PICK phase \in {"Succeeded", "Failed"} :
          rjobs' = With(rjobs, c, [rjobs[c] EXCEPT !.phase = phase])
    BY <1>8 DEF Sync
  <2>2. [rjobs[c] EXCEPT !.phase = phase].depth = rjobs[c].depth
    BY <1>1 DEF TypeOK, Typed, RemediationJob
  <2>3. DOMAIN rjobs' = DOMAIN rjobs /\ \A y \in DOMAIN rjobs : rjobs'[y].depth = rjobs[y].depth
    BY <2>1, <2>2 DEF With
  <2> QED
    BY <1>1, <1>8, <2>3, Preserved DEF Sync, Cluster
<1>9. ASSUME UNCHANGED rjobs, Cluster PROVE IInv'
  BY <1>1, <1>9, Preserved DEF Cluster
<1>10. ASSUME NEW c \in DOMAIN rjobs, Dispatch(c) PROVE IInv'
  BY <1>9, <1>10 DEF Dispatch
<1>11. ASSUME NEW c \in DOMAIN jobs,
              \/ \E s \in Trouble \cup {"running"} : PodStart(c, s)
              \/ PodRuns(c) \/ PodFail(c) \/ PodSucceed(c) \/ DeadlineExceeded(c)
              \/ JobCollect(c)
       PROVE  IInv'
  BY <1>9, <1>11, Zenon
     DEF PodStart, PodRuns, PodFail, PodSucceed, DeadlineExceeded, JobCollect
<1>12. ASSUME NEW x \in DOMAIN pods, PodCollect(x) PROVE IInv'
  BY <1>9, <1>12 DEF PodCollect
<1>13. CASE UNCHANGED vars
  BY <1>9, <1>13 DEF vars, Cluster
<1>14. ASSUME NEW c \in DOMAIN rjobs, Expire(c) PROVE IInv'
  <2>1. /\ \A y \in DOMAIN rjobs' : y \in DOMAIN rjobs /\ rjobs'[y] = rjobs[y]
        /\ UNCHANGED <<prv, orphaned>>
    BY <1>14 DEF Expire, Without, Cluster
  <2> QED
    BY <1>1, <2>1 DEF IInv, DepthCounts
<1> QED
  BY <1>2, <1>3, <1>4, <1>5, <1>6, <1>7, <1>8, <1>10, <1>11, <1>12, <1>13, <1>14
     DEF Next

(* No RemediationJob is deeper than MaxDepth, and at most MaxDepth         *)
(* findings about agent Jobs follow one another until a failed Job is seen *)
(* while it has no RemediationJob: the depth gate together with            *)
(* getChainDepthFromOwner, for every MaxDepth and any number of            *)
(* RemediationJobs.                                                        *)
THEOREM CascadeBounded == Spec => [](TypeOK /\ JobChainBounded)
<1>1. Init => IInv
  <2> SUFFICES ASSUME Init PROVE IInv
    OBVIOUS
  <2>1. DOMAIN rjobs = {} /\ DOMAIN jobs = {} /\ DOMAIN pods = {}
    BY DEF Init, Nothing
  <2>2. Idle \in Working
    BY EmptyChain, DepthAssumption DEF Idle, Working
  <2>3. prv \in [Worker -> Working] /\ creates \in Nat /\ orphaned \in BOOLEAN
    BY <2>2 DEF Init
  <2>4. \A w \in Worker : prv[w].chain = <<>> /\ prv[w].depth = 0
    BY DEF Init, Idle
  <2>5. TypeOK
    BY <2>1, <2>3, Zenon DEF TypeOK, Typed
  <2> QED
    BY <2>1, <2>4, <2>5, EmptyChain DEF IInv, DepthCounts
<1>2. IInv => TypeOK /\ JobChainBounded
  <2> SUFFICES ASSUME IInv, ~orphaned, NEW c \in DOMAIN rjobs, JobLinks(c, MaxDepth + 1)
               PROVE  FALSE
    BY DEF IInv, JobChainBounded
  <2>1. rjobs[c].depth \in 0..MaxDepth /\ Counted(c, rjobs[c].depth)
    BY DEF IInv, TypeOK, Typed, RemediationJob, DepthCounts
  <2> QED
    BY <2>1, DepthAssumption DEF Counted
<1> QED
  BY <1>1, <1>2, DepthCounted, PTL DEF Spec

(* TypeOK for every MaxDepth: in particular no RemediationJob and no       *)
(* worker ever holds a ChainDepth beyond it.                               *)
THEOREM CascadeTyped == Spec => []TypeOK
BY CascadeBounded, PTL
=============================================================================
