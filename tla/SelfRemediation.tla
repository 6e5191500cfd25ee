-------------------------- MODULE SelfRemediation --------------------------
(***************************************************************************)
(* The cascade of investigations of the watcher's own agents.  The agent   *)
(* Jobs and their Pods live in a watched namespace, so the Job provider    *)
(* and the Pod provider (internal/provider/native) find their failures     *)
(* like those of any workload; ChainDepth and the depth gate of            *)
(* SourceProviderReconciler are there to end the cascade.                  *)
(*                                                                         *)
(* A finding is named by its chain: the links that lead to it from the     *)
(* user's own finding, which is the empty chain.  A link holds what        *)
(* FindingFingerprint hashes besides the agent Job it is about: the kind,  *)
(* the object that getParent resolved to, and the error texts.  The names  *)
(* of a RemediationJob and of its Job are functions of the fingerprint, so *)
(* the chain also names both.                                              *)
(***************************************************************************)
EXTENDS Integers, Sequences

CONSTANTS
  MaxDepth,    \* SelfRemediationMaxDepth
  Trouble,     \* troubles of a pod that has not run yet: "Unschedulable", "ErrImagePull"
  Deadlines,   \* TRUE: a Job may exceed its ActiveDeadlineSeconds
  MaxCreates   \* bound on the number of RemediationJobs ever created

ASSUME DepthAssumption ==
  /\ {MaxDepth, MaxCreates} \subseteq Nat
  /\ Trouble \subseteq {"Unschedulable", "ErrImagePull"}
  /\ Deadlines \in BOOLEAN

VARIABLES
  rjobs,     \* [chains -> RemediationJob]
  jobs,      \* [chains -> agent Job]
  pods,      \* [names -> status] of the agents' pods
  prv,       \* [Worker -> worker]: the goroutines of two source providers
  creates,   \* RemediationJobs created so far; also the last UID
  orphaned   \* history: a failed Job was seen while it had no RemediationJob

vars == <<rjobs, jobs, pods, prv, creates, orphaned>>

Worker == {"Job", "Pod"}
BackoffLimit == 1

Without(m, x) == [y \in DOMAIN m \ {x} |-> m[y]]
With(m, x, v) == [y \in DOMAIN m \cup {x} |-> IF y = x THEN v ELSE m[y]]

Nothing == [x \in {} |-> 0]
Idle == [pc |-> "idle", chain |-> <<>>, depth |-> 0]

Init ==
  /\ rjobs = Nothing
  /\ jobs = Nothing
  /\ pods = Nothing
  /\ prv = [w \in Worker |-> Idle]
  /\ creates = 0
  /\ orphaned = FALSE

Cluster == UNCHANGED <<prv, creates, orphaned>>

-----------------------------------------------------------------------------
(* The RemediationJob controller, in what the cascade sees of it. *)

AgentJob(owner, active, failed, condition) ==
  [owner |-> owner, active |-> active, failed |-> failed, condition |-> condition]

Dispatch(c) ==
  /\ c \in DOMAIN rjobs
  /\ rjobs[c].phase = "open"
  /\ c \notin DOMAIN jobs
  /\ jobs' = With(jobs, c, AgentJob(rjobs[c].uid, 0, 0, "none"))
  /\ UNCHANGED <<rjobs, pods>> /\ Cluster

Sync(c) ==
  /\ c \in DOMAIN rjobs \cap DOMAIN jobs
  /\ rjobs[c].phase = "open"
  /\ \E phase \in {"Succeeded", "Failed"} :
       /\ phase = "Succeeded" => jobs[c].condition = "Complete"
       /\ phase = "Failed" => jobs[c].failed >= BackoffLimit + 1
       /\ rjobs' = With(rjobs, c, [rjobs[c] EXCEPT !.phase = phase])
  /\ UNCHANGED <<jobs, pods>> /\ Cluster

(* The tombstone of a success has outlived its TTL. *)
Expire(c) ==
  /\ c \in DOMAIN rjobs
  /\ rjobs[c].phase = "Succeeded"
  /\ rjobs' = Without(rjobs, c)
  /\ UNCHANGED <<jobs, pods>> /\ Cluster

-----------------------------------------------------------------------------
(* The Job controller, the kubelet and the garbage collector. *)

PodOf(c) == [chain |-> c, owner |-> jobs[c].owner, attempt |-> jobs[c].failed]
Unfinished(c) == c \in DOMAIN jobs /\ jobs[c].condition = "none"

PodStart(c, status) ==
  /\ Unfinished(c)
  /\ jobs[c].active = 0
  /\ jobs' = With(jobs, c, AgentJob(jobs[c].owner, 1, jobs[c].failed, "none"))
  /\ pods' = With(pods, PodOf(c), status)
  /\ UNCHANGED rjobs /\ Cluster

PodRuns(c) ==
  /\ Unfinished(c)
  /\ jobs[c].active = 1
  /\ pods[PodOf(c)] # "running"
  /\ pods' = With(pods, PodOf(c), "running")
  /\ UNCHANGED <<rjobs, jobs>> /\ Cluster

(* The failed pod stays until its Job is deleted. *)
PodFail(c) ==
  /\ Unfinished(c)
  /\ jobs[c].active = 1
  /\ pods[PodOf(c)] = "running"
  /\ pods' = With(pods, PodOf(c), "exit")
  /\ jobs' = With(jobs, c, AgentJob(jobs[c].owner, 0, jobs[c].failed + 1,
                                    IF jobs[c].failed >= BackoffLimit
                                    THEN "BackoffLimitExceeded" ELSE "none"))
  /\ UNCHANGED rjobs /\ Cluster

(* A pod that ended well is of no interest any more. *)
PodSucceed(c) ==
  /\ Unfinished(c)
  /\ jobs[c].active = 1
  /\ pods[PodOf(c)] = "running"
  /\ pods' = Without(pods, PodOf(c))
  /\ jobs' = With(jobs, c, AgentJob(jobs[c].owner, 0, jobs[c].failed, "Complete"))
  /\ UNCHANGED rjobs /\ Cluster

(* The running pod, if any, is deleted and counted as failed. *)
DeadlineExceeded(c) ==
  /\ Deadlines
  /\ Unfinished(c)
  /\ jobs' = With(jobs, c, AgentJob(jobs[c].owner, 0, jobs[c].failed + jobs[c].active,
                                    "DeadlineExceeded"))
  /\ pods' = Without(pods, PodOf(c))
  /\ UNCHANGED rjobs /\ Cluster

(* Objects whose owner is gone are deleted, owners before dependents. *)
JobCollect(c) ==
  /\ c \in DOMAIN jobs
  /\ c \in DOMAIN rjobs => rjobs[c].uid # jobs[c].owner
  /\ jobs' = Without(jobs, c)
  /\ UNCHANGED <<rjobs, pods>> /\ Cluster

PodCollect(x) ==
  /\ x \in DOMAIN pods
  /\ x.chain \in DOMAIN jobs => jobs[x.chain].owner # x.owner
  /\ pods' = Without(pods, x)
  /\ UNCHANGED <<rjobs, jobs>> /\ Cluster

-----------------------------------------------------------------------------
(* The source providers: ExtractFinding, the depth gate, deduplication, ... *)

(* FindingFingerprint.  The texts are modelled by what varies in them: the *)
(* number of attempts that failed and the reason.                          *)
Link(kind, parent, attempts, reason) ==
  [kind |-> kind, parent |-> parent, attempts |-> attempts, reason |-> reason]

(* Faulty variant: off by one. *)
DepthGateTooLate(depth) == depth > 0 => MaxDepth # 0 /\ depth <= MaxDepth + 1

DepthGate(depth) == depth > 0 => MaxDepth # 0 /\ depth <= MaxDepth

(* A finding that passes the gate, and that no RemediationJob, but for a   *)
(* failed one, covers already.                                             *)
Found(w, chain, depth) ==
  /\ prv[w].pc = "idle"
  /\ creates < MaxCreates
  /\ DepthGate(depth)
  /\ chain \in DOMAIN rjobs => rjobs[chain].phase = "Failed"
  /\ prv' = [prv EXCEPT ![w] =
              [pc |-> IF chain \in DOMAIN rjobs THEN "deleteFailed" ELSE "create",
               chain |-> chain, depth |-> depth]]
  /\ UNCHANGED <<rjobs, jobs, pods, creates>>

(* A pod of the user's own workload, which never recovers. *)
SeeUserPod == Found("Pod", <<>>, 0) /\ UNCHANGED orphaned

(* Faulty variant: the depth of the owner is passed on as it is. *)
GetChainDepthSame(c) == IF c \in DOMAIN rjobs THEN rjobs[c].depth ELSE 1

(* getChainDepthFromOwner: the owner is looked up by name. *)
GetChainDepthFromOwner(c) == IF c \in DOMAIN rjobs THEN rjobs[c].depth + 1 ELSE 1

(* No agent Job is suspended or owned by a CronJob.  A Job between two     *)
(* attempts satisfies this as well.                                        *)
JobFailed(j) == j.failed # 0 /\ j.active = 0 /\ j.condition # "Complete"

(* The RemediationJob that owns the Job is of no kind that getParent       *)
(* follows: the parent is the Job itself.                                  *)
TheJob == <<0, 0>>

SeeJob(c) ==
  /\ c \in DOMAIN jobs
  /\ JobFailed(jobs[c])
  /\ Found("Job", Append(c, Link("Job", TheJob, jobs[c].failed, jobs[c].condition)),
           GetChainDepthFromOwner(c))
  /\ orphaned' = (orphaned \/ c \notin DOMAIN rjobs)

(* The Job, or the pod itself when the Job cannot be read any more. *)
GetParent(x) == IF x.chain \in DOMAIN jobs THEN TheJob ELSE <<x.owner, x.attempt>>

(* podProvider sets no ChainDepth, whoever owns the pod. *)
SeePod(x) ==
  /\ x \in DOMAIN pods
  /\ pods[x] # "running"
  /\ Found("Pod", Append(x.chain, Link("Pod", GetParent(x), 0, pods[x])), 0)
  /\ UNCHANGED orphaned

(* ... deletion of the failed RemediationJob, ... *)
DeleteFailed(w) ==
  /\ prv[w].pc = "deleteFailed"
  /\ rjobs' = Without(rjobs, prv[w].chain)
  /\ prv' = [prv EXCEPT ![w] = [prv[w] EXCEPT !.pc = "create"]]
  /\ UNCHANGED <<jobs, pods, creates, orphaned>>

Return(w) == prv' = [prv EXCEPT ![w] = Idle]

(* ... suppression of a Pod's finding by one of its Job, and creation. *)
Siblings(c, d) ==
  /\ Len(c) = Len(d) /\ Len(c) > 0
  /\ \A i \in 1..(Len(c) - 1) : c[i] = d[i]
  /\ c[Len(c)].parent = d[Len(d)].parent

Superseded(c) ==
  \E d \in DOMAIN rjobs : Siblings(c, d) /\ c[Len(c)].kind = "Pod" /\ d[Len(d)].kind = "Job"

Create(w) ==
  /\ prv[w].pc = "create"
  /\ ~Superseded(prv[w].chain)
  /\ prv[w].chain \notin DOMAIN rjobs
  /\ creates < MaxCreates
  /\ creates' = creates + 1
  /\ rjobs' = With(rjobs, prv[w].chain,
                   [uid |-> creates + 1, depth |-> prv[w].depth, phase |-> "open"])
  /\ Return(w)
  /\ UNCHANGED <<jobs, pods, orphaned>>

(* Superseded, not ready, a failed call, or a crash. *)
GiveUp(w) ==
  /\ prv[w].pc # "idle"
  /\ Return(w)
  /\ UNCHANGED <<rjobs, jobs, pods, creates, orphaned>>

-----------------------------------------------------------------------------
Next ==
  \/ SeeUserPod
  \/ \E c \in DOMAIN rjobs : Dispatch(c) \/ Sync(c) \/ Expire(c)
  \/ \E c \in DOMAIN jobs :
       \/ \E s \in Trouble \cup {"running"} : PodStart(c, s)
       \/ PodRuns(c) \/ PodFail(c) \/ PodSucceed(c) \/ DeadlineExceeded(c)
       \/ JobCollect(c) \/ SeeJob(c)
  \/ \E x \in DOMAIN pods : PodCollect(x) \/ SeePod(x)
  \/ \E w \in Worker : DeleteFailed(w) \/ Create(w) \/ GiveUp(w)

Spec == Init /\ [][Next]_vars

-----------------------------------------------------------------------------
Condition == {"none", "Complete", "BackoffLimitExceeded", "DeadlineExceeded"}
Status == {"Unschedulable", "ErrImagePull", "running", "exit"}

Chain ==
  Seq([kind : {"Job", "Pod"}, parent : Nat \X Nat, attempts : Nat,
       reason : Condition \cup Status])

RemediationJob == [uid : Nat, depth : 0..MaxDepth, phase : {"open", "Succeeded", "Failed"}]

Job == [owner : Nat, active : 0..1, failed : Nat, condition : Condition]

PodName == [chain : Chain, owner : Nat, attempt : Nat]
Working == [pc : {"idle", "deleteFailed", "create"}, chain : Chain, depth : 0..MaxDepth]

Typed(m, S, T) == \A x \in DOMAIN m : x \in S /\ m[x] \in T

(* The types of the variables; no finding beyond the depth gate's limit    *)
(* becomes a RemediationJob.                                               *)
TypeOK ==
  /\ Typed(rjobs, Chain, RemediationJob)
  /\ Typed(jobs, Chain, Job)
  /\ Typed(pods, PodName, Status)
  /\ prv \in [Worker -> Working]
  /\ creates \in Nat
  /\ orphaned \in BOOLEAN

(* The last k links of the chain are findings about Jobs. *)
JobLinks(c, k) ==
  k <= Len(c) /\ \A i \in 1..Len(c) : i > Len(c) - k => c[i].kind = "Job"

(* getChainDepthFromOwner and the depth gate: at most MaxDepth Job         *)
(* findings follow one another in a cascade, however often investigations  *)
(* are deleted and created again, unless a failed Job is seen in the       *)
(* moment in which it has no RemediationJob.                               *)
JobChainBounded ==
  ~orphaned => \A c \in DOMAIN rjobs : ~JobLinks(c, MaxDepth + 1)

(* SELF_REMEDIATION_MAX_DEPTH bounds how many agents are dispatched for    *)
(* the failure of another agent, one after the other.                      *)
ChainBounded == \A c \in DOMAIN rjobs : Len(c) <= MaxDepth
=============================================================================
