--------------------------- MODULE AgentNamespace ---------------------------
(***************************************************************************)
(* The Kubernetes objects that the watcher and the cluster share: the      *)
(* RemediationJobs and batch Jobs of the agent namespace, the dry-run      *)
(* ConfigMaps, and the informer caches the watcher reads them through.     *)
(*                                                                         *)
(* Writes go to the API server, reads come from a cache.  A watch delivers *)
(* the writes to one kind of object in order, so a cache is always an      *)
(* earlier state of all the objects of its kind; Lagging says which of the *)
(* two caches may trail the store.                                         *)
(***************************************************************************)
EXTENDS Findings

CONSTANTS
  Src,               \* watched source objects (pods, deployments, ...)
  NoObject,          \* stands for "no object of this name"
  Lagging,           \* the caches that may lag: a subset of {"rjobs", "jobs"}
  TTL,               \* RemediationJobTTLSeconds: PR-merged tombstones, finished Jobs
  ShortTTL,          \* RemediationJobShortTTLSeconds: unmerged tombstones
  StalenessTimeout,  \* jobStalenessTimeout
  LateStart,         \* TRUE: a Job's pod may first start after StalenessTimeout
  Deadlines,         \* TRUE: a Job may exceed its ActiveDeadlineSeconds
  DryRun,            \* TRUE: agent Jobs are built in dry-run mode
  OpensPR,           \* TRUE: the agent may report a pull request
  MaxNow             \* bound on the clock

VARIABLES
  rjobs,     \* [FP -> RJob or NoObject], as stored
  jobs,      \* [FP -> Job or NoObject], as stored
  rjCache,   \* informer cache of rjobs
  jobCache,  \* informer cache of jobs
  reports,   \* the findings whose dry-run report ConfigMap exists
  now,       \* the clock
  spawned    \* history: <<f, uid>> of every Job created and not yet expired

store == <<rjobs, jobs, rjCache, jobCache, reports, now, spawned>>

NoTime == -1
NoGroup == 0

(* "New" is the blank phase of an object that no reconcile has seen yet.  *)
Phase == {"New", "Pending", "Dispatched", "Running", "Succeeded", "Failed",
          "PermanentlyFailed", "Cancelled", "Suppressed"}

(* Status.Message: empty, a dry-run report, or the notice that there was none. *)
Message == {"none", "report", "unavailable"}

(* RemediationJob: the metadata, SourceResultRef and status fields that    *)
(* decisions read.  JobRef, DispatchedAt and PRRef are only reported.      *)
RJob ==
  [uid : Nat, created : Nat, src : Src, phase : Phase, retry : Nat,
   completedAt : Int, sink : BOOLEAN, recorded : BOOLEAN, merged : BOOLEAN,
   mergedAt : Int, group : Nat, label : Nat,
   message : Message]

(* batch/v1 Job: parallelism 1, BackoffLimit 1. *)
Job ==
  [owner : Nat, created : Nat, active : 0..1, failed : 0..2,
   succeeded : 0..1, finishedAt : Int, findings : SUBSET FP]

BackoffLimit == 1

NewRJob(uid, s) ==
  [uid |-> uid, created |-> now, src |-> s, phase |-> "New", retry |-> 0,
   completedAt |-> NoTime, sink |-> FALSE, recorded |-> FALSE,
   merged |-> FALSE, mergedAt |-> NoTime, group |-> NoGroup,
   label |-> NoGroup, message |-> "none"]

(* jobbuilder.Build: owned by the incarnation, carrying its finding and    *)
(* the correlated ones.                                                    *)
NewJob(f, uid, correlated) ==
  [owner |-> uid, created |-> now, active |-> 0, failed |-> 0,
   succeeded |-> 0, finishedAt |-> NoTime, findings |-> {f} \cup correlated]

RJobView == IF "rjobs" \in Lagging THEN rjCache ELSE rjobs
JobView == IF "jobs" \in Lagging THEN jobCache ELSE jobs

(* Faulty variant: off by one in the exhausted backoff limit. *)
SyncPhaseTooLate(j) ==
  IF j.succeeded > 0 THEN "Succeeded"
  ELSE IF j.failed > BackoffLimit + 1 THEN "Failed"
  ELSE IF j.active > 0 THEN "Running"
  ELSE "Dispatched"

(* syncPhaseFromJob. *)
SyncPhaseFromJob(j) ==
  IF j.succeeded > 0 THEN "Succeeded"
  ELSE IF j.failed >= BackoffLimit + 1 THEN "Failed"
  ELSE IF j.active > 0 THEN "Running"
  ELSE "Dispatched"

(* isJobActive: does the Job count against MaxConcurrentJobs? *)
IsJobActive(j) ==
  /\ j.succeeded = 0
  /\ j.failed < BackoffLimit + 1
  /\ j.active = 0 /\ j.failed = 0 => now - j.created <= StalenessTimeout

ActiveJobs(view) == {f \in FP : view[f] # NoObject /\ IsJobActive(view[f])}

-----------------------------------------------------------------------------
(* API writes.  A patch is addressed by name: it reaches whatever          *)
(* incarnation has the name now, and nothing when there is none.  A merge  *)
(* patch carries only the fields that the writer changed: Merged is the    *)
(* stored value after a write of new by a writer that had read old.        *)

Merged(old, new, stored) == IF new # old THEN new ELSE stored

PatchRJob(f, r) ==
  rjobs' = IF rjobs[f] = NoObject THEN rjobs ELSE [rjobs EXCEPT ![f] = r]

DeleteRJob(f) == rjobs' = [rjobs EXCEPT ![f] = NoObject]

-----------------------------------------------------------------------------
InitStore ==
  /\ rjobs = [f \in FP |-> NoObject]
  /\ jobs = [f \in FP |-> NoObject]
  /\ rjCache = [f \in FP |-> NoObject]
  /\ jobCache = [f \in FP |-> NoObject]
  /\ reports = {}
  /\ now = 0
  /\ spawned = {}

Tick ==
  /\ now < MaxNow
  /\ now' = now + 1
  /\ UNCHANGED <<rjobs, jobs, rjCache, jobCache, reports, spawned>>

(* The watch of one kind delivers everything written so far. *)
SyncRJobs ==
  /\ "rjobs" \in Lagging
  /\ rjCache # rjobs
  /\ rjCache' = rjobs
  /\ UNCHANGED <<rjobs, jobs, jobCache, reports, now, spawned>>

SyncJobs ==
  /\ "jobs" \in Lagging
  /\ jobCache # jobs
  /\ jobCache' = jobs
  /\ UNCHANGED <<rjobs, jobs, rjCache, reports, now, spawned>>

-----------------------------------------------------------------------------
(* The Kubernetes Job controller, the kubelet and the agent's pod.         *)

SetJob(f, j) ==
  /\ jobs' = [jobs EXCEPT ![f] = j]
  /\ UNCHANGED <<rjobs, rjCache, jobCache, now>>

Unfinished(f) == jobs[f] # NoObject /\ jobs[f].finishedAt = NoTime

PodStart(f) ==
  /\ Unfinished(f)
  /\ jobs[f].active = 0
  /\ LateStart \/ jobs[f].failed > 0 \/ now - jobs[f].created <= StalenessTimeout
  /\ SetJob(f, [jobs[f] EXCEPT !.active = 1])
  /\ UNCHANGED <<reports, spawned>>

PodFail(f) ==
  /\ Unfinished(f)
  /\ jobs[f].active = 1
  /\ SetJob(f, [jobs[f] EXCEPT !.active = 0, !.failed = jobs[f].failed + 1,
                  !.finishedAt = IF jobs[f].failed >= BackoffLimit THEN now ELSE NoTime])
  /\ UNCHANGED <<reports, spawned>>

(* A dry-run agent writes its report just before the pod exits. *)
PodSucceed(f) ==
  /\ Unfinished(f)
  /\ jobs[f].active = 1
  /\ SetJob(f, [jobs[f] EXCEPT !.active = 0, !.succeeded = 1, !.finishedAt = now])
  /\ reports' = IF DryRun THEN reports \cup {f} ELSE reports
  /\ UNCHANGED spawned

(* The running pod, if any, is killed and counted as failed. *)
DeadlineExceeded(f) ==
  /\ Deadlines
  /\ Unfinished(f)
  /\ SetJob(f, [jobs[f] EXCEPT !.active = 0, !.failed = jobs[f].failed + jobs[f].active,
                  !.finishedAt = now])
  /\ UNCHANGED <<reports, spawned>>

(* TTLSecondsAfterFinished. *)
JobExpire(f) ==
  /\ jobs[f] # NoObject
  /\ jobs[f].finishedAt # NoTime
  /\ now - jobs[f].finishedAt >= TTL
  /\ SetJob(f, NoObject)
  /\ spawned' = spawned \ {<<f, jobs[f].owner>>}
  /\ UNCHANGED reports

OwnerLives(f) == rjobs[f] # NoObject /\ rjobs[f].uid = jobs[f].owner

(* A Job whose owner incarnation does not exist is garbage-collected. *)
JobCollect(f) ==
  /\ jobs[f] # NoObject
  /\ ~OwnerLives(f)
  /\ SetJob(f, NoObject)
  /\ UNCHANGED <<reports, spawned>>

(* The running agent patches SinkRef onto the RemediationJob it was given. *)
AgentReportsPR(f) ==
  /\ OpensPR
  /\ Unfinished(f)
  /\ jobs[f].active = 1
  /\ rjobs[f] # NoObject
  /\ ~rjobs[f].sink
  /\ rjobs' = [rjobs EXCEPT ![f].sink = TRUE]
  /\ UNCHANGED <<jobs, rjCache, jobCache, reports, now, spawned>>

StoreTypeOK ==
  /\ rjobs \in [FP -> RJob \cup {NoObject}]
  /\ jobs \in [FP -> Job \cup {NoObject}]
  /\ rjCache \in [FP -> RJob \cup {NoObject}]
  /\ jobCache \in [FP -> Job \cup {NoObject}]
  /\ reports \subseteq FP
  /\ now \in Nat
  /\ spawned \subseteq FP \X Nat
=============================================================================
