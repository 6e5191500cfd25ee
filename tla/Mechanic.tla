------------------------------ MODULE Mechanic ------------------------------
(***************************************************************************)
(* The watcher process in its cluster: the RemediationJob controller, the  *)
(* source providers, the Kubernetes Job controller and garbage collector,  *)
(* the agents, the informers and the clock, all interleaving.              *)
(***************************************************************************)
EXTENDS RemediationJobController, SourceProvider

CONSTANT MaxFaults  \* bound on failed API calls and crashes

ASSUME StoreAssumption ==
  /\ NoObject \notin RJob
  /\ NoObject \notin Job
  /\ Lagging \subseteq {"rjobs", "jobs"}

ASSUME NumberAssumption ==
  /\ {TTL, ShortTTL, StalenessTimeout, Window, MaxConcurrentJobs} \subseteq Nat
  /\ {MaxNow, MaxUid, MaxFaults} \subseteq Nat
  /\ MaxRetries \in Int

ASSUME SwitchAssumption == {LateStart, Deadlines, DryRun, OpensPR, Correlate, Vanish} \subseteq BOOLEAN

VARIABLE faults  \* failed API calls and crashes that may still happen

ctlVars == <<ctl, nextGroup>>
prvVars == <<source, prv, nextUid>>
vars == <<store, ctlVars, prvVars, faults>>

Init == InitStore /\ InitCtl /\ InitPrv /\ faults = MaxFaults

Cluster ==
  /\ \/ Tick \/ SyncRJobs \/ SyncJobs
     \/ \E f \in FP : \/ PodStart(f) \/ PodFail(f) \/ PodSucceed(f)
                      \/ DeadlineExceeded(f) \/ JobExpire(f) \/ JobCollect(f)
                      \/ AgentReportsPR(f)
  /\ UNCHANGED <<ctlVars, prvVars, faults>>

Sources ==
  /\ \E s \in Src : \E v \in FP \cup {"healthy", "gone"} : SourceChange(s, v)
  /\ UNCHANGED <<ctlVars, faults>>

Get(f) == CtlGet(f) /\ UNCHANGED <<prvVars, faults>>
Step == CtlStep(Alive) /\ UNCHANGED <<prvVars, faults>>
Look(p, s) == (PrvGone(p, s) \/ PrvFinding(p, s)) /\ UNCHANGED <<ctlVars, faults>>
Work(p) == PrvStep(p) /\ UNCHANGED <<ctlVars, faults>>

Fault ==
  /\ faults > 0
  /\ faults' = faults - 1
  /\ \/ (CtlAbort \/ CtlRecordPRFails \/ CtlFetchReportFails) /\ UNCHANGED prvVars
     \/ /\ \E p \in Provider : PrvAbort(p) \/ \E f \in FP : PrvCancelFails(p, f)
        /\ UNCHANGED ctlVars

Next ==
  \/ Cluster
  \/ Sources
  \/ \E f \in FP : Get(f)
  \/ Step
  \/ \E p \in Provider : (\E s \in Src : Look(p, s)) \/ Work(p)
  \/ Fault

Spec == Init /\ [][Next]_vars

(***************************************************************************)
(* The work queue of each controller serves every object that changed, was *)
(* requeued or is resynced; a reconcile runs to its end; pods run and end; *)
(* the garbage collector and the watches make progress.  The cluster need  *)
(* not produce findings, and a Job need not exceed its deadline.           *)
(***************************************************************************)
ClusterVars == UNCHANGED <<ctlVars, prvVars, faults>>

Fairness ==
  /\ \A f \in FP : SF_vars(Get(f))
  /\ WF_vars(Step)
  /\ \A p \in Provider : WF_vars(Work(p)) /\ \A s \in Src : SF_vars(Look(p, s))
  /\ \A f \in FP : /\ WF_vars(PodStart(f) /\ ClusterVars)
                   /\ WF_vars((PodFail(f) \/ PodSucceed(f)) /\ ClusterVars)
                   /\ WF_vars(JobCollect(f) /\ ClusterVars)
  /\ WF_vars((SyncRJobs \/ SyncJobs) /\ ClusterVars)
  /\ WF_vars(Tick /\ ClusterVars)

FairSpec == Spec /\ Fairness

-----------------------------------------------------------------------------
CtlPC == {"idle", "record", "decide", "stamp", "report", "sync", "await", "suppress",
          "label", "recover", "relabel", "gate", "create", "adopt", "dispatched"}
PrvPC == {"idle", "cancel", "cancelDelete", "deleteFailed", "tombstone", "hierarchy", "create"}

CtlState ==
  [pc : CtlPC, key : FP \cup {NoObject}, obj : RJob \cup {NoObject},
   job : Job \cup {NoObject}, peers : SUBSET FP, findings : SUBSET FP,
   gid : Nat, message : Message]

PrvState ==
  [pc : PrvPC, src : Src \cup {NoObject}, key : FP \cup {NoObject},
   obj : RJob \cup {NoObject}, todo : SUBSET FP]

CtlTypeOK ==
  /\ ctl \in CtlState
  /\ nextGroup \in Nat \ {0}
  /\ ctl.pc # "idle" => ctl.key \in FP /\ ctl.obj \in RJob
  /\ ctl.pc \in {"report", "sync", "adopt"} => ctl.job \in Job

PrvTypeOK ==
  /\ source \in [Src -> FP \cup {"gone", "healthy"}]
  /\ prv \in [Provider -> PrvState]
  /\ \A p \in Provider :
       /\ prv[p].pc \in {"cancelDelete", "deleteFailed", "tombstone", "hierarchy", "create"}
            => prv[p].key \in FP
       /\ prv[p].pc \in {"deleteFailed", "hierarchy", "create"} => prv[p].src \in Src
       /\ prv[p].pc = "tombstone" => prv[p].obj \in RJob
  /\ nextUid \in Nat \ {0}

(* The types of the variables: the objects are well-formed, and each       *)
(* goroutine is at a program point that exists in its Reconcile and holds  *)
(* what that point reads.                                                  *)
TypeOK == StoreTypeOK /\ CtlTypeOK /\ PrvTypeOK /\ faults \in Nat

(* At most one agent Job is ever created for one incarnation of a          *)
(* RemediationJob, whatever fails or lags in between: dispatch relies on   *)
(* the deterministic Job name and on the garbage collector sparing Jobs    *)
(* whose owner lives (dispatch, Reconcile step 3).  A Job that the TTL     *)
(* controller removed long after it finished is forgotten.                 *)
NoDoubleDispatch ==
  [][\A f \in FP : jobs[f] = NoObject /\ jobs'[f] # NoObject /\ rjobs[f] # NoObject
                     /\ rjobs[f].uid = jobs'[f].owner
                   => <<f, jobs'[f].owner>> \notin spawned]_vars

(* concurrencyGate: never more than MaxConcurrentJobs Jobs that count as   *)
(* active, although the gate and the Create are two separate API calls.    *)
ConcurrencyBound ==
  MaxConcurrentJobs # 0 => Cardinality(ActiveJobs(jobs)) <= MaxConcurrentJobs

(* The switch on the terminal phases in Reconcile, the retry accounting    *)
(* and the deduplication tombstone: as long as its source exists, a        *)
(* finished investigation is not restarted, demoted or re-labelled by a    *)
(* reconcile that works from stale reads; it only stays or is deleted.     *)
TerminalIsStable ==
  [][\A f \in FP :
       /\ rjobs[f] # NoObject /\ rjobs'[f] # NoObject
       /\ rjobs'[f].uid = rjobs[f].uid
       /\ rjobs[f].phase \in {"Succeeded", "Failed", "PermanentlyFailed", "Suppressed"}
       => rjobs'[f].phase = rjobs[f].phase]_vars

(* A finding whose agent keeps failing is given at most MaxRetries Jobs,   *)
(* after which its RemediationJob is the permanent tombstone.              *)
RetriesBounded ==
  \A f \in FP : Cardinality({u \in 1..MaxUid : <<f, u>> \in spawned}) <= EffectiveMaxRetries

(* Deleting a source object cancels the investigations that were created   *)
(* from it, and no others.                                                 *)
CancelsOwn ==
  [][\A f \in FP : rjobs[f] # NoObject /\ rjobs'[f] # NoObject
                   /\ rjobs[f].phase # "Cancelled" /\ rjobs'[f].phase = "Cancelled"
                   => \E p \in Provider : prv[p].pc = "cancel" /\ prv[p].src = rjobs[f].src]_vars

(* Correlation: a finding that was suppressed in favour of a primary is    *)
(* not investigated by a Job of its own as well, as long as no API call    *)
(* failed (a lost Dispatched patch leaves a dispatched peer Pending).      *)
SuppressedNeverDispatched ==
  faults = MaxFaults =>
    \A f \in FP : rjobs[f] # NoObject /\ rjobs[f].phase = "Suppressed"
                  => jobs[f] = NoObject \/ jobs[f].owner # rjobs[f].uid

(* Correlation: the Job of a group's primary is given every finding that   *)
(* was suppressed into that group, also when it is dispatched by the       *)
(* recovery path after a crash.                                            *)
SuppressedIsCarried ==
  \A f, g \in FP :
    /\ rjobs[f] # NoObject /\ rjobs[f].phase = "Suppressed"
    /\ rjobs[g] # NoObject /\ rjobs[g].phase # "Suppressed"
    /\ rjobs[g].group = rjobs[f].group
    /\ jobs[g] # NoObject /\ jobs[g].owner = rjobs[g].uid
    => f \in jobs[g].findings

(* The dry-run report that an agent wrote reaches the Status.Message of    *)
(* the RemediationJob that dispatched the agent, as long as no API call    *)
(* fails: "no report" is only written for the Job of an earlier            *)
(* incarnation, whose report was fetched then (fetchDryRunReport).         *)
ReportNotLost ==
  [][\A f \in FP :
       /\ rjobs[f] # NoObject /\ rjobs[f].message = "none"
       /\ rjobs'[f] # NoObject /\ rjobs'[f].message = "unavailable"
       => ctl.job.owner # rjobs[f].uid \/ faults # MaxFaults]_vars

Open == {"New", "Pending", "Dispatched", "Running"}

(* Every investigation that was begun ends: its RemediationJob reaches a   *)
(* terminal phase or is deleted.                                           *)
EventuallySettled ==
  \A f \in FP : (rjobs[f] # NoObject /\ rjobs[f].phase \in Open)
                ~> (rjobs[f] = NoObject \/ rjobs[f].phase \notin Open)
=============================================================================
