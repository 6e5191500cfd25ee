---------------------- MODULE RemediationJobController ----------------------
(***************************************************************************)
(* internal/controller: RemediationJobReconciler.  One goroutine runs      *)
(* Reconcile for one RemediationJob at a time.  ctl is that goroutine: a   *)
(* reconcile reads its object from the cache (CtlGet), decides (pc         *)
(* "decide"), and then performs its API writes one action at a time, so    *)
(* that everything else in the cluster can act between any two of them.    *)
(*                                                                         *)
(*   pc          the next thing Reconcile does                             *)
(*   key, obj    the finding reconciled and the in-memory object           *)
(*   job         the Job that was read, for the status sync                *)
(*   peers       correlated peers still to be suppressed                   *)
(*   findings    the correlated findings to be given to the agent          *)
(*   gid         the correlation group, or the UID of the awaited primary  *)
(*   message     the dry-run report that was read                          *)
(***************************************************************************)
EXTENDS AgentNamespace, Correlator

CONSTANTS
  MaxConcurrentJobs,  \* 0: no limit
  MaxRetries,         \* RemediationJobSpec.MaxRetries
  Correlate,          \* FALSE: DisableCorrelation (Correlator is nil)
  Window,             \* CorrelationWindowSeconds
  Injected            \* findings stored before the action became "suppress", which dispatch refuses

VARIABLES
  ctl,       \* the controller goroutine
  nextGroup  \* the next fresh correlation group ID

Resting ==
  [pc |-> "idle", key |-> NoObject, obj |-> NoObject, job |-> NoObject,
   peers |-> {}, findings |-> {}, gid |-> NoGroup, message |-> "none"]

InitCtl == ctl = Resting /\ nextGroup = 1

At(pc) == ctl.pc = pc
Goto(pc) == ctl' = [ctl EXCEPT !.pc = pc]
Return == ctl' = Resting

Key == ctl.key
Obj == ctl.obj
Live == rjobs[ctl.key]  \* the stored object a patch of this reconcile reaches

OnlyRJobs == UNCHANGED <<jobs, rjCache, jobCache, reports, now, spawned>>

-----------------------------------------------------------------------------
CtlGet(f) ==
  /\ At("idle")
  /\ RJobView[f] # NoObject
  /\ ctl' = [Resting EXCEPT
               !.pc = IF RJobView[f].sink /\ ~RJobView[f].recorded
                      THEN "record" ELSE "decide",
               !.key = f, !.obj = RJobView[f]]
  /\ UNCHANGED <<store, nextGroup>>

(* A successful patch refreshes the in-memory object. *)
CtlRecordPR ==
  /\ At("record")
  /\ Live # NoObject
  /\ PatchRJob(Key, [Live EXCEPT !.recorded = TRUE])
  /\ ctl' = [ctl EXCEPT !.pc = "decide", !.obj = [Live EXCEPT !.recorded = TRUE]]
  /\ OnlyRJobs /\ UNCHANGED nextGroup

(* The patch failed: logged, and the reconcile goes on with the condition  *)
(* set in memory only.                                                     *)
CtlRecordPRFails ==
  /\ At("record")
  /\ ctl' = [ctl EXCEPT !.pc = "decide", !.obj.recorded = TRUE]
  /\ UNCHANGED <<store, nextGroup>>

CtlInitPhase ==
  /\ At("decide")
  /\ Obj.phase = "New"
  /\ PatchRJob(Key, [Live EXCEPT !.phase = "Pending"])
  /\ Return
  /\ OnlyRJobs /\ UNCHANGED nextGroup

-----------------------------------------------------------------------------
(* The Succeeded tombstone. *)

CtlSetCompletedAt ==
  /\ At("decide")
  /\ Obj.phase = "Succeeded"
  /\ Obj.completedAt = NoTime
  /\ PatchRJob(Key, [Live EXCEPT !.completedAt = now])
  /\ Return
  /\ OnlyRJobs /\ UNCHANGED nextGroup

TombstoneDeadline(o) ==
  IF o.merged
  THEN (IF o.mergedAt # NoTime THEN o.mergedAt ELSE o.completedAt) + TTL
  ELSE o.completedAt + ShortTTL

(* Faulty variant: the deadline is applied to whatever has completed. *)
ExpiredInAnyPhase(o) ==
  /\ o.completedAt # NoTime
  /\ now >= TombstoneDeadline(o)

Expired(o) ==
  /\ o.phase = "Succeeded"
  /\ o.completedAt # NoTime
  /\ now >= TombstoneDeadline(o)

CtlExpire ==
  /\ At("decide")
  /\ Expired(Obj)
  /\ DeleteRJob(Key)
  /\ Goto("stamp")
  /\ OnlyRJobs /\ UNCHANGED nextGroup

(* What follows the Delete in the code: a status patch of the object that  *)
(* was just deleted, which reaches a new incarnation if there already is one. *)
CtlStamp ==
  /\ At("stamp")
  /\ PatchRJob(Key, [Live EXCEPT !.completedAt = Merged(Obj.completedAt, now, @)])
  /\ Return
  /\ OnlyRJobs /\ UNCHANGED nextGroup

-----------------------------------------------------------------------------

(* Faulty variant: Failed is missing from the switch on terminal phases. *)
ProceedsWhenFailed(o) == o.phase \in {"Pending", "Dispatched", "Running", "Failed"}

Proceeds(o) == o.phase \in {"Pending", "Dispatched", "Running"}
OwnedJob == JobView[Key]

(* Faulty variant: the report is fetched while the agent still runs. *)
CtlReadJobTooEarly ==
  /\ At("decide")
  /\ Proceeds(Obj)
  /\ OwnedJob # NoObject
  /\ ctl' = [ctl EXCEPT !.pc = IF DryRun /\ Obj.message = "none" THEN "report" ELSE "sync",
                        !.job = OwnedJob]
  /\ UNCHANGED <<store, nextGroup>>

CtlReadJob ==
  /\ At("decide")
  /\ Proceeds(Obj)
  /\ OwnedJob # NoObject
  /\ ctl' = [ctl EXCEPT
               !.pc = IF /\ DryRun /\ Obj.message = "none"
                         /\ SyncPhaseFromJob(OwnedJob) = "Succeeded"
                      THEN "report" ELSE "sync",
               !.job = OwnedJob]
  /\ UNCHANGED <<store, nextGroup>>

(* fetchDryRunReport: read past the cache, then delete the ConfigMap. *)
CtlFetchReport ==
  /\ At("report")
  /\ ctl' = [ctl EXCEPT !.pc = "sync",
               !.message = IF Key \in reports THEN "report" ELSE "unavailable"]
  /\ reports' = reports \ {Key}
  /\ UNCHANGED <<rjobs, jobs, rjCache, jobCache, now, spawned, nextGroup>>

(* The Get failed, which the message then says; or the Delete did, which   *)
(* is ignored.                                                             *)
CtlFetchReportFails ==
  /\ At("report")
  /\ \E m \in {"report", "unavailable"} :
       /\ m = "report" => Key \in reports
       /\ ctl' = [ctl EXCEPT !.pc = "sync", !.message = m]
  /\ UNCHANGED <<store, nextGroup>>

EffectiveMaxRetries == IF MaxRetries <= 0 THEN 3 ELSE MaxRetries

(* The in-memory object after the owned-Job sync. *)
Synced(o, j) ==
  LET new == SyncPhaseFromJob(j)
      retry == IF new = "Failed" THEN o.retry + 1 ELSE o.retry
  IN  [o EXCEPT
         !.phase = IF new = "Failed" /\ retry >= EffectiveMaxRetries
                   THEN "PermanentlyFailed" ELSE new,
         !.retry = retry,
         !.completedAt = IF new \in {"Succeeded", "Failed"} /\ o.completedAt = NoTime
                         THEN now ELSE @,
         !.message = IF ctl.message # "none" THEN ctl.message ELSE @]

(* Faulty variant: the sync of a failed Job also deletes the Job. *)
CtlSyncCleansUp ==
  /\ At("sync")
  /\ LET new == Synced(Obj, ctl.job)
     IN  PatchRJob(Key, [Live EXCEPT
           !.phase = Merged(Obj.phase, new.phase, @),
           !.retry = Merged(Obj.retry, new.retry, @),
           !.completedAt = Merged(Obj.completedAt, new.completedAt, @)])
  /\ jobs' = IF SyncPhaseFromJob(ctl.job) = "Failed" THEN [jobs EXCEPT ![Key] = NoObject] ELSE jobs
  /\ Return
  /\ UNCHANGED <<rjCache, jobCache, reports, now, spawned, nextGroup>>

(* One patch of every field that the sync changed.  Conditions is a list   *)
(* and is replaced as a whole whenever the sync is terminal.               *)
CtlSync ==
  /\ At("sync")
  /\ LET new == Synced(Obj, ctl.job)
     IN  PatchRJob(Key, [Live EXCEPT
           !.phase = Merged(Obj.phase, new.phase, @),
           !.retry = Merged(Obj.retry, new.retry, @),
           !.completedAt = Merged(Obj.completedAt, new.completedAt, @),
           !.message = Merged(Obj.message, new.message, @),
           !.recorded = IF SyncPhaseFromJob(ctl.job) \in {"Succeeded", "Failed"}
                        THEN Obj.recorded ELSE @])
  /\ Return
  /\ OnlyRJobs /\ UNCHANGED nextGroup

-----------------------------------------------------------------------------
(* Correlation, then the concurrency gate, for a Pending object that has no Job. *)

Undispatched == At("decide") /\ Obj.phase = "Pending" /\ OwnedJob = NoObject

InWindow == Correlate /\ now - Obj.created < Window

(* Faulty variant: peers that have been dispatched are candidates as well. *)
OpenPeers == {p \in FP \ {Key} : RJobView[p] # NoObject /\ Proceeds(RJobView[p])}

(* The candidate's own name is not its peer: a new incarnation of it that  *)
(* is listed while the old one is reconciled is left out.                  *)
PendingPeers == {p \in FP \ {Key} : RJobView[p] # NoObject /\ RJobView[p].phase = "Pending"}

(* Evaluate on what the cache holds; alive is the set of findings whose    *)
(* source object still exists.                                             *)
Group(alive) ==
  IF Correlate
  THEN Evaluate(Key, PendingPeers,
                [p \in PendingPeers \cup {Key} |->
                   IF p = Key THEN Obj.created ELSE RJobView[p].created],
                alive)
  ELSE NoMatch

CtlAwaitPrimary(alive) ==
  /\ Undispatched
  /\ ~InWindow
  /\ Group(alive).matched
  /\ \E p \in PendingPeers :
       /\ p = Group(alive).primary
       /\ ctl' = [ctl EXCEPT !.pc = "await", !.gid = RJobView[p].uid]
  /\ UNCHANGED <<store, nextGroup>>

(* The second List: is the primary gone, after 4 windows? *)
PrimaryGone == ~\E p \in FP : RJobView[p] # NoObject /\ RJobView[p].uid = ctl.gid
WaitedLongEnough == now - Obj.created > 3 * Window + Window

CtlSoloFallback ==
  /\ At("await")
  /\ PrimaryGone
  /\ WaitedLongEnough
  /\ ctl' = [ctl EXCEPT !.pc = "recover", !.gid = NoGroup]
  /\ UNCHANGED <<store, nextGroup>>

CtlLead(alive) ==
  /\ Undispatched
  /\ ~InWindow
  /\ Group(alive).matched
  /\ Group(alive).primary = Key
  /\ LET existing == IF Obj.group # NoGroup THEN Obj.group ELSE Obj.label
     IN  /\ ctl' = [ctl EXCEPT
                      !.pc = "suppress",
                      !.peers = Correlated(Group(alive)),
                      !.findings = Correlated(Group(alive)),
                      !.gid = IF existing # NoGroup THEN existing ELSE nextGroup]
         /\ nextGroup' = IF existing # NoGroup THEN nextGroup ELSE nextGroup + 1
  /\ UNCHANGED store

(* transitionSuppressed: the status patch and the label patch, in one step *)
(* since no decision reads a peer's label.  Its phase guard reads the      *)
(* snapshot, which is Pending by PendingPeers; the other conditions of the *)
(* snapshot are taken to be the stored ones.  A peer that is gone ends the *)
(* reconcile with an error.                                                *)
CtlSuppressPeer(p) ==
  /\ At("suppress")
  /\ p \in ctl.peers
  /\ rjobs[p] # NoObject
  /\ PatchRJob(p, [rjobs[p] EXCEPT !.phase = "Suppressed", !.group = ctl.gid,
                                   !.label = ctl.gid])
  /\ ctl' = [ctl EXCEPT !.peers = @ \ {p}]
  /\ OnlyRJobs /\ UNCHANGED nextGroup

CtlSetGroup ==
  /\ At("suppress")
  /\ ctl.peers = {}
  /\ Live # NoObject
  /\ LET new == [Live EXCEPT !.group = Merged(Obj.group, ctl.gid, @)]
     IN  /\ PatchRJob(Key, new)
         /\ ctl' = [ctl EXCEPT !.pc = "label", !.obj = new]
  /\ OnlyRJobs /\ UNCHANGED nextGroup

(* The correlated primary is dispatched without the concurrency gate. *)
CtlSetLabel ==
  /\ At("label")
  /\ Live # NoObject
  /\ LET new == [Live EXCEPT !.label = Merged(Obj.label, ctl.gid, @)]
     IN  /\ PatchRJob(Key, new)
         /\ ctl' = [ctl EXCEPT !.pc = "create", !.obj = new]
  /\ OnlyRJobs /\ UNCHANGED nextGroup

(* No group was found: recover one that an earlier reconcile began, or     *)
(* dispatch alone.                                                         *)
CtlNoGroup(alive) ==
  /\ Undispatched
  /\ ~InWindow
  /\ ~Group(alive).matched
  /\ Goto("recover")
  /\ UNCHANGED <<store, nextGroup>>

GroupPeers ==
  {p \in FP \ {Key} : /\ RJobView[p] # NoObject
                      /\ RJobView[p].phase = "Suppressed"
                      /\ RJobView[p].group = Obj.group}

Recovering == Correlate /\ Obj.group # NoGroup

(* Faulty variant: the group is recovered without its peers' findings. *)
CtlRecoverAlone ==
  /\ At("recover")
  /\ ctl' = [ctl EXCEPT
               !.pc = IF Recovering /\ Obj.label = NoGroup THEN "relabel" ELSE "gate",
               !.findings = {}]
  /\ UNCHANGED <<store, nextGroup>>

CtlRecover ==
  /\ At("recover")
  /\ ctl' = [ctl EXCEPT
               !.pc = IF Recovering /\ Obj.label = NoGroup THEN "relabel" ELSE "gate",
               !.findings = IF Recovering THEN GroupPeers ELSE {}]
  /\ UNCHANGED <<store, nextGroup>>

CtlRelabel ==
  /\ At("relabel")
  /\ Live # NoObject
  /\ PatchRJob(Key, [Live EXCEPT !.label = Obj.group])
  /\ ctl' = [ctl EXCEPT !.pc = "gate", !.obj = [Live EXCEPT !.label = Obj.group]]
  /\ OnlyRJobs /\ UNCHANGED nextGroup

(* Faulty variant: off by one. *)
LimitedTooLate ==
  MaxConcurrentJobs # 0 /\ Cardinality(ActiveJobs(JobView)) > MaxConcurrentJobs

Limited == MaxConcurrentJobs # 0 /\ Cardinality(ActiveJobs(JobView)) >= MaxConcurrentJobs

CtlGate ==
  /\ At("gate")
  /\ ~Limited
  /\ Goto("create")
  /\ UNCHANGED <<store, nextGroup>>

-----------------------------------------------------------------------------
(* dispatch *)

CtlRefuse ==
  /\ At("create")
  /\ Key \in Injected
  /\ PatchRJob(Key, [Live EXCEPT !.phase = "PermanentlyFailed", !.recorded = Obj.recorded])
  /\ Return
  /\ OnlyRJobs /\ UNCHANGED nextGroup

CtlCreateJob ==
  /\ At("create")
  /\ Key \notin Injected
  /\ jobs[Key] = NoObject
  /\ jobs' = [jobs EXCEPT ![Key] = NewJob(Key, Obj.uid, ctl.findings)]
  /\ spawned' = spawned \cup {<<Key, Obj.uid>>}
  /\ Goto("dispatched")
  /\ UNCHANGED <<rjobs, rjCache, jobCache, reports, now, nextGroup>>

(* Faulty variant: the existing Job is used although the cache has no Job. *)
CtlFindJobUnchecked ==
  /\ At("create")
  /\ Key \notin Injected
  /\ jobs[Key] # NoObject
  /\ ctl' = [ctl EXCEPT !.pc = "adopt", !.job = OwnedJob]
  /\ UNCHANGED <<store, nextGroup>>

(* AlreadyExists: the existing Job is read from the cache. *)
CtlFindJob ==
  /\ At("create")
  /\ Key \notin Injected
  /\ jobs[Key] # NoObject
  /\ OwnedJob # NoObject
  /\ ctl' = [ctl EXCEPT !.pc = "adopt", !.job = OwnedJob]
  /\ UNCHANGED <<store, nextGroup>>

CtlAdopt ==
  /\ At("adopt")
  /\ PatchRJob(Key, [Live EXCEPT !.phase = Merged(Obj.phase, SyncPhaseFromJob(ctl.job), @)])
  /\ Return
  /\ OnlyRJobs /\ UNCHANGED nextGroup

CtlDispatched ==
  /\ At("dispatched")
  /\ PatchRJob(Key, [Live EXCEPT !.phase = "Dispatched", !.recorded = Obj.recorded])
  /\ Return
  /\ OnlyRJobs /\ UNCHANGED nextGroup

-----------------------------------------------------------------------------
(* Reconcile returns without a write: nothing to do, wait, limited, or an  *)
(* object that a patch needs is gone.                                      *)
CtlReturn ==
  /\ \/ /\ At("decide")
        /\ \/ Obj.phase \in {"Failed", "PermanentlyFailed", "Cancelled", "Suppressed"}
           \/ Obj.phase = "Succeeded" /\ Obj.completedAt # NoTime /\ ~Expired(Obj)
           \/ Obj.phase \in {"Dispatched", "Running"} /\ OwnedJob = NoObject
           \/ Undispatched /\ InWindow
     \/ At("await") /\ ~(PrimaryGone /\ WaitedLongEnough)
     \/ At("suppress") /\ (IF ctl.peers = {} THEN Live = NoObject
                           ELSE \E p \in ctl.peers : rjobs[p] = NoObject)
     \/ At("label") /\ Live = NoObject
     \/ At("relabel") /\ Live = NoObject
     \/ At("gate") /\ Limited
     \/ At("create") /\ Key \notin Injected /\ jobs[Key] # NoObject /\ OwnedJob = NoObject
  /\ Return
  /\ UNCHANGED <<store, nextGroup>>

(* A failed API call makes Reconcile return its error, and a watcher crash *)
(* loses the goroutine: both drop whatever the reconcile had still to do.  *)
CtlAbort ==
  /\ ~At("idle")
  /\ Return
  /\ UNCHANGED <<store, nextGroup>>

CtlStep(alive) ==
  \/ CtlRecordPR \/ (At("record") /\ Live = NoObject /\ CtlRecordPRFails) \/ CtlInitPhase
  \/ CtlSetCompletedAt \/ CtlExpire \/ CtlStamp
  \/ CtlReadJob \/ CtlFetchReport \/ CtlSync
  \/ CtlAwaitPrimary(alive) \/ CtlSoloFallback
  \/ CtlLead(alive) \/ (\E p \in FP : CtlSuppressPeer(p)) \/ CtlSetGroup \/ CtlSetLabel
  \/ CtlNoGroup(alive) \/ CtlRecover \/ CtlRelabel \/ CtlGate
  \/ CtlRefuse \/ CtlCreateJob \/ CtlFindJob \/ CtlAdopt \/ CtlDispatched
  \/ CtlReturn
=============================================================================
