--------------------------- MODULE DispatchProofs ---------------------------
(***************************************************************************)
(* What dispatch does once and what it brings back, for every value of the *)
(* constants: NoDoubleDispatch and ReportNotLost.                          *)
(*                                                                         *)
(* The Job that an incarnation was given stays in the store as long as     *)
(* that incarnation does (Dispatched), because a Job is removed only when  *)
(* it expires or when its owner is gone; so the deterministic Job name is  *)
(* taken, and a second Create for the same incarnation is AlreadyExists.   *)
(* A new incarnation cannot inherit a Job because UIDs are never reused    *)
(* (FreshUids).                                                            *)
(***************************************************************************)
EXTENDS MechanicTypes

FreshUids ==
  /\ \A f \in FP : rjobs[f] # NoObject => rjobs[f].uid < nextUid
  /\ \A f \in FP : rjCache[f] # NoObject => rjCache[f].uid < nextUid
  /\ ctl.pc # "idle" => ctl.obj.uid < nextUid
  /\ \A f \in FP, u \in Nat : <<f, u>> \in spawned => u < nextUid

Dispatched ==
  \A f \in FP, u \in Nat :
    <<f, u>> \in spawned /\ rjobs[f] # NoObject /\ rjobs[f].uid = u
    => jobs[f] # NoObject /\ jobs[f].owner = u

DispatchInv == TypeInv /\ FreshUids /\ Dispatched

(* Every stored RemediationJob was stored before, as the same incarnation, *)
(* created from the same source object.                                    *)
SameIncarnations ==
  \A f \in FP : rjobs'[f] # NoObject => /\ rjobs[f] # NoObject
                                        /\ rjobs'[f].uid = rjobs[f].uid
                                        /\ rjobs'[f].src = rjobs[f].src

SameMessages ==
  \A f \in FP : rjobs'[f] # NoObject => rjobs'[f].message = rjobs[f].message

(* The phases and the correlation groups stay as they are. *)
SameStatus ==
  \A f \in FP :
    /\ rjobs[f] # NoObject => rjobs'[f] # NoObject
    /\ rjobs'[f] # NoObject => /\ rjobs'[f].phase = rjobs[f].phase
                               /\ rjobs'[f].group = rjobs[f].group
                               /\ rjobs'[f].label = rjobs[f].label

(* What every patch but that of the status sync leaves alone. *)
Continues(r, o) == r.uid = o.uid /\ r.src = o.src /\ r.message = o.message

(* The UID that the controller goroutine holds was held or stored before. *)
KnownUid ==
  ctl'.pc # "idle" =>
    \/ ctl.pc # "idle" /\ ctl'.obj.uid = ctl.obj.uid
    \/ \E f \in FP : rjobs[f] # NoObject /\ ctl'.obj.uid = rjobs[f].uid
    \/ \E f \in FP : rjCache[f] # NoObject /\ ctl'.obj.uid = rjCache[f].uid

(* A patch never changes the UID or the source. *)
LEMMA PatchKeepsUid ==
  ASSUME StoreTypeOK, NEW f \in FP, NEW r, PatchRJob(f, r),
         rjobs[f] # NoObject => r.uid = rjobs[f].uid /\ r.src = rjobs[f].src
  PROVE  SameIncarnations
BY DEF SameIncarnations, PatchRJob, StoreTypeOK

(* A patch of other fields keeps the messages as well. *)
LEMMA PatchContinues ==
  ASSUME StoreTypeOK, NEW f \in FP, NEW r, PatchRJob(f, r),
         rjobs[f] # NoObject => Continues(r, rjobs[f])
  PROVE  SameIncarnations /\ SameMessages
<1>1. SameIncarnations
  BY PatchKeepsUid DEF Continues
<1>2. SameMessages
  BY DEF SameMessages, PatchRJob, StoreTypeOK, Continues
<1> QED BY <1>1, <1>2

(* A delete leaves the other incarnations alone. *)
LEMMA DeleteKeepsUid ==
  ASSUME StoreTypeOK, NEW f \in FP, DeleteRJob(f)
  PROVE  SameIncarnations /\ SameMessages
BY DEF SameIncarnations, SameMessages, DeleteRJob, StoreTypeOK

(* The status patches of the controller keep the UID, as merge patches of  *)
(* the status subresource do, and only the sync from the Job writes a      *)
(* message.                                                                *)
LEMMA CtlPatchesKeepUid ==
  ASSUME TypeInv, CtlStep(Alive) \/ CtlAbort \/ CtlRecordPRFails \/ CtlFetchReportFails
  PROVE  SameIncarnations /\ (CtlSync \/ SameMessages)
<1> USE DEF OnlyRJobs
<1>1. StoreTypeOK /\ CtlTypeOK
  BY DEF TypeInv, TypeOK
<1>2. ASSUME ctl.pc # "idle"
      PROVE  Key \in FP /\ (Live # NoObject => Live \in RJob) /\ Live = rjobs[Key]
  BY <1>1, <1>2 DEF Key, Live, StoreTypeOK, CtlTypeOK
<1>3. ASSUME UNCHANGED rjobs
      PROVE  SameIncarnations /\ SameMessages
  BY <1>3 DEF SameIncarnations, SameMessages
<1>4. CASE CtlRecordPR
  <2>1. ctl.pc # "idle"
    BY <1>4 DEF CtlRecordPR, At
  <2>2. Live # NoObject => Continues([Live EXCEPT !.recorded = TRUE], Live)
    BY <1>2, <2>1 DEF RJob, Continues
  <2> QED BY Zenon, <1>1, <1>2, <1>4, <2>1, <2>2, PatchContinues DEF CtlRecordPR
<1>5. CASE CtlInitPhase
  <2>1. ctl.pc # "idle"
    BY <1>5 DEF CtlInitPhase, At
  <2>2. Live # NoObject => Continues([Live EXCEPT !.phase = "Pending"], Live)
    BY <1>2, <2>1 DEF RJob, Continues
  <2> QED BY Zenon, <1>1, <1>2, <1>5, <2>1, <2>2, PatchContinues DEF CtlInitPhase
<1>6. CASE CtlSetCompletedAt
  <2>1. ctl.pc # "idle"
    BY <1>6 DEF CtlSetCompletedAt, At
  <2>2. Live # NoObject => Continues([Live EXCEPT !.completedAt = now], Live)
    BY <1>2, <2>1 DEF RJob, Continues
  <2> QED BY Zenon, <1>1, <1>2, <1>6, <2>1, <2>2, PatchContinues DEF CtlSetCompletedAt
<1>7. CASE CtlExpire
  BY <1>1, <1>2, <1>7, DeleteKeepsUid DEF CtlExpire, At
<1>8. CASE CtlStamp
  <2>1. ctl.pc # "idle"
    BY <1>8 DEF CtlStamp, At
  <2>2. PICK x : PatchRJob(Key, [Live EXCEPT !.completedAt = x])
    BY Zenon, <1>8 DEF CtlStamp
  <2>3. Live # NoObject => Continues([Live EXCEPT !.completedAt = x], Live)
    BY <1>2, <2>1 DEF RJob, Continues
  <2> QED BY Zenon, <1>1, <1>2, <2>1, <2>2, <2>3, PatchContinues
<1>9. CASE CtlSync
  <2>1. ctl.pc # "idle"
    BY <1>9 DEF CtlSync, At
  <2>2. PICK a, b, c, d, e :
          PatchRJob(Key, [Live EXCEPT !.phase = a, !.retry = b, !.completedAt = c,
                                      !.message = d, !.recorded = e])
    BY <1>9, Zenon DEF CtlSync
  <2>3. PICK r : r = [Live EXCEPT !.phase = a, !.retry = b, !.completedAt = c,
                                  !.message = d, !.recorded = e]
    OBVIOUS
  <2>4. Live # NoObject => r.uid = Live.uid /\ r.src = Live.src
    BY <1>2, <2>1, <2>3 DEF RJob
  <2> QED BY Zenon, <1>1, <1>2, <2>1, <2>2, <2>3, <2>4, <1>9, PatchKeepsUid
<1>10. CASE \E p \in FP : CtlSuppressPeer(p)
  <2>1. PICK p \in FP : CtlSuppressPeer(p)
    BY <1>10
  <2>2. rjobs[p] \in RJob
    BY <1>1, <2>1 DEF CtlSuppressPeer, StoreTypeOK
  <2>3. Continues([rjobs[p] EXCEPT !.phase = "Suppressed", !.group = ctl.gid, !.label = ctl.gid], rjobs[p])
    BY <2>2 DEF RJob, Continues
  <2> QED BY Zenon, <1>1, <2>1, <2>3, PatchContinues DEF CtlSuppressPeer
<1>11. CASE CtlSetGroup \/ CtlSetLabel \/ CtlRelabel \/ CtlAdopt
  <2>1. ctl.pc # "idle"
    BY <1>11 DEF CtlSetGroup, CtlSetLabel, CtlRelabel, CtlAdopt, At
  <2>2. PICK x : \/ PatchRJob(Key, [Live EXCEPT !.group = x])
                 \/ PatchRJob(Key, [Live EXCEPT !.label = x])
                 \/ PatchRJob(Key, [Live EXCEPT !.phase = x])
    BY <1>11, Zenon DEF CtlSetGroup, CtlSetLabel, CtlRelabel, CtlAdopt
  <2>3. Live # NoObject => /\ Continues([Live EXCEPT !.group = x], Live)
                           /\ Continues([Live EXCEPT !.label = x], Live)
                           /\ Continues([Live EXCEPT !.phase = x], Live)
    BY <1>2, <2>1 DEF RJob, Continues
  <2> QED BY Zenon, <1>1, <1>2, <2>1, <2>2, <2>3, PatchContinues
<1>12. CASE CtlRefuse \/ CtlDispatched
  <2>1. ctl.pc # "idle"
    BY <1>12 DEF CtlRefuse, CtlDispatched, At
  <2>2. PICK x : PatchRJob(Key, [Live EXCEPT !.phase = x, !.recorded = Obj.recorded])
    BY <1>12, Zenon DEF CtlRefuse, CtlDispatched
  <2>3. Live # NoObject => Continues([Live EXCEPT !.phase = x, !.recorded = Obj.recorded], Live)
    BY <1>2, <2>1 DEF RJob, Continues
  <2> QED BY Zenon, <1>1, <1>2, <2>1, <2>2, <2>3, PatchContinues
<1>13. CASE \/ CtlRecordPRFails \/ CtlReadJob \/ CtlFetchReport \/ CtlFetchReportFails
            \/ CtlAwaitPrimary(Alive) \/ CtlSoloFallback \/ CtlLead(Alive) \/ CtlNoGroup(Alive) \/ CtlRecover
            \/ CtlGate \/ CtlCreateJob \/ CtlFindJob \/ CtlReturn \/ CtlAbort
  BY Zenon, <1>3, <1>13 DEF CtlRecordPRFails, CtlReadJob, CtlFetchReport, CtlFetchReportFails,
     CtlAwaitPrimary, CtlSoloFallback, CtlLead, CtlNoGroup, CtlRecover, CtlGate, CtlCreateJob, CtlFindJob,
     CtlReturn, CtlAbort, store
<1> QED
  BY <1>4, <1>5, <1>6, <1>7, <1>8, <1>9, <1>10, <1>11, <1>12, <1>13 DEF CtlStep

(* A reconcile works with the incarnation it read, or with the one that a  *)
(* successful patch returned.                                              *)
LEMMA CtlKnowsUid ==
  ASSUME TypeInv, (\E f \in FP : CtlGet(f)) \/ CtlStep(Alive) \/ CtlAbort \/ CtlRecordPRFails
                  \/ CtlFetchReportFails
  PROVE  KnownUid
<1>1. StoreTypeOK /\ CtlTypeOK /\ ctl \in CtlState
  BY DEF TypeInv, TypeOK, CtlTypeOK
<1>2. ASSUME ctl.pc # "idle"
      PROVE  ctl.key \in FP /\ ctl.obj \in RJob /\ (Live # NoObject => Live \in RJob)
  BY <1>1, <1>2 DEF Live, StoreTypeOK, CtlTypeOK
<1>3. CASE \E f \in FP : CtlGet(f)
  <2>1. PICK f, pc : f \in FP /\ RJobView[f] # NoObject
               /\ ctl' = [Resting EXCEPT !.pc = pc, !.key = f, !.obj = RJobView[f]]
    BY Zenon, <1>3 DEF CtlGet
  <2>2. ctl'.obj = RJobView[f]
    BY <2>1 DEF Resting
  <2> QED BY <2>1, <2>2 DEF KnownUid, RJobView
<1>4. ASSUME Return
      PROVE  KnownUid
  BY <1>4 DEF Return, Resting, KnownUid
<1>5. CASE \/ CtlInitPhase \/ CtlSetCompletedAt \/ CtlStamp \/ CtlSync \/ CtlRefuse
           \/ CtlAdopt \/ CtlDispatched \/ CtlReturn \/ CtlAbort
  BY <1>4, <1>5 DEF CtlInitPhase, CtlSetCompletedAt, CtlStamp, CtlSync, CtlRefuse, CtlAdopt,
     CtlDispatched, CtlReturn, CtlAbort
<1>6. ASSUME ctl.pc # "idle", ctl'.obj = ctl.obj
      PROVE  KnownUid
  BY <1>6 DEF KnownUid
<1>7. CASE CtlExpire \/ CtlNoGroup(Alive) \/ CtlGate \/ CtlCreateJob
  <2>1. ctl.pc # "idle" /\ \E pc : ctl' = [ctl EXCEPT !.pc = pc]
    BY <1>7 DEF CtlExpire, CtlNoGroup, CtlGate, CtlCreateJob, At, Goto, Undispatched
  <2> QED BY <1>1, <1>6, <2>1 DEF CtlState
<1>8. CASE CtlReadJob \/ CtlFindJob
  <2>1. ctl.pc # "idle" /\ \E pc : ctl' = [ctl EXCEPT !.pc = pc, !.job = OwnedJob]
    BY Zenon, <1>8 DEF CtlReadJob, CtlFindJob, At
  <2> QED BY <1>1, <1>6, <2>1 DEF CtlState
<1>9. CASE CtlFetchReport \/ CtlFetchReportFails
  <2>1. ctl.pc # "idle" /\ \E m : ctl' = [ctl EXCEPT !.pc = "sync", !.message = m]
    BY Zenon, <1>9 DEF CtlFetchReport, CtlFetchReportFails, At
  <2> QED BY <1>1, <1>6, <2>1 DEF CtlState
<1>10. CASE CtlAwaitPrimary(Alive) \/ CtlSoloFallback
  <2>1. ctl.pc # "idle" /\ \E pc, g : ctl' = [ctl EXCEPT !.pc = pc, !.gid = g]
    BY <1>10, Zenon DEF CtlAwaitPrimary, CtlSoloFallback, At, Undispatched
  <2> QED BY <1>1, <1>6, <2>1 DEF CtlState
<1>11. CASE CtlLead(Alive)
  <2>1. ctl.pc # "idle"
    BY <1>11 DEF CtlLead, At, Undispatched
  <2>2. PICK ps, fs, g : ctl' = [ctl EXCEPT !.pc = "suppress", !.peers = ps, !.findings = fs,
                                            !.gid = g]
    BY <1>11, Zenon DEF CtlLead
  <2> QED BY <1>1, <1>6, <2>1, <2>2 DEF CtlState
<1>12. CASE \E p \in FP : CtlSuppressPeer(p)
  <2>1. ctl.pc # "idle" /\ \E ps : ctl' = [ctl EXCEPT !.peers = ps]
    BY <1>12 DEF CtlSuppressPeer, At
  <2> QED BY <1>1, <1>6, <2>1 DEF CtlState
<1>13. CASE CtlRecover
  <2>1. ctl.pc # "idle" /\ \E pc, fs : ctl' = [ctl EXCEPT !.pc = pc, !.findings = fs]
    BY <1>13, Zenon DEF CtlRecover, At
  <2> QED BY <1>1, <1>6, <2>1 DEF CtlState
<1>14. CASE CtlRecordPR \/ CtlSetGroup \/ CtlSetLabel \/ CtlRelabel
  <2>1. ctl.pc # "idle" /\ Live # NoObject
    BY <1>14 DEF CtlRecordPR, CtlSetGroup, CtlSetLabel, CtlRelabel, At
  <2>2. PICK pc, x, r : /\ ctl' = [ctl EXCEPT !.pc = pc, !.obj = r]
                        /\ \/ r = [Live EXCEPT !.recorded = x]
                           \/ r = [Live EXCEPT !.group = x]
                           \/ r = [Live EXCEPT !.label = x]
    BY <1>14, Zenon DEF CtlRecordPR, CtlSetGroup, CtlSetLabel, CtlRelabel
  <2>3. r.uid = Live.uid
    BY <1>2, <2>1, <2>2 DEF RJob
  <2>4. ctl'.obj = r
    BY <1>1, <2>2 DEF CtlState
  <2> QED BY <1>2, <2>1, <2>3, <2>4 DEF KnownUid, Live
<1>15. CASE CtlRecordPRFails
  <2>1. ctl.pc # "idle"
    BY <1>15 DEF CtlRecordPRFails, At
  <2>2. ctl'.obj = [ctl.obj EXCEPT !.recorded = TRUE]
    BY <1>1, <1>15 DEF CtlRecordPRFails, CtlState
  <2>3. ctl'.obj.uid = ctl.obj.uid
    BY <1>2, <2>1, <2>2 DEF RJob
  <2> QED BY <2>1, <2>3 DEF KnownUid
<1> QED
  BY <1>3, <1>5, <1>7, <1>8, <1>9, <1>10, <1>11, <1>12, <1>13, <1>14, <1>15 DEF CtlStep

(* A provider's cancellations and deletions store no new incarnation; only *)
(* its Create does.                                                        *)
LEMMA PrvKeepsUid ==
  ASSUME TypeInv, NEW p \in Provider,
         \/ \E f \in FP : PrvCancel(p, f)
         \/ PrvCancelDelete(p) \/ PrvDeleteFailed(p) \/ PrvMerged(p) \/ PrvDeleteTombstone(p)
  PROVE  SameIncarnations /\ SameMessages
<1>1. StoreTypeOK /\ PrvTypeOK
  BY DEF TypeInv, TypeOK
<1>2. CASE \E f \in FP : PrvCancel(p, f)
  <2>1. PICK f \in FP : PatchRJob(f, [rjobs[f] EXCEPT !.phase = "Cancelled"])
    BY Zenon, <1>2 DEF PrvCancel
  <2>2. rjobs[f] # NoObject => Continues([rjobs[f] EXCEPT !.phase = "Cancelled"], rjobs[f])
    BY <1>1 DEF StoreTypeOK, RJob, Continues
  <2> QED BY Zenon, <1>1, <2>1, <2>2, PatchContinues
<1>3. CASE PrvCancelDelete(p) \/ PrvDeleteFailed(p) \/ PrvDeleteTombstone(p)
  <2>1. prv[p].key \in FP /\ DeleteRJob(prv[p].key)
    BY <1>1, <1>3 DEF PrvCancelDelete, PrvDeleteFailed, PrvDeleteTombstone, PrvTypeOK, PrvAt
  <2> QED BY <1>1, <2>1, DeleteKeepsUid
<1>4. CASE PrvMerged(p)
  <2> DEFINE f == prv[p].key
  <2>1. f \in FP /\ PatchRJob(f, [rjobs[f] EXCEPT !.merged = TRUE, !.mergedAt = now])
    BY <1>1, <1>4 DEF PrvMerged, PrvTypeOK, PrvAt
  <2>2. rjobs[f] # NoObject =>
          Continues([rjobs[f] EXCEPT !.merged = TRUE, !.mergedAt = now], rjobs[f])
    BY <1>1, <2>1 DEF StoreTypeOK, RJob, Continues
  <2> QED BY Zenon, <1>1, <2>1, <2>2, PatchContinues
<1> QED BY <1>2, <1>3, <1>4

(* A step that stores no new incarnation and no Job, and removes no Job of *)
(* an incarnation that lives, keeps the invariant.                         *)
LEMMA Quiet ==
  ASSUME DispatchInv, StoreTypeOK', SameIncarnations, KnownUid, rjCache' \in {rjCache, rjobs},
         nextUid' = nextUid, spawned' \subseteq spawned,
         \A f \in FP : \/ jobs'[f] = jobs[f]
                       \/ jobs[f] # NoObject /\ jobs'[f] # NoObject /\ jobs'[f].owner = jobs[f].owner
                       \/ <<f, jobs[f].owner>> \notin spawned'
                       \/ ~OwnerLives(f)
  PROVE  FreshUids' /\ Dispatched'
<1>1. FreshUids'
  BY DEF DispatchInv, FreshUids, SameIncarnations, KnownUid
<1>2. SUFFICES ASSUME NEW f \in FP, NEW u \in Nat,
                      <<f, u>> \in spawned', rjobs'[f] # NoObject, rjobs'[f].uid = u
               PROVE  jobs'[f] # NoObject /\ jobs'[f].owner = u
  BY <1>1 DEF Dispatched
<1>3. rjobs[f] # NoObject /\ rjobs[f].uid = u /\ <<f, u>> \in spawned
  BY <1>2 DEF SameIncarnations
<1>4. jobs[f] # NoObject /\ jobs[f].owner = u
  BY <1>3 DEF DispatchInv, Dispatched
<1> QED BY <1>2, <1>3, <1>4 DEF OwnerLives

(* A pod that starts or ends changes the counts of its Job; one that       *)
(* succeeds in dry-run mode has written its report.                        *)
LEMMA PodStep ==
  ASSUME TypeInv, NEW f \in FP,
         PodStart(f) \/ PodFail(f) \/ PodSucceed(f) \/ DeadlineExceeded(f)
  PROVE  /\ jobs[f] \in Job /\ jobs[f] # NoObject /\ spawned' = spawned
         /\ reports \subseteq reports'
         /\ \E j \in Job : /\ SetJob(f, j)
                           /\ j.owner = jobs[f].owner /\ j.findings = jobs[f].findings
                           /\ j.succeeded = jobs[f].succeeded \/ (DryRun => f \in reports')
<1>1. StoreTypeOK /\ JobsEnd
  BY DEF TypeInv, TypeOK
<1>2. jobs[f] \in Job /\ spawned' = spawned
  BY <1>1 DEF PodStart, PodFail, PodSucceed, DeadlineExceeded, Unfinished, StoreTypeOK
<1>3. reports \subseteq reports'
  BY DEF PodStart, PodFail, PodSucceed, DeadlineExceeded
<1>4. /\ jobs[f].failed \in 0..1 /\ jobs[f].active \in 0..1
      /\ jobs[f].failed + 1 \in 0..2 /\ jobs[f].failed + jobs[f].active \in 0..2
      /\ now \in Int /\ NoTime \in Int
  BY <1>1, <1>2 DEF PodStart, PodFail, PodSucceed, DeadlineExceeded, Unfinished, Job,
     JobsEnd, BackoffLimit, NoTime, StoreTypeOK
<1>5. PICK b \in 0..2, t \in Int :
        \/ SetJob(f, [jobs[f] EXCEPT !.active = 1])
        \/ SetJob(f, [jobs[f] EXCEPT !.active = 0, !.failed = b, !.finishedAt = t])
        \/ /\ SetJob(f, [jobs[f] EXCEPT !.active = 0, !.succeeded = 1, !.finishedAt = t])
           /\ DryRun => f \in reports'
  <2>1. CASE PodStart(f)
    BY Zenon, <1>4, <2>1 DEF PodStart
  <2>2. CASE PodFail(f)
    <3>1. PICK t \in Int : t = IF jobs[f].failed >= BackoffLimit THEN now ELSE NoTime
      BY <1>4
    <3> QED BY <1>4, <2>2, <3>1, Zenon DEF PodFail
  <2>3. CASE PodSucceed(f)
    <3>1. DryRun => f \in reports'
      BY <2>3 DEF PodSucceed
    <3> QED BY <1>4, <2>3, <3>1, Zenon DEF PodSucceed
  <2>4. CASE DeadlineExceeded(f)
    BY <1>4, <2>4, Zenon DEF DeadlineExceeded
  <2> QED BY Zenon, <2>1, <2>2, <2>3, <2>4
<1>6. /\ [jobs[f] EXCEPT !.active = 1].owner = jobs[f].owner
      /\ [jobs[f] EXCEPT !.active = 1].findings = jobs[f].findings
      /\ [jobs[f] EXCEPT !.active = 1].succeeded = jobs[f].succeeded
  BY <1>2 DEF Job
<1>7. PICK j1 : j1 = [jobs[f] EXCEPT !.active = 0, !.failed = b, !.finishedAt = t]
  OBVIOUS
<1>8. PICK j2 : j2 = [jobs[f] EXCEPT !.active = 0, !.succeeded = 1, !.finishedAt = t]
  OBVIOUS
<1>9. /\ j1.owner = jobs[f].owner /\ j1.findings = jobs[f].findings
      /\ j1.succeeded = jobs[f].succeeded
  BY <1>2, <1>7 DEF Job
<1>10. j2.owner = jobs[f].owner /\ j2.findings = jobs[f].findings
  BY <1>2, <1>8 DEF Job
<1>11. 0 \in 0..1 /\ 1 \in 0..1
  OBVIOUS
<1>12. [jobs[f] EXCEPT !.active = 1] \in Job /\ j1 \in Job /\ j2 \in Job
  BY <1>2, <1>5, <1>7, <1>8, <1>11, JobFields, Zenon
<1>13. jobs[f] # NoObject
  BY <1>2, StoreAssumption
<1> QED BY Zenon, <1>2, <1>3, <1>5, <1>6, <1>7, <1>8, <1>9, <1>10, <1>12, <1>13

(* The cluster creates and deletes no RemediationJob, and of one it only   *)
(* writes the pull request.                                                *)
LEMMA ClusterSame ==
  ASSUME TypeInv, Cluster
  PROVE  SameIncarnations /\ SameMessages /\ SameStatus
<1>1. StoreTypeOK
  BY DEF TypeInv, TypeOK
<1>2. CASE rjobs' = rjobs
  BY <1>2 DEF SameIncarnations, SameMessages, SameStatus
<1>3. ASSUME NEW f \in FP, AgentReportsPR(f)
      PROVE  SameIncarnations /\ SameMessages /\ SameStatus
  <2>1. PICK r : r = [rjobs[f] EXCEPT !.sink = TRUE]
    BY Zenon
  <2>2. rjobs[f] \in RJob /\ rjobs' = [rjobs EXCEPT ![f] = r]
    BY <1>1, <1>3, <2>1 DEF AgentReportsPR, StoreTypeOK
  <2>3. Continues(r, rjobs[f])
    BY <2>1, <2>2 DEF RJob, Continues
  <2>4. r.phase = rjobs[f].phase /\ r.group = rjobs[f].group /\ r.label = rjobs[f].label
    BY <2>1, <2>2 DEF RJob
  <2>5. r \in RJob
    BY Zenon, <2>1, <2>2 DEF RJob
  <2>6. r # NoObject /\ rjobs[f] # NoObject
    BY <2>2, <2>5, StoreAssumption
  <2>7. \A g \in FP : rjobs'[g] = IF g = f THEN r ELSE rjobs[g]
    BY <1>1, <2>2 DEF StoreTypeOK
  <2> QED BY <2>3, <2>4, <2>6, <2>7 DEF SameIncarnations, SameMessages, SameStatus, Continues
<1>4. CASE ~(rjobs' = rjobs)
  <2>1. PICK f \in FP : AgentReportsPR(f)
    BY Zenon, <1>4 DEF Cluster, Tick, SyncRJobs, SyncJobs, PodStart, PodFail, PodSucceed,
       DeadlineExceeded, JobExpire, JobCollect, SetJob
  <2> QED BY <1>3, <2>1
<1> QED BY <1>2, <1>4

(* The life of a Job and of its pod. *)
LEMMA ClusterQuiet ==
  ASSUME DispatchInv, TypeInv', Cluster
  PROVE  FreshUids' /\ Dispatched'
<1>1. StoreTypeOK /\ StoreTypeOK' /\ UNCHANGED <<ctl, nextUid>> /\ KnownUid
  BY DEF DispatchInv, TypeInv, TypeOK, Cluster, ctlVars, prvVars, KnownUid
<1>2. ASSUME rjobs' = rjobs
      PROVE  SameIncarnations
  BY <1>2 DEF SameIncarnations
<1>3. ASSUME NEW f \in FP, NEW j, SetJob(f, j)
      PROVE  /\ SameIncarnations /\ rjCache' = rjCache
             /\ jobs'[f] = j /\ \A g \in FP \ {f} : jobs'[g] = jobs[g]
  BY <1>1, <1>2, <1>3 DEF SetJob, StoreTypeOK
<1>4. CASE Tick \/ SyncRJobs \/ SyncJobs
  BY <1>1, <1>2, <1>4, Quiet DEF Tick, SyncRJobs, SyncJobs
<1>5. ASSUME NEW f \in FP, PodStart(f) \/ PodFail(f) \/ PodSucceed(f) \/ DeadlineExceeded(f)
      PROVE  FreshUids' /\ Dispatched'
  <2>1. PICK j \in Job : SetJob(f, j) /\ j.owner = jobs[f].owner
    BY Zenon, <1>5, PodStep DEF DispatchInv
  <2>2. jobs[f] # NoObject /\ j # NoObject /\ spawned' = spawned
    BY <1>5, PodStep, StoreAssumption DEF DispatchInv
  <2> QED BY <1>1, <1>3, <2>1, <2>2, Quiet
<1>6. ASSUME NEW f \in FP, JobExpire(f)
      PROVE  FreshUids' /\ Dispatched'
  <2>1. SetJob(f, NoObject) /\ spawned' = spawned \ {<<f, jobs[f].owner>>}
    BY <1>6 DEF JobExpire
  <2> QED BY <1>1, <1>3, <2>1, Quiet
<1>7. ASSUME NEW f \in FP, JobCollect(f)
      PROVE  FreshUids' /\ Dispatched'
  <2>1. SetJob(f, NoObject) /\ spawned' = spawned /\ ~OwnerLives(f)
    BY <1>7 DEF JobCollect
  <2> QED BY <1>1, <1>3, <2>1, Quiet
<1>8. ASSUME NEW f \in FP, AgentReportsPR(f)
      PROVE  FreshUids' /\ Dispatched'
  <2>1. SameIncarnations
    BY ClusterSame DEF DispatchInv
  <2> QED BY <1>1, <1>8, <2>1, Quiet DEF AgentReportsPR
<1> QED BY <1>4, <1>5, <1>6, <1>7, <1>8 DEF Cluster

(* dispatch: the Create succeeds only when the Job name is free, so the    *)
(* incarnation that lives under that name had no Job yet.                  *)
LEMMA CreateJobKeeps ==
  ASSUME DispatchInv, CtlCreateJob, UNCHANGED prvVars, KnownUid
  PROVE  FreshUids' /\ Dispatched'
<1>1. StoreTypeOK /\ CtlTypeOK /\ FreshUids /\ Dispatched
  BY DEF DispatchInv, TypeInv, TypeOK
<1>2. Key \in FP /\ ctl.pc # "idle" /\ Obj.uid \in Nat /\ Obj.uid < nextUid
  BY <1>1, RJobReads DEF CtlCreateJob, At, CtlTypeOK, Key, Obj, FreshUids
<1>3. /\ jobs[Key] = NoObject
      /\ jobs' = [jobs EXCEPT ![Key] = NewJob(Key, Obj.uid, ctl.findings)]
      /\ spawned' = spawned \cup {<<Key, Obj.uid>>}
      /\ UNCHANGED <<rjobs, rjCache, nextUid>>
  BY DEF CtlCreateJob, prvVars
<1>4. FreshUids'
  BY <1>1, <1>2, <1>3 DEF FreshUids, KnownUid
<1>5. NewJob(Key, Obj.uid, ctl.findings) \in Job
  <2>1. ctl.findings \in SUBSET FP /\ now \in Nat
    BY SMTT(30), <1>1 DEF CtlTypeOK, CtlState, StoreTypeOK
  <2> QED BY <1>2, <2>1 DEF NewJob, Job, NoTime
<1>6. NewJob(Key, Obj.uid, ctl.findings).owner = Obj.uid /\ NewJob(Key, Obj.uid, ctl.findings) # NoObject
  BY <1>5, StoreAssumption DEF NewJob
<1>7. SUFFICES ASSUME NEW f \in FP, NEW u \in Nat,
                      <<f, u>> \in spawned', rjobs[f] # NoObject, rjobs[f].uid = u
               PROVE  jobs'[f] # NoObject /\ jobs'[f].owner = u
  BY <1>3, <1>4 DEF Dispatched
<1>8. CASE <<f, u>> \in spawned
  <2>1. jobs[f] # NoObject /\ jobs[f].owner = u
    BY <1>1, <1>7, <1>8 DEF Dispatched
  <2> QED BY <1>1, <1>3, <2>1 DEF StoreTypeOK
<1>9. CASE f = Key /\ u = Obj.uid
  BY <1>1, <1>2, <1>3, <1>6, <1>9 DEF StoreTypeOK
<1> QED BY <1>3, <1>7, <1>8, <1>9

(* A provider's Create stores a UID that no Job was ever created for. *)
LEMMA CreateRJobKeeps ==
  ASSUME DispatchInv, NEW p \in Provider, PrvCreate(p), UNCHANGED ctlVars
  PROVE  FreshUids' /\ Dispatched'
<1>1. StoreTypeOK /\ CtlTypeOK /\ PrvTypeOK /\ FreshUids /\ Dispatched /\ nextUid \in Nat
  BY DEF DispatchInv, TypeInv, TypeOK, PrvTypeOK
<1>2. /\ prv[p].key \in FP
      /\ rjobs' = [rjobs EXCEPT ![prv[p].key] = NewRJob(nextUid, prv[p].src)]
      /\ nextUid' = nextUid + 1
      /\ UNCHANGED <<jobs, rjCache, spawned, ctl>>
  BY <1>1 DEF PrvCreate, PrvTypeOK, PrvAt, ctlVars
<1>3. NewRJob(nextUid, prv[p].src).uid = nextUid
  BY DEF NewRJob
<1>4. \A f \in FP : \/ rjobs'[f] = rjobs[f]
                    \/ rjobs'[f].uid = nextUid
  BY <1>1, <1>2, <1>3 DEF StoreTypeOK
<1>5. /\ \A f \in FP : rjobs[f] # NoObject => rjobs[f].uid \in Nat
      /\ \A f \in FP : rjCache[f] # NoObject => rjCache[f].uid \in Nat
      /\ ctl.pc # "idle" => ctl.obj.uid \in Nat
  BY <1>1, RJobReads DEF StoreTypeOK, CtlTypeOK
<1>6. FreshUids'
  <2>1. \A u \in Nat : u < nextUid => u < nextUid'
    BY <1>1, <1>2
  <2>2. nextUid < nextUid'
    BY <1>1, <1>2
  <2>3. \A f \in FP : rjobs'[f] # NoObject => rjobs'[f].uid < nextUid'
    BY <1>1, <1>4, <1>5, <2>1, <2>2 DEF FreshUids
  <2>4. \A f \in FP : rjCache'[f] # NoObject => rjCache'[f].uid < nextUid'
    BY <1>1, <1>2, <1>5, <2>1 DEF FreshUids
  <2>5. ctl'.pc # "idle" => ctl'.obj.uid < nextUid'
    BY <1>1, <1>2, <1>5, <2>1 DEF FreshUids
  <2>6. \A f \in FP, u \in Nat : <<f, u>> \in spawned' => u < nextUid'
    BY <1>1, <1>2, <2>1 DEF FreshUids
  <2> QED BY <2>3, <2>4, <2>5, <2>6 DEF FreshUids
<1>7. Dispatched'
  BY <1>1, <1>2, <1>4 DEF Dispatched, FreshUids
<1> QED BY <1>6, <1>7

(* It holds when the watcher starts, *)
LEMMA InitDispatch ==
  ASSUME Init
  PROVE  DispatchInv
<1>1. FreshUids /\ Dispatched
  BY DEF Init, InitStore, InitCtl, Resting, FreshUids, Dispatched
<1> QED BY <1>1, InitType DEF DispatchInv

(* and every step keeps it. *)
LEMMA NextDispatch ==
  ASSUME DispatchInv, [Next]_vars
  PROVE  DispatchInv'
<1>1. TypeInv /\ TypeInv' /\ StoreTypeOK'
  BY NextType DEF DispatchInv, TypeInv, TypeOK
<1>2. UNCHANGED ctlVars => KnownUid
  BY DEF ctlVars, KnownUid
<1>3. ASSUME KnownUid, SameIncarnations, nextUid' = nextUid, UNCHANGED <<jobs, rjCache, spawned>>
      PROVE  DispatchInv'
  BY <1>1, <1>3, Quiet DEF DispatchInv
<1>4. ASSUME KnownUid, UNCHANGED store, nextUid' = nextUid
      PROVE  DispatchInv'
  BY <1>3, <1>4 DEF store, SameIncarnations
<1>5. CASE Cluster
  BY <1>1, <1>5, ClusterQuiet DEF DispatchInv
<1>6. CASE Sources
  BY <1>2, <1>4, <1>6 DEF Sources, SourceChange
<1>7. CASE \E f \in FP : Get(f)
  <2>1. (\E f \in FP : CtlGet(f)) /\ UNCHANGED <<store, nextUid>>
    BY Zenon, <1>7 DEF Get, CtlGet, prvVars
  <2> QED BY <1>1, <1>4, <2>1, CtlKnowsUid
<1>8. CASE Step
  <2>1. CtlStep(Alive) /\ UNCHANGED prvVars /\ nextUid' = nextUid /\ KnownUid /\ SameIncarnations
    BY <1>1, <1>8, CtlKnowsUid, CtlPatchesKeepUid DEF Step, prvVars
  <2>2. CASE CtlCreateJob
    BY <1>1, <2>1, <2>2, CreateJobKeeps DEF DispatchInv
  <2>3. CASE ~CtlCreateJob
    <3>1. UNCHANGED <<jobs, rjCache, spawned>>
      BY Zenon, <2>1, <2>3 DEF CtlStep, CtlRecordPR, CtlRecordPRFails, CtlInitPhase, CtlSetCompletedAt,
         CtlExpire, CtlStamp, CtlReadJob, CtlFetchReport, CtlSync, CtlAwaitPrimary,
         CtlSoloFallback, CtlLead, CtlSuppressPeer, CtlSetGroup, CtlSetLabel, CtlNoGroup,
         CtlRecover, CtlRelabel, CtlGate, CtlRefuse, CtlFindJob, CtlAdopt, CtlDispatched,
         CtlReturn, OnlyRJobs, store
    <3> QED BY <1>3, <2>1, <3>1
  <2> QED BY <2>2, <2>3
<1>9. CASE \E p \in Provider : (\E s \in Src : Look(p, s)) \/ Work(p)
  <2>1. PICK p \in Provider : (\E s \in Src : Look(p, s)) \/ Work(p)
    BY <1>9
  <2>2. UNCHANGED ctlVars /\ KnownUid
    BY <1>2, <2>1 DEF Look, Work
  <2>3. CASE \E s \in Src : Look(p, s)
    BY <1>4, <2>2, <2>3 DEF Look, PrvGone, PrvFinding
  <2>4. CASE \/ \E f \in FP : PrvCancel(p, f)
             \/ PrvCancelDelete(p) \/ PrvDeleteFailed(p) \/ PrvMerged(p) \/ PrvDeleteTombstone(p)
    <3>1. SameIncarnations
      BY <1>1, <2>4, PrvKeepsUid
    <3>2. UNCHANGED <<jobs, rjCache, spawned, nextUid>>
      BY Zenon, <2>4 DEF PrvCancel, PrvCancelDelete, PrvDeleteFailed, PrvMerged, PrvDeleteTombstone,
         PrvOnlyRJobs
    <3> QED BY <1>3, <2>2, <3>1, <3>2
  <2>5. CASE PrvPass(p) \/ PrvSuppress(p)
    BY <1>4, <2>2, <2>5 DEF PrvPass, PrvSuppress
  <2>6. CASE PrvCreate(p)
    BY <1>1, <2>2, <2>6, CreateRJobKeeps DEF DispatchInv
  <2> QED BY <2>1, <2>3, <2>4, <2>5, <2>6 DEF Work, PrvStep
<1>10. CASE Fault
  <2>1. UNCHANGED store
    BY Zenon, <1>10 DEF Fault, CtlAbort, CtlRecordPRFails, CtlFetchReportFails, PrvAbort, PrvCancelFails
  <2>2. nextUid' = nextUid
    BY Zenon, <1>10 DEF Fault, PrvAbort, PrvCancelFails, prvVars
  <2>3. KnownUid
    BY <1>1, <1>2, <1>10, CtlKnowsUid DEF Fault
  <2> QED BY <1>4, <2>1, <2>2, <2>3
<1>11. CASE UNCHANGED vars
  BY <1>2, <1>4, <1>11 DEF vars, prvVars
<1> QED
  BY <1>5, <1>6, <1>7, <1>8, <1>9, <1>10, <1>11 DEF Next

(* dispatch never creates a second Job for one incarnation of a            *)
(* RemediationJob: for any number of findings, sources and providers, with *)
(* any lag of the caches, any crashes and failed API calls, and any timing *)
(* of the Job controller and the garbage collector.                        *)
THEOREM DispatchedOnce == Spec => NoDoubleDispatch
<1>1. Init => DispatchInv
  BY InitDispatch
<1>2. DispatchInv /\ [Next]_vars => DispatchInv'
  BY NextDispatch
<1>3. DispatchInv /\ DispatchInv' =>
        \A f \in FP : jobs[f] = NoObject /\ jobs'[f] # NoObject /\ rjobs[f] # NoObject
                       /\ rjobs[f].uid = jobs'[f].owner
                     => <<f, jobs'[f].owner>> \notin spawned
  <2>1. SUFFICES ASSUME DispatchInv, NEW f \in FP, jobs[f] = NoObject, rjobs[f] # NoObject
                 PROVE  <<f, rjobs[f].uid>> \notin spawned
    OBVIOUS
  <2>2. rjobs[f].uid \in Nat
    BY <2>1, RJobReads DEF DispatchInv, TypeInv, TypeOK, StoreTypeOK
  <2> QED BY <2>1, <2>2 DEF DispatchInv, Dispatched
<1> QED BY <1>1, <1>2, <1>3, PTL DEF Spec, NoDoubleDispatch

-----------------------------------------------------------------------------
(* What one step of the whole watcher may do to a RemediationJob, to a Job *)
(* and to the memory of the controller.                                    *)

(* A stored RemediationJob was stored before, with the same message unless *)
(* the status sync ran, or it has just been created.                       *)
LEMMA Incarnations ==
  ASSUME TypeInv, [Next]_vars, NEW f \in FP, rjobs'[f] # NoObject
  PROVE  \/ /\ rjobs[f] # NoObject
            /\ rjobs'[f].uid = rjobs[f].uid /\ rjobs'[f].src = rjobs[f].src
            /\ (Step /\ CtlSync) \/ rjobs'[f].message = rjobs[f].message
         \/ \E p \in Provider : /\ Work(p) /\ PrvCreate(p)
                                /\ f = prv[p].key /\ rjobs'[f] = NewRJob(nextUid, prv[p].src)
<1>1. StoreTypeOK /\ PrvTypeOK
  BY DEF TypeInv, TypeOK
<1>2. CASE SameIncarnations /\ SameMessages
  BY <1>2 DEF SameIncarnations, SameMessages
<1>3. CASE rjobs' = rjobs
  BY <1>3
<1>4. CASE Cluster
  BY <1>2, <1>4, ClusterSame
<1>5. CASE Step
  <2>1. SameIncarnations /\ (CtlSync \/ SameMessages)
    BY <1>5, CtlPatchesKeepUid DEF Step
  <2> QED BY <1>2, <1>5, <2>1 DEF SameIncarnations
<1>6. CASE Sources \/ (\E g \in FP : Get(g)) \/ UNCHANGED vars
  BY Zenon, <1>3, <1>6 DEF Sources, SourceChange, Get, CtlGet, vars, store
<1>7. CASE Fault
  BY Zenon, <1>3, <1>7 DEF Fault, CtlAbort, CtlRecordPRFails, CtlFetchReportFails, PrvAbort,
     PrvCancelFails, store
<1>8. ASSUME NEW p \in Provider, NEW s \in Src, Look(p, s)
      PROVE  rjobs' = rjobs
  BY <1>8 DEF Look, PrvGone, PrvFinding, store
<1>9. ASSUME NEW p \in Provider, Work(p)
      PROVE  \/ SameIncarnations /\ SameMessages
             \/ PrvCreate(p)
  <2>1. CASE \/ \E g \in FP : PrvCancel(p, g)
             \/ PrvCancelDelete(p) \/ PrvDeleteFailed(p) \/ PrvMerged(p) \/ PrvDeleteTombstone(p)
    BY <2>1, PrvKeepsUid
  <2>2. CASE PrvPass(p) \/ PrvSuppress(p)
    BY <2>2 DEF PrvPass, PrvSuppress, store, SameIncarnations, SameMessages
  <2> QED BY <1>9, <2>1, <2>2 DEF Work, PrvStep
<1>10. ASSUME NEW p \in Provider, Work(p), PrvCreate(p)
       PROVE  \/ rjobs'[f] = rjobs[f]
              \/ f = prv[p].key /\ rjobs'[f] = NewRJob(nextUid, prv[p].src)
  BY <1>1, <1>10 DEF PrvCreate, StoreTypeOK
<1>11. CASE \E p \in Provider : Work(p)
  <2>1. PICK p \in Provider : Work(p)
    BY <1>11
  <2>2. CASE PrvCreate(p)
    BY <1>10, <2>1, <2>2
  <2> QED BY <1>2, <1>9, <2>1, <2>2
<1> QED
  BY <1>3, <1>4, <1>5, <1>6, <1>7, <1>8, <1>11 DEF Next

(* A stored Job was stored before, for the same owner and findings, and if *)
(* it has succeeded since it has left its report; or dispatch has just     *)
(* created it.                                                             *)
LEMMA JobOrigin ==
  ASSUME TypeInv, [Next]_vars, NEW f \in FP, jobs'[f] # NoObject
  PROVE  \/ /\ jobs[f] # NoObject
            /\ jobs'[f].owner = jobs[f].owner /\ jobs'[f].findings = jobs[f].findings
            /\ jobs'[f].succeeded = jobs[f].succeeded \/ (DryRun => f \in reports')
         \/ Step /\ CtlCreateJob /\ f = Key
<1>1. StoreTypeOK /\ CtlTypeOK
  BY DEF TypeInv, TypeOK
<1>2. CASE jobs'[f] = jobs[f]
  BY <1>2
<1>3. ASSUME NEW g \in FP, NEW j, SetJob(g, j)
      PROVE  jobs'[f] = IF f = g THEN j ELSE jobs[f]
  BY <1>1, <1>3 DEF SetJob, StoreTypeOK
<1>4. ASSUME NEW g \in FP, JobExpire(g) \/ JobCollect(g)
      PROVE  jobs'[f] = jobs[f]
  BY <1>3, <1>4 DEF JobExpire, JobCollect
<1>5. ASSUME NEW g \in FP, PodStart(g) \/ PodFail(g) \/ PodSucceed(g) \/ DeadlineExceeded(g)
      PROVE  \/ jobs'[f] = jobs[f]
             \/ /\ jobs[f] # NoObject
                /\ jobs'[f].owner = jobs[f].owner /\ jobs'[f].findings = jobs[f].findings
                /\ jobs'[f].succeeded = jobs[f].succeeded \/ (DryRun => f \in reports')
  <2>1. PICK j \in Job : /\ SetJob(g, j)
                         /\ j.owner = jobs[g].owner /\ j.findings = jobs[g].findings
                         /\ j.succeeded = jobs[g].succeeded \/ (DryRun => g \in reports')
    BY Zenon, <1>5, PodStep
  <2>2. jobs[g] # NoObject
    BY Zenon, <1>5, PodStep
  <2>3. jobs'[f] = IF f = g THEN j ELSE jobs[f]
    BY <1>3, <2>1
  <2> QED BY <2>1, <2>2, <2>3
<1>6. CASE Cluster
  <2>1. CASE jobs' = jobs
    BY <1>2, <2>1
  <2>2. CASE jobs' # jobs
    <3>1. PICK g \in FP : \/ JobExpire(g) \/ JobCollect(g)
                          \/ PodStart(g) \/ PodFail(g) \/ PodSucceed(g) \/ DeadlineExceeded(g)
      BY Zenon, <1>6, <2>2 DEF Cluster, Tick, SyncRJobs, SyncJobs, AgentReportsPR
    <3> QED BY <1>2, <1>4, <1>5, <3>1
  <2> QED BY <2>1, <2>2
<1>7. CASE Step /\ CtlCreateJob
  <2>1. Key \in FP /\ jobs' = [jobs EXCEPT ![Key] = NewJob(Key, Obj.uid, ctl.findings)]
    BY <1>1, <1>7 DEF CtlCreateJob, At, CtlTypeOK, Key
  <2>2. CASE f # Key
    BY <1>1, <1>2, <2>1, <2>2 DEF StoreTypeOK
  <2> QED BY <1>7, <2>2
<1>8. CASE Step /\ ~CtlCreateJob
  <2>1. jobs' = jobs
    BY Zenon, <1>8 DEF Step, CtlStep, CtlRecordPR, CtlRecordPRFails, CtlInitPhase, CtlSetCompletedAt,
       CtlExpire, CtlStamp, CtlReadJob, CtlFetchReport, CtlSync, CtlAwaitPrimary, CtlSoloFallback,
       CtlLead, CtlSuppressPeer, CtlSetGroup, CtlSetLabel, CtlNoGroup, CtlRecover, CtlRelabel,
       CtlGate, CtlRefuse, CtlFindJob, CtlAdopt, CtlDispatched, CtlReturn, OnlyRJobs, store
  <2> QED BY <1>2, <2>1
<1>9. CASE Sources \/ (\E g \in FP : Get(g)) \/ Fault \/ UNCHANGED vars
  <2>1. jobs' = jobs
    BY Zenon, <1>9 DEF Sources, SourceChange, Get, CtlGet, Fault, CtlAbort, CtlRecordPRFails,
       CtlFetchReportFails, PrvAbort, PrvCancelFails, vars, store
  <2> QED BY <1>2, <2>1
<1>10. CASE \E p \in Provider : (\E s \in Src : Look(p, s)) \/ Work(p)
  <2>1. CASE \E p \in Provider, s \in Src : Look(p, s)
    <3>1. jobs' = jobs
      BY Zenon, <2>1 DEF Look, PrvGone, PrvFinding, store
    <3> QED BY <1>2, <3>1
  <2>2. ASSUME NEW p \in Provider, Work(p)
        PROVE  jobs' = jobs
    BY Zenon, <2>2 DEF Work, PrvStep, PrvCancel, PrvCancelDelete, PrvDeleteFailed, PrvMerged,
       PrvDeleteTombstone, PrvPass, PrvCreate, PrvSuppress, PrvOnlyRJobs, store
  <2> QED BY <1>2, <1>10, <2>1, <2>2
<1> QED BY <1>6, <1>7, <1>8, <1>9, <1>10 DEF Next

(* The controller goroutine: the Job that it holds is one that it held or  *)
(* that it reads, and only the sync reads and writes messages.             *)
LEMMA CtlMemory ==
  ASSUME TypeInv, [Next]_vars
  PROVE  /\ ctl'.job # NoObject =>
              ctl'.job = ctl.job \/ \E f \in FP : ctl'.job \in {jobs[f], jobCache[f]}
         /\ \/ ctl' = ctl
            \/ Fault
            \/ Step /\ (CtlSync \/ CtlReadJob \/ CtlFetchReport)
            \/ /\ ctl.pc \notin {"report", "sync"} /\ ctl'.pc # "report"
               /\ ctl'.message \in {"none", ctl.message}
<1>1. ctl \in CtlState /\ (ctl.pc # "idle" => ctl.key \in FP)
  BY DEF TypeInv, TypeOK, CtlTypeOK
<1>2. CASE ctl' = ctl
  BY <1>2
<1>3. Resting.job = NoObject /\ Resting.message = "none" /\ Resting.pc = "idle"
  BY DEF Resting
<1>4. CASE \E f \in FP : Get(f)
  <2>1. PICK f, pc : ctl.pc = "idle" /\ pc \in {"record", "decide"}
               /\ ctl' = [Resting EXCEPT !.pc = pc, !.key = f, !.obj = RJobView[f]]
    BY Zenon, <1>4 DEF Get, CtlGet, At
  <2>2. ctl'.job = NoObject /\ ctl'.message = "none" /\ ctl'.pc = pc
    BY <2>1 DEF Resting
  <2> QED BY <2>1, <2>2
<1>5. CASE Step /\ CtlSync
  BY <1>3, <1>5 DEF CtlSync, Return
<1>6. CASE Step /\ (CtlReadJob \/ CtlFindJob)
  <2>1. PICK pc : /\ ctl' = [ctl EXCEPT !.pc = pc, !.job = OwnedJob]
                  /\ CtlFindJob => pc = "adopt"
    BY Zenon, <1>6 DEF CtlReadJob, CtlFindJob, At
  <2>2. ctl'.job = OwnedJob /\ ctl'.message = ctl.message /\ ctl'.pc = pc
    BY <1>1, <2>1 DEF CtlState
  <2>3. Key \in FP /\ OwnedJob \in {jobs[Key], jobCache[Key]}
    BY <1>1, <1>6 DEF OwnedJob, JobView, CtlReadJob, CtlFindJob, At, Key
  <2>4. CtlFindJob => ctl.pc = "create"
    BY DEF CtlFindJob, At
  <2> QED BY <1>6, <2>1, <2>2, <2>3, <2>4
<1>7. CASE Step /\ CtlFetchReport
  <2>1. PICK m : ctl' = [ctl EXCEPT !.pc = "sync", !.message = m]
    BY Zenon, <1>7 DEF CtlFetchReport
  <2>2. ctl'.job = ctl.job
    BY <1>1, <2>1 DEF CtlState
  <2> QED BY <1>7, <2>2
<1>8. ASSUME NEW c, ctl' = c, c.job = ctl.job, c.message = ctl.message, c.pc # "report",
             ctl.pc \notin {"report", "sync"}
      PROVE  /\ ctl'.job # NoObject => ctl'.job = ctl.job
             /\ ctl.pc \notin {"report", "sync"} /\ ctl'.pc # "report"
             /\ ctl'.message \in {"none", ctl.message}
  BY <1>8
<1>9. CASE Step /\ \/ CtlInitPhase \/ CtlSetCompletedAt \/ CtlStamp \/ CtlRefuse
                   \/ CtlAdopt \/ CtlDispatched \/ CtlReturn
  <2>1. ctl' = Resting
    BY <1>9 DEF CtlInitPhase, CtlSetCompletedAt, CtlStamp, CtlRefuse, CtlAdopt, CtlDispatched,
       CtlReturn, Return
  <2>2. ctl.pc \notin {"report", "sync"}
    BY <1>9 DEF CtlInitPhase, CtlSetCompletedAt, CtlStamp, CtlRefuse, CtlAdopt, CtlDispatched,
       CtlReturn, At, Undispatched
  <2> QED BY <1>3, <2>1, <2>2
<1>10. CASE Step /\ (CtlExpire \/ CtlNoGroup(Alive) \/ CtlGate \/ CtlCreateJob)
  <2>1. ctl.pc \notin {"report", "sync"}
        /\ \E pc : pc # "report" /\ ctl' = [ctl EXCEPT !.pc = pc]
    BY <1>10 DEF CtlExpire, CtlNoGroup, CtlGate, CtlCreateJob, At, Goto, Undispatched
  <2> QED BY <1>1, <1>8, <2>1 DEF CtlState
<1>11. CASE Step /\ (CtlAwaitPrimary(Alive) \/ CtlSoloFallback)
  <2>1. ctl.pc \notin {"report", "sync"}
    BY Zenon, <1>11 DEF CtlAwaitPrimary, CtlSoloFallback, At, Undispatched
  <2>2. PICK pc, g : pc # "report" /\ ctl' = [ctl EXCEPT !.pc = pc, !.gid = g]
    BY <1>11, Zenon DEF CtlAwaitPrimary, CtlSoloFallback
  <2> QED BY <1>1, <1>8, <2>1, <2>2 DEF CtlState
<1>12. CASE Step /\ CtlLead(Alive)
  <2>1. ctl.pc \notin {"report", "sync"}
    BY <1>12 DEF CtlLead, At, Undispatched
  <2>2. PICK ps, fs, g : ctl' = [ctl EXCEPT !.pc = "suppress", !.peers = ps, !.findings = fs,
                                            !.gid = g]
    BY <1>12, Zenon DEF CtlLead
  <2> QED BY <1>1, <1>8, <2>1, <2>2 DEF CtlState
<1>13. CASE Step /\ \E p \in FP : CtlSuppressPeer(p)
  <2>1. ctl.pc = "suppress" /\ \E ps : ctl' = [ctl EXCEPT !.peers = ps]
    BY Zenon, <1>13 DEF CtlSuppressPeer, At
  <2> QED BY <1>1, <1>8, <2>1 DEF CtlState
<1>14. CASE Step /\ CtlRecover
  <2>1. ctl.pc = "recover"
    BY <1>14 DEF CtlRecover, At
  <2>2. PICK pc \in {"relabel", "gate"} : \E fs : ctl' = [ctl EXCEPT !.pc = pc, !.findings = fs]
    BY <1>14, Zenon DEF CtlRecover
  <2> QED BY <1>1, <1>8, <2>1, <2>2 DEF CtlState
<1>15. CASE Step /\ (CtlRecordPR \/ CtlSetGroup \/ CtlSetLabel \/ CtlRelabel)
  <2>1. ctl.pc \notin {"report", "sync"}
    BY <1>15 DEF CtlRecordPR, CtlSetGroup, CtlSetLabel, CtlRelabel, At
  <2>2. PICK pc, r : pc # "report" /\ ctl' = [ctl EXCEPT !.pc = pc, !.obj = r]
    BY <1>15, Zenon DEF CtlRecordPR, CtlSetGroup, CtlSetLabel, CtlRelabel
  <2> QED BY <1>1, <1>8, <2>1, <2>2 DEF CtlState
<1>16. CASE CtlRecordPRFails
  <2>1. ctl.pc = "record" /\ \E r : ctl' = [ctl EXCEPT !.pc = "decide", !.obj = r]
    BY Zenon, <1>16 DEF CtlRecordPRFails, At
  <2> QED BY <1>1, <1>8, <2>1 DEF CtlState
<1>17. CASE Step
  BY Zenon, <1>5, <1>6, <1>7, <1>9, <1>10, <1>11, <1>12, <1>13, <1>14, <1>15, <1>16, <1>17
     DEF Step, CtlStep
<1>18. CASE Fault
  <2>1. CASE CtlAbort
    BY <1>3, <1>18, <2>1 DEF CtlAbort, Return
  <2>2. CASE CtlFetchReportFails
    <3>1. PICK m : ctl' = [ctl EXCEPT !.pc = "sync", !.message = m]
      BY Zenon, <2>2 DEF CtlFetchReportFails
    <3>2. ctl'.job = ctl.job
      BY <1>1, <3>1 DEF CtlState
    <3> QED BY <1>18, <3>2
  <2> QED BY <1>2, <1>16, <1>18, <2>1, <2>2 DEF Fault, ctlVars
<1>19. CASE Cluster \/ Sources \/ (\E p \in Provider : (\E s \in Src : Look(p, s)) \/ Work(p))
             \/ UNCHANGED vars
  BY Zenon, <1>2, <1>19 DEF Cluster, Sources, Look, Work, ctlVars, vars
<1> QED BY <1>4, <1>17, <1>18, <1>19 DEF Next

(* What else a step may do: the Job cache shows the past or the present, a *)
(* report is only taken by the reconcile that reads it, UIDs are counted,  *)
(* and only a fault uses up a fault.                                       *)
LEMMA StepFrame ==
  ASSUME TypeInv, [Next]_vars
  PROVE  /\ jobCache' \in {jobCache, jobs} /\ rjCache' \in {rjCache, rjobs}
         /\ reports \subseteq reports' \/ (Step /\ CtlFetchReport)
         /\ \/ nextUid' = nextUid
            \/ nextUid' = nextUid + 1 /\ \E p \in Provider : Work(p) /\ PrvCreate(p)
         /\ faults' = faults \/ (Fault /\ faults' = faults - 1)
<1>1. ASSUME UNCHANGED <<jobCache, rjCache>>
      PROVE  jobCache' \in {jobCache, jobs} /\ rjCache' \in {rjCache, rjobs}
  BY <1>1
<1>2. CASE Cluster
  <2>1. jobCache' \in {jobCache, jobs} /\ rjCache' \in {rjCache, rjobs}
    BY Zenon, <1>2 DEF Cluster, Tick, SyncRJobs, SyncJobs, PodStart, PodFail, PodSucceed,
       DeadlineExceeded, JobExpire, JobCollect, AgentReportsPR, SetJob
  <2>2. reports' = reports \/ \E f \in FP : PodSucceed(f)
    BY Zenon, <1>2 DEF Cluster, Tick, SyncRJobs, SyncJobs, PodStart, PodFail,
       DeadlineExceeded, JobExpire, JobCollect, AgentReportsPR
  <2>3. reports \subseteq reports'
    BY Zenon, <2>2 DEF PodSucceed
  <2> QED BY <1>2, <2>1, <2>3 DEF Cluster, prvVars
<1>3. CASE Step
  <2>1. UNCHANGED <<jobCache, rjCache>> /\ (reports' = reports \/ CtlFetchReport)
    BY Zenon, <1>3 DEF Step, CtlStep, CtlRecordPR, CtlRecordPRFails, CtlInitPhase, CtlSetCompletedAt,
       CtlExpire, CtlStamp, CtlReadJob, CtlFetchReport, CtlSync, CtlAwaitPrimary, CtlSoloFallback,
       CtlLead, CtlSuppressPeer, CtlSetGroup, CtlSetLabel, CtlNoGroup, CtlRecover, CtlRelabel,
       CtlGate, CtlRefuse, CtlCreateJob, CtlFindJob, CtlAdopt, CtlDispatched, CtlReturn,
       OnlyRJobs, store
  <2> QED BY <1>1, <1>3, <2>1 DEF Step, prvVars
<1>4. CASE Sources \/ (\E g \in FP : Get(g)) \/ UNCHANGED vars
  <2>1. UNCHANGED store /\ faults' = faults
    BY Zenon, <1>4 DEF Sources, SourceChange, Get, CtlGet, vars
  <2>2. nextUid' = nextUid
    BY Zenon, <1>4 DEF Sources, SourceChange, Get, prvVars, vars
  <2> QED BY <1>1, <2>1, <2>2 DEF store
<1>5. CASE Fault
  <2>1. UNCHANGED store
    BY Zenon, <1>5 DEF Fault, CtlAbort, CtlRecordPRFails, CtlFetchReportFails, PrvAbort, PrvCancelFails
  <2>2. nextUid' = nextUid /\ faults' = faults - 1
    BY Zenon, <1>5 DEF Fault, PrvAbort, PrvCancelFails, prvVars
  <2> QED BY <1>1, <1>5, <2>1, <2>2 DEF store
<1>6. CASE \E p \in Provider : (\E s \in Src : Look(p, s)) \/ Work(p)
  <2>1. PICK p \in Provider : (\E s \in Src : Look(p, s)) \/ Work(p)
    BY <1>6
  <2>2. faults' = faults /\ UNCHANGED <<jobCache, rjCache, reports>>
    BY Zenon, <2>1 DEF Look, PrvGone, PrvFinding, Work, PrvStep, PrvCancel, PrvCancelDelete,
       PrvDeleteFailed, PrvMerged, PrvDeleteTombstone, PrvPass, PrvCreate, PrvSuppress,
       PrvOnlyRJobs, store
  <2>3. nextUid' = nextUid \/ (Work(p) /\ PrvCreate(p))
    BY Zenon, <2>1 DEF Look, PrvGone, PrvFinding, Work, PrvStep, PrvCancel, PrvCancelDelete,
       PrvDeleteFailed, PrvMerged, PrvDeleteTombstone, PrvPass, PrvSuppress, PrvOnlyRJobs
  <2>4. PrvCreate(p) => nextUid' = nextUid + 1
    BY DEF PrvCreate
  <2> QED BY <1>1, <2>2, <2>3, <2>4
<1> QED BY <1>2, <1>3, <1>4, <1>5, <1>6 DEF Next

-----------------------------------------------------------------------------
(***************************************************************************)
(* ReportNotLost.  A succeeded Job of the incarnation that lives, seen in  *)
(* the store, in the cache or by the reconcile at work, still has its      *)
(* report in the cluster or in the hands of that reconcile, until the      *)
(* message is written (ReportDue).  The Job cache may lag: a report that   *)
(* was taken for an old Job belongs to an incarnation that is gone.        *)
(***************************************************************************)
OwnersKnown ==
  /\ \A f \in FP : jobs[f] # NoObject => jobs[f].owner < nextUid
  /\ \A f \in FP : jobCache[f] # NoObject => jobCache[f].owner < nextUid
  /\ ctl.job # NoObject => ctl.job.owner < nextUid

(* The RemediationJob waits for the report of this Job. *)
Owed(f, j) ==
  /\ j # NoObject /\ j.succeeded = 1
  /\ rjobs[f] # NoObject /\ rjobs[f].message = "none"
  /\ j.owner = rjobs[f].uid

ReportDue ==
  /\ ctl.pc = "report" => DryRun /\ ctl.job.succeeded = 1 /\ ctl.obj.message = "none"
  /\ ctl.message # "none" => ctl.pc = "sync" /\ ctl.obj.message = "none"
  /\ ctl.message = "unavailable" /\ rjobs[ctl.key] # NoObject /\ rjobs[ctl.key].message = "none"
       => ctl.job.owner # rjobs[ctl.key].uid
  /\ DryRun => \A f \in FP :
       /\ Owed(f, jobs[f]) => f \in reports \/ (ctl.key = f /\ ctl.message = "report")
       /\ Owed(f, jobCache[f]) => f \in reports \/ (ctl.key = f /\ ctl.message = "report")
       /\ Owed(f, ctl.job) /\ ctl.pc = "report" /\ ctl.key = f => f \in reports

ReportInv ==
  /\ DispatchInv /\ OwnersKnown
  /\ faults <= MaxFaults
  /\ faults = MaxFaults => ReportDue

(* A RemediationJob as a provider creates it. *)
LEMMA FreshRJob ==
  ASSUME NEW u, NEW s
  PROVE  /\ NewRJob(u, s).uid = u /\ NewRJob(u, s).src = s
         /\ NewRJob(u, s).phase = "New" /\ NewRJob(u, s).message = "none"
BY DEF NewRJob

(* UIDs are numbers. *)
LEMMA OwnerType ==
  ASSUME TypeInv
  PROVE  /\ \A f \in FP : jobs[f] # NoObject => jobs[f].owner \in Nat
         /\ \A f \in FP : jobCache[f] # NoObject => jobCache[f].owner \in Nat
         /\ ctl.job # NoObject => ctl.job.owner \in Nat
         /\ nextUid \in Nat
<1>1. \A j \in Job : j.owner \in Nat
  BY DEF Job
<1>2. ctl.job \in Job \cup {NoObject}
  BY DEF TypeInv, TypeOK, CtlTypeOK, CtlState
<1> QED BY <1>1, <1>2 DEF TypeInv, TypeOK, StoreTypeOK, PrvTypeOK

(* A Job belongs to an incarnation whose UID was given out before. *)
LEMMA NextOwners ==
  ASSUME DispatchInv, OwnersKnown, [Next]_vars
  PROVE  OwnersKnown'
<1>1. TypeInv /\ nextUid \in Nat
  BY OwnerType DEF DispatchInv
<1>2. nextUid' \in {nextUid, nextUid + 1} /\ jobCache' \in {jobCache, jobs}
  BY <1>1, StepFrame
<1>3. \A u \in Nat : u < nextUid => u < nextUid'
  BY <1>1, <1>2
<1>4. ASSUME NEW f \in FP, jobs'[f] # NoObject
      PROVE  jobs'[f].owner < nextUid'
  <2>1. CASE jobs[f] # NoObject /\ jobs'[f].owner = jobs[f].owner
    BY <1>1, <1>3, <2>1, OwnerType DEF OwnersKnown
  <2>2. CASE CtlCreateJob /\ f = Key
    <3>1. jobs' = [jobs EXCEPT ![Key] = NewJob(Key, Obj.uid, ctl.findings)]
      BY <2>2 DEF CtlCreateJob
    <3>2. jobs'[f].owner = Obj.uid
      BY <1>1, <2>2, <3>1 DEF NewJob, TypeInv, TypeOK, StoreTypeOK
    <3>3. Obj.uid \in Nat /\ Obj.uid < nextUid
      BY <1>1, <2>2, RJobReads DEF CtlCreateJob, At, Obj, DispatchInv, FreshUids, TypeInv, TypeOK,
         CtlTypeOK
    <3> QED BY <1>3, <3>2, <3>3
  <2> QED BY <1>1, <1>4, <2>1, <2>2, JobOrigin
<1>5. ASSUME NEW f \in FP, jobCache'[f] # NoObject
      PROVE  jobCache'[f].owner < nextUid'
  BY <1>1, <1>2, <1>3, <1>5, OwnerType DEF OwnersKnown
<1>6. ASSUME ctl'.job # NoObject
      PROVE  ctl'.job.owner < nextUid'
  <2>1. ctl'.job = ctl.job \/ \E f \in FP : ctl'.job \in {jobs[f], jobCache[f]}
    BY <1>1, <1>6, CtlMemory
  <2> QED BY <1>1, <1>3, <1>6, <2>1, OwnerType DEF OwnersKnown
<1> QED BY <1>4, <1>5, <1>6 DEF OwnersKnown

(* Whatever a RemediationJob waits for after a step that is not the sync,  *)
(* it waited for before, or has just been written.                         *)
LEMMA OwedBefore ==
  ASSUME DispatchInv, OwnersKnown, [Next]_vars, ~(Step /\ CtlSync), DryRun, NEW f \in FP
  PROVE  /\ Owed(f, jobs[f])' => Owed(f, jobs[f]) \/ f \in reports'
         /\ Owed(f, jobCache[f])' => Owed(f, jobs[f]) \/ Owed(f, jobCache[f])
         /\ ctl' = ctl /\ Owed(f, ctl.job)' => Owed(f, ctl.job)
<1>1. TypeInv /\ jobCache' \in {jobCache, jobs} /\ nextUid \in Nat
  BY StepFrame, OwnerType DEF DispatchInv
<1>2. ASSUME NEW j, j # NoObject, j.owner < nextUid, j.owner \in Nat, j.succeeded = 1,
             rjobs'[f] # NoObject, rjobs'[f].message = "none", j.owner = rjobs'[f].uid
      PROVE  Owed(f, j)
  <2>2. ASSUME NEW p \in Provider, rjobs'[f] = NewRJob(nextUid, prv[p].src)
        PROVE  FALSE
    BY <1>1, <1>2, <2>2, FreshRJob
  <2>3. /\ rjobs[f] # NoObject /\ rjobs'[f].uid = rjobs[f].uid
        /\ rjobs'[f].message = rjobs[f].message
    BY <1>1, <1>2, <2>2, Incarnations
  <2> QED BY <1>2, <2>3 DEF Owed
<1>3. ASSUME Owed(f, jobs[f])'
      PROVE  Owed(f, jobs[f]) \/ f \in reports'
  <2>1. /\ jobs'[f] # NoObject /\ jobs'[f].succeeded = 1
        /\ rjobs'[f] # NoObject /\ rjobs'[f].message = "none"
        /\ jobs'[f].owner = rjobs'[f].uid
    BY <1>3, Zenon DEF Owed
  <2>2. CASE CtlCreateJob /\ f = Key
    <3>1. jobs' = [jobs EXCEPT ![Key] = NewJob(Key, Obj.uid, ctl.findings)]
      BY <2>2 DEF CtlCreateJob
    <3>2. jobs'[f].succeeded = 0
      BY <1>1, <2>2, <3>1 DEF NewJob, TypeInv, TypeOK, StoreTypeOK
    <3> QED BY <2>1, <3>2
  <2>3. CASE /\ jobs[f] # NoObject /\ jobs'[f].owner = jobs[f].owner
             /\ jobs'[f].succeeded = jobs[f].succeeded
    <3>1. jobs[f].owner < nextUid /\ jobs[f].owner \in Nat
      BY <1>1, <2>3, OwnerType DEF OwnersKnown
    <3> QED BY <1>2, <2>1, <2>3, <3>1
  <2> QED BY <1>1, <2>1, <2>2, <2>3, JobOrigin
<1>4. ASSUME NEW j, j \in {jobs[f], jobCache[f], ctl.job}, j # NoObject, j.succeeded = 1,
             rjobs'[f] # NoObject, rjobs'[f].message = "none", j.owner = rjobs'[f].uid
      PROVE  Owed(f, j)
  <2>1. j.owner < nextUid /\ j.owner \in Nat
    BY <1>1, <1>4, OwnerType DEF OwnersKnown
  <2> QED BY <1>2, <1>4, <2>1
<1>5. ASSUME Owed(f, jobCache[f])'
      PROVE  Owed(f, jobs[f]) \/ Owed(f, jobCache[f])
  <2>1. /\ jobCache'[f] # NoObject /\ jobCache'[f].succeeded = 1
        /\ rjobs'[f] # NoObject /\ rjobs'[f].message = "none"
        /\ jobCache'[f].owner = rjobs'[f].uid
    BY <1>5, Zenon DEF Owed
  <2>2. jobCache'[f] \in {jobs[f], jobCache[f]}
    BY <1>1
  <2> QED BY <1>4, <2>1, <2>2
<1>6. ASSUME ctl' = ctl, Owed(f, ctl.job)'
      PROVE  Owed(f, ctl.job)
  <2>1. /\ ctl'.job # NoObject /\ ctl'.job.succeeded = 1
        /\ rjobs'[f] # NoObject /\ rjobs'[f].message = "none"
        /\ ctl'.job.owner = rjobs'[f].uid
    BY <1>6, Zenon DEF Owed
  <2>2. ctl'.job = ctl.job
    BY <1>6
  <2> QED BY <1>4, <2>1, <2>2
<1> QED BY <1>3, <1>5, <1>6

(* What the sync writes: the message of the reconcile, if it holds one, on *)
(* the object it reads, and nothing else that a report depends on.         *)
LEMMA SyncWrites ==
  ASSUME DispatchInv, CtlSync
  PROVE  /\ \A f \in FP : f # Key => rjobs'[f] = rjobs[f]
         /\ rjobs'[Key] # NoObject =>
              /\ rjobs[Key] # NoObject /\ rjobs'[Key].uid = rjobs[Key].uid
              /\ rjobs'[Key].message = IF ctl.message \in {"none", Obj.message}
                                       THEN rjobs[Key].message ELSE ctl.message
         /\ ctl.pc = "sync" /\ ctl' = Resting
         /\ jobs' = jobs /\ jobCache' = jobCache /\ reports' = reports
<1>1. /\ StoreTypeOK /\ ctl.pc = "sync" /\ Obj \in RJob /\ Key \in FP
      /\ Live = rjobs[Key] /\ (Live # NoObject => Live \in RJob)
  BY DEF CtlSync, At, DispatchInv, TypeInv, TypeOK, StoreTypeOK, CtlTypeOK, Obj, Key, Live
<1>2. ctl' = Resting /\ jobs' = jobs /\ jobCache' = jobCache /\ reports' = reports
  BY DEF CtlSync, Return, OnlyRJobs
<1>3. PICK new, a, b, c, e :
        /\ new = Synced(Obj, ctl.job)
        /\ PatchRJob(Key, [Live EXCEPT !.phase = a, !.retry = b, !.completedAt = c,
                                       !.message = Merged(Obj.message, new.message, @),
                                       !.recorded = e])
  BY Zenon DEF CtlSync
<1>4. new.message = IF ctl.message # "none" THEN ctl.message ELSE Obj.message
  <2>1. PICK a1, b1, c1 :
          new = [Obj EXCEPT !.phase = a1, !.retry = b1, !.completedAt = c1,
                            !.message = IF ctl.message # "none" THEN ctl.message ELSE @]
    BY <1>3, Zenon DEF Synced
  <2> QED BY <1>1, <2>1 DEF RJob
<1>5. PICK r : r = [Live EXCEPT !.phase = a, !.retry = b, !.completedAt = c,
                                !.message = Merged(Obj.message, new.message, @),
                                !.recorded = e]
  OBVIOUS
<1>6. Live # NoObject => /\ r.uid = Live.uid
                         /\ r.message = Merged(Obj.message, new.message, Live.message)
  BY <1>1, <1>5 DEF RJob
<1>7. rjobs' = IF rjobs[Key] = NoObject THEN rjobs ELSE [rjobs EXCEPT ![Key] = r]
  BY <1>3, <1>5, Zenon DEF PatchRJob
<1>8. \A f \in FP : f # Key => rjobs'[f] = rjobs[f]
  BY <1>1, <1>7 DEF StoreTypeOK
<1>9. rjobs'[Key] # NoObject => Live # NoObject /\ rjobs'[Key] = r
  BY <1>1, <1>7 DEF StoreTypeOK
<1>10. Merged(Obj.message, new.message, Live.message)
         = IF ctl.message \in {"none", Obj.message} THEN Live.message ELSE ctl.message
  BY <1>4 DEF Merged
<1> QED BY <1>1, <1>2, <1>6, <1>8, <1>9, <1>10

(* Every step but a fault keeps ReportDue. *)
LEMMA NextReportDue ==
  ASSUME DispatchInv, OwnersKnown, ReportDue, [Next]_vars, ~Fault
  PROVE  ReportDue'
<1>1. TypeInv /\ ctl \in CtlState /\ nextUid \in Nat
  BY OwnerType DEF DispatchInv, TypeInv, TypeOK, CtlTypeOK
<1>2. CASE Step /\ CtlSync
  <2>1. ctl'.pc = "idle" /\ ctl'.message = "none"
    <3>1. Resting.pc = "idle" /\ Resting.message = "none"
      BY DEF Resting
    <3>2. ctl' = Resting
      BY <1>2, SyncWrites, Zenon
    <3> QED BY <3>1, <3>2
  <2>2. ASSUME DryRun, NEW f \in FP, NEW j, j \in {jobs[f], jobCache[f]},
               j # NoObject, j.succeeded = 1, rjobs'[f] # NoObject,
               rjobs'[f].message = "none", j.owner = rjobs'[f].uid
        PROVE  f \in reports'
    <3>1. CASE f # Key
      <4>1. rjobs'[f] = rjobs[f] /\ reports' = reports
        BY <1>2, <3>1, SyncWrites
      <4>2. Owed(f, j)
        BY <2>2, <4>1 DEF Owed
      <4> QED BY <2>2, <3>1, <4>1, <4>2 DEF ReportDue, Key
    <3>2. CASE f = Key
      <4>1. /\ rjobs[f] # NoObject /\ rjobs'[f].uid = rjobs[f].uid
            /\ rjobs'[f].message = IF ctl.message \in {"none", Obj.message}
                                   THEN rjobs[f].message ELSE ctl.message
            /\ reports' = reports
        BY <1>2, <2>2, <3>2, SyncWrites
      <4>2. ctl.message = "none" /\ rjobs[f].message = "none"
        BY <2>2, <4>1 DEF ReportDue, Obj
      <4>3. Owed(f, j)
        BY <2>2, <4>1, <4>2 DEF Owed
      <4> QED BY <2>2, <4>1, <4>2, <4>3 DEF ReportDue
    <3> QED BY <3>1, <3>2
  <2>3. jobs' = jobs /\ jobCache' = jobCache
    BY <1>2, SyncWrites
  <2> QED BY <2>1, <2>2, <2>3 DEF ReportDue, Owed
<1>3. CASE ~(Step /\ CtlSync) /\ ctl' = ctl
  <2>1. Step /\ CtlFetchReport => ctl'.pc # ctl.pc
    BY <1>1 DEF CtlFetchReport, At, CtlState
  <2>2. reports \subseteq reports'
    BY <1>1, <1>3, <2>1, StepFrame
  <2>3. ASSUME ctl.message = "unavailable", rjobs'[ctl.key] # NoObject,
               rjobs'[ctl.key].message = "none"
        PROVE  ctl.job.owner # rjobs'[ctl.key].uid
    <3>1. /\ ctl.pc = "sync" /\ ctl.key \in FP
          /\ ctl.job # NoObject /\ ctl.job.owner < nextUid /\ ctl.job.owner \in Nat
      BY <1>1, <2>3, OwnerType, StoreAssumption
         DEF ReportDue, OwnersKnown, TypeInv, TypeOK, CtlTypeOK
    <3>2. ASSUME NEW p \in Provider, rjobs'[ctl.key] = NewRJob(nextUid, prv[p].src)
          PROVE  ctl.job.owner # rjobs'[ctl.key].uid
      <4>1. NewRJob(nextUid, prv[p].src).uid = nextUid
        BY FreshRJob
      <4>2. ctl.job.owner # nextUid
        BY <1>1, <3>1
      <4> QED BY <3>2, <4>1, <4>2, Zenon
    <3>3. CASE /\ rjobs[ctl.key] # NoObject /\ rjobs'[ctl.key].uid = rjobs[ctl.key].uid
               /\ rjobs'[ctl.key].message = rjobs[ctl.key].message
      BY <2>3, <3>3 DEF ReportDue
    <3> QED BY <1>1, <1>3, <2>3, <3>1, <3>2, <3>3, Incarnations
  <2>4. ASSUME DryRun, NEW f \in FP
        PROVE  /\ Owed(f, jobs[f])' => f \in reports' \/ (ctl.key = f /\ ctl.message = "report")
               /\ Owed(f, jobCache[f])' => f \in reports' \/ (ctl.key = f /\ ctl.message = "report")
               /\ Owed(f, ctl.job)' /\ ctl.pc = "report" /\ ctl.key = f => f \in reports'
    BY <1>3, <2>2, <2>4, OwedBefore DEF ReportDue
  <2>5. /\ ctl.pc = "report" => DryRun /\ ctl.job.succeeded = 1 /\ ctl.obj.message = "none"
        /\ ctl.message # "none" => ctl.pc = "sync" /\ ctl.obj.message = "none"
    BY DEF ReportDue
  <2> QED BY <1>3, <2>3, <2>4, <2>5 DEF ReportDue
<1>4. CASE Step /\ CtlReadJob
  <2>1. PICK pc \in {"report", "sync"} :
          /\ ctl' = [ctl EXCEPT !.pc = pc, !.job = OwnedJob]
          /\ pc = "report" => /\ DryRun /\ Obj.message = "none"
                              /\ SyncPhaseFromJob(OwnedJob) = "Succeeded"
    BY <1>4, Zenon DEF CtlReadJob
  <2>2. /\ ctl'.pc = pc /\ ctl'.job = OwnedJob /\ ctl'.obj = ctl.obj
        /\ ctl'.key = ctl.key /\ ctl'.message = ctl.message
    BY <1>1, <2>1 DEF CtlState
  <2>3. /\ ctl.pc = "decide" /\ OwnedJob # NoObject /\ Key \in FP
        /\ OwnedJob \in {jobs[Key], jobCache[Key]}
        /\ OwnedJob \in Job
    BY <1>1, <1>4 DEF CtlReadJob, At, OwnedJob, JobView, Key, TypeInv, TypeOK, StoreTypeOK,
       CtlTypeOK
  <2>4. ctl.message = "none"
    BY <2>3 DEF ReportDue
  <2>5. pc = "report" => DryRun /\ OwnedJob.succeeded = 1 /\ ctl.obj.message = "none"
    BY <2>1, <2>3 DEF SyncPhaseFromJob, Job, Obj
  <2>6. rjobs' = rjobs /\ jobs' = jobs /\ jobCache' = jobCache /\ reports' = reports
    BY <1>4 DEF CtlReadJob, store
  <2>7. ASSUME DryRun, NEW f \in FP, NEW j, j \in {jobs[f], jobCache[f]}, Owed(f, j)
        PROVE  f \in reports
    BY <2>4, <2>7 DEF ReportDue
  <2>8. ASSUME NEW f \in FP, NEW j, j # NoObject, j.succeeded = 1, rjobs'[f] # NoObject,
               rjobs'[f].message = "none", j.owner = rjobs'[f].uid
        PROVE  Owed(f, j)
    BY <2>6, <2>8 DEF Owed
  <2>9. ASSUME DryRun, NEW f \in FP
        PROVE  /\ Owed(f, jobs[f])' => f \in reports'
               /\ Owed(f, jobCache[f])' => f \in reports'
               /\ Owed(f, ctl.job)' /\ ctl'.key = f => f \in reports'
    <3>1. \A j \in {jobs[f], jobCache[f]} :
            /\ j # NoObject /\ j.succeeded = 1 /\ rjobs'[f] # NoObject
            /\ rjobs'[f].message = "none" /\ j.owner = rjobs'[f].uid
            => f \in reports'
      BY <2>6, <2>7, <2>8, <2>9
    <3>2. ctl'.key = f => ctl'.job \in {jobs[f], jobCache[f]}
      BY <2>2, <2>3 DEF Key
    <3> QED BY <2>6, <3>1, <3>2 DEF Owed
  <2> QED BY <2>2, <2>4, <2>5, <2>9 DEF ReportDue
<1>5. CASE Step /\ CtlFetchReport
  <2>1. PICK m : /\ ctl' = [ctl EXCEPT !.pc = "sync", !.message = m]
                 /\ m = IF Key \in reports THEN "report" ELSE "unavailable"
    BY <1>5, Zenon DEF CtlFetchReport
  <2>2. /\ ctl'.pc = "sync" /\ ctl'.job = ctl.job /\ ctl'.obj = ctl.obj
        /\ ctl'.key = ctl.key /\ ctl'.message = m
    BY <1>1, <2>1 DEF CtlState
  <2>3. /\ rjobs' = rjobs /\ jobs' = jobs /\ jobCache' = jobCache
        /\ reports' = reports \ {Key} /\ ctl.pc = "report"
    BY <1>5 DEF CtlFetchReport, At
  <2>4. DryRun /\ ctl.job.succeeded = 1 /\ ctl.obj.message = "none" /\ ctl.message = "none"
    BY <2>3 DEF ReportDue
  <2>5. ctl.job # NoObject /\ Key \in FP
    BY <1>1, <2>3, StoreAssumption DEF TypeInv, TypeOK, CtlTypeOK, Key
  <2>6. ASSUME m = "unavailable", rjobs[Key] # NoObject, rjobs[Key].message = "none"
        PROVE  ctl.job.owner # rjobs[Key].uid
    BY <2>1, <2>3, <2>4, <2>5, <2>6 DEF ReportDue, Owed, Key
  <2>7. ASSUME NEW f \in FP, NEW j, j \in {jobs[f], jobCache[f]}, Owed(f, j)
        PROVE  f \in reports' \/ (ctl.key = f /\ m = "report")
    BY <2>1, <2>3, <2>4, <2>7 DEF ReportDue, Key
  <2>8. ASSUME NEW f \in FP, NEW j, j # NoObject, j.succeeded = 1, rjobs'[f] # NoObject,
               rjobs'[f].message = "none", j.owner = rjobs'[f].uid
        PROVE  Owed(f, j)
    BY <2>3, <2>8 DEF Owed
  <2> QED BY <2>2, <2>3, <2>4, <2>6, <2>7, <2>8 DEF ReportDue, Owed, Key
<1>6. CASE /\ ~(Step /\ CtlSync) /\ ~(Step /\ CtlFetchReport)
           /\ ctl.pc \notin {"report", "sync"} /\ ctl'.pc # "report"
           /\ ctl'.message \in {"none", ctl.message}
  <2>1. ctl.message = "none" /\ ctl'.message = "none"
    BY <1>6 DEF ReportDue
  <2>2. reports \subseteq reports'
    BY <1>1, <1>6, StepFrame
  <2>3. ASSUME DryRun, NEW f \in FP
        PROVE  /\ Owed(f, jobs[f])' => f \in reports'
               /\ Owed(f, jobCache[f])' => f \in reports'
    BY <1>6, <2>1, <2>2, <2>3, OwedBefore DEF ReportDue
  <2> QED BY <1>6, <2>1, <2>3 DEF ReportDue
<1> QED BY <1>1, <1>2, <1>3, <1>4, <1>5, <1>6, CtlMemory

(* In a behaviour without API failures, "no report" is written only for    *)
(* the Job of an incarnation that is gone: the report of a dry run reaches *)
(* the RemediationJob that dispatched it.  For any number of findings and  *)
(* sources and whatever caches lag.                                        *)
THEOREM ReportsArrive == Spec => ReportNotLost
<1>1. Init => ReportInv
  <2>1. Init => DispatchInv
    BY InitDispatch
  <2>2. Init => OwnersKnown /\ ReportDue
    <3> SUFFICES ASSUME Init
                 PROVE  OwnersKnown /\ ReportDue
      OBVIOUS
    <3>1. \A f \in FP : rjobs[f] = NoObject /\ jobs[f] = NoObject /\ jobCache[f] = NoObject
      BY DEF Init, InitStore
    <3>2. ctl.pc = "idle" /\ ctl.job = NoObject /\ ctl.message = "none"
      BY DEF Init, InitCtl, Resting
    <3> QED BY <3>1, <3>2 DEF OwnersKnown, ReportDue, Owed
  <2>3. Init => faults <= MaxFaults
    <3>1. MaxFaults \in Nat /\ (Init => faults = MaxFaults)
      BY NumberAssumption, Zenon DEF Init
    <3> QED BY <3>1
  <2> QED BY <2>1, <2>2, <2>3 DEF ReportInv
<1>2. ReportInv /\ [Next]_vars => ReportInv'
  <2> SUFFICES ASSUME ReportInv, [Next]_vars
               PROVE  ReportInv'
    OBVIOUS
  <2>1. DispatchInv' /\ OwnersKnown'
    BY NextDispatch, NextOwners DEF ReportInv
  <2>2. faults \in Nat /\ MaxFaults \in Nat /\ faults <= MaxFaults /\ TypeInv
    BY NumberAssumption DEF ReportInv, DispatchInv, TypeInv, TypeOK
  <2>3. faults' = faults \/ (Fault /\ faults' = faults - 1)
    BY <2>2, StepFrame
  <2>4. faults' <= MaxFaults
    BY <2>2, <2>3
  <2>5. ASSUME faults' = MaxFaults
        PROVE  ReportDue'
    <3>1. faults = MaxFaults /\ ~Fault
      BY <2>2, <2>3, <2>5 DEF Fault
    <3> QED BY <3>1, NextReportDue DEF ReportInv
  <2> QED BY <2>1, <2>4, <2>5 DEF ReportInv
<1>3. ReportInv /\ [Next]_vars =>
        [\A f \in FP :
           /\ rjobs[f] # NoObject /\ rjobs[f].message = "none"
           /\ rjobs'[f] # NoObject /\ rjobs'[f].message = "unavailable"
           => ctl.job.owner # rjobs[f].uid \/ faults # MaxFaults]_vars
  <2> SUFFICES ASSUME ReportInv, [Next]_vars, faults = MaxFaults, NEW f \in FP,
                      rjobs[f] # NoObject, rjobs[f].message = "none",
                      rjobs'[f] # NoObject, rjobs'[f].message = "unavailable"
               PROVE  ctl.job.owner # rjobs[f].uid
    OBVIOUS
  <2>1. DispatchInv /\ TypeInv /\ ReportDue
    BY DEF ReportInv, DispatchInv
  <2>2. \A p \in Provider : rjobs'[f] # NewRJob(nextUid, prv[p].src)
    BY FreshRJob
  <2>3. CtlSync
    BY <2>1, <2>2, Incarnations
  <2>4. f = Key /\ ctl.message = "unavailable"
    BY <2>1, <2>3, SyncWrites
  <2> QED BY <2>1, <2>4 DEF ReportDue, Key
<1> QED BY <1>1, <1>2, <1>3, PTL DEF Spec, ReportNotLost
=============================================================================
