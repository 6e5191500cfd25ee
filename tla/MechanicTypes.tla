---------------------------- MODULE MechanicTypes ----------------------------
(***************************************************************************)
(* Type correctness of Mechanic, for every value of its constants: the     *)
(* controller, the cluster, the providers, and the theorem that combines   *)
(* them.                                                                   *)
(*                                                                         *)
(* TypeOK is not inductive by itself: a pod failure adds one to a Job's    *)
(* count of failed pods, which stays within BackoffLimit + 1 because the   *)
(* Job controller has finished a Job that reached it.  JobsEnd says so.    *)
(***************************************************************************)
EXTENDS Mechanic, TLAPS

JobsEnd ==
  \A f \in FP : jobs[f] # NoObject /\ jobs[f].finishedAt = NoTime
                => jobs[f].failed <= BackoffLimit

TypeInv == TypeOK /\ JobsEnd

-----------------------------------------------------------------------------
(* A patch leaves the store well-formed when what it writes is.            *)
LEMMA PatchType ==
  ASSUME NEW f \in FP, NEW r, StoreTypeOK,
         rjobs[f] # NoObject => r \in RJob,
         PatchRJob(f, r),
         UNCHANGED <<jobs, rjCache, jobCache, reports, now, spawned>>
  PROVE  StoreTypeOK'
<1>1. rjobs' \in [FP -> RJob \cup {NoObject}]
  BY DEF StoreTypeOK, PatchRJob
<1> QED BY <1>1 DEF StoreTypeOK

(* A delete leaves the store well-formed. *)
LEMMA DeleteType ==
  ASSUME NEW f \in FP, StoreTypeOK, DeleteRJob(f),
         UNCHANGED <<jobs, rjCache, jobCache, reports, now, spawned>>
  PROVE  StoreTypeOK'
<1>1. rjobs' \in [FP -> RJob \cup {NoObject}]
  BY DEF StoreTypeOK, DeleteRJob
<1> QED BY <1>1 DEF StoreTypeOK

(* What the caches show is well-formed. *)
LEMMA ViewType ==
  ASSUME StoreTypeOK, NEW f \in FP
  PROVE  /\ RJobView[f] # NoObject => RJobView[f] \in RJob
         /\ JobView[f] # NoObject => JobView[f] \in Job
BY DEF StoreTypeOK, RJobView, JobView

(* A correlation group only has the candidate and its peers as members. *)
LEMMA GroupMembers ==
  ASSUME NEW c, NEW peers, NEW created, NEW alive
  PROVE  Evaluate(c, peers, created, alive).members \subseteq peers \cup {c}
<1> DEFINE E == Evaluate(c, peers, created, alive)
<1>1. EvaluatePodCandidate(c, peers, created, alive).members \subseteq peers \cup {c}
  BY DEF EvaluatePodCandidate, NoMatch, Match
<1>2. EvaluatePVCCandidate(c, peers, alive).members \subseteq peers \cup {c}
  BY DEF EvaluatePVCCandidate, NoMatch, Match
<1>3. PVCPodRule(c, peers, created, alive).members \subseteq peers \cup {c}
  <2>1. NoMatch.members \subseteq peers \cup {c}
    BY DEF NoMatch
  <2> QED BY <1>1, <1>2, <2>1 DEF PVCPodRule
<1>4. SameNamespaceParentRule(c, peers, created).members \subseteq peers \cup {c}
  BY DEF SameNamespaceParentRule, NoMatch, Match
<1>5. MultiPodSameNodeRule(c, peers, created).members \subseteq peers \cup {c}
  BY Zenon DEF MultiPodSameNodeRule, MultiPodGroup, NoMatch, Match
<1> QED BY <1>3, <1>4, <1>5 DEF Evaluate

(* The fields of a RemediationJob that patches write. *)
LEMMA RJobFields ==
  \A r \in RJob :
    /\ \A x \in Phase : [r EXCEPT !.phase = x] \in RJob
    /\ \A x \in Nat : [r EXCEPT !.retry = x] \in RJob
    /\ \A x \in Int : [r EXCEPT !.completedAt = x] \in RJob
    /\ \A x \in BOOLEAN : [r EXCEPT !.recorded = x] \in RJob
    /\ \A x \in BOOLEAN : [r EXCEPT !.merged = x] \in RJob
    /\ \A x \in Int : [r EXCEPT !.mergedAt = x] \in RJob
    /\ \A x \in Nat : [r EXCEPT !.group = x] \in RJob
    /\ \A x \in Nat : [r EXCEPT !.label = x] \in RJob
    /\ \A x \in Message : [r EXCEPT !.message = x] \in RJob
BY DEF RJob

(* The fields of the controller goroutine. *)
LEMMA CtlFields ==
  \A c \in CtlState :
    /\ \A x \in CtlPC : [c EXCEPT !.pc = x] \in CtlState
    /\ \A x \in FP : [c EXCEPT !.key = x] \in CtlState
    /\ \A x \in RJob : [c EXCEPT !.obj = x] \in CtlState
    /\ \A x \in Job : [c EXCEPT !.job = x] \in CtlState
    /\ \A x \in SUBSET FP : [c EXCEPT !.peers = x] \in CtlState
    /\ \A x \in SUBSET FP : [c EXCEPT !.findings = x] \in CtlState
    /\ \A x \in Nat : [c EXCEPT !.gid = x] \in CtlState
    /\ \A x \in Message : [c EXCEPT !.message = x] \in CtlState
<1> SUFFICES ASSUME NEW c \in CtlState
    PROVE  /\ \A x \in CtlPC : [c EXCEPT !.pc = x] \in CtlState
           /\ \A x \in FP : [c EXCEPT !.key = x] \in CtlState
           /\ \A x \in RJob : [c EXCEPT !.obj = x] \in CtlState
           /\ \A x \in Job : [c EXCEPT !.job = x] \in CtlState
           /\ \A x \in SUBSET FP : [c EXCEPT !.peers = x] \in CtlState
           /\ \A x \in SUBSET FP : [c EXCEPT !.findings = x] \in CtlState
           /\ \A x \in Nat : [c EXCEPT !.gid = x] \in CtlState
           /\ \A x \in Message : [c EXCEPT !.message = x] \in CtlState
  OBVIOUS
<1>1. \A x \in CtlPC : [c EXCEPT !.pc = x] \in CtlState
  BY DEF CtlState
<1>2. \A x \in FP : [c EXCEPT !.key = x] \in CtlState
  BY DEF CtlState
<1>3. \A x \in RJob : [c EXCEPT !.obj = x] \in CtlState
  BY DEF CtlState
<1>4. \A x \in Job : [c EXCEPT !.job = x] \in CtlState
  BY DEF CtlState
<1>5. \A x \in SUBSET FP : [c EXCEPT !.peers = x] \in CtlState
  BY DEF CtlState
<1>6. \A x \in SUBSET FP : [c EXCEPT !.findings = x] \in CtlState
  BY DEF CtlState
<1>7. \A x \in Nat : [c EXCEPT !.gid = x] \in CtlState
  BY DEF CtlState
<1>8. \A x \in Message : [c EXCEPT !.message = x] \in CtlState
  BY DEF CtlState
<1> QED BY <1>1, <1>2, <1>3, <1>4, <1>5, <1>6, <1>7, <1>8, Zenon

(* What a well-formed RemediationJob holds in the fields that are merged.  *)
LEMMA RJobReads ==
  ASSUME NEW r \in RJob
  PROVE  /\ r.uid \in Nat /\ r.created \in Nat /\ r.src \in Src /\ r.phase \in Phase
         /\ r.retry \in Nat /\ r.completedAt \in Int /\ r.recorded \in BOOLEAN
         /\ r.group \in Nat /\ r.label \in Nat
         /\ r.message \in Message
BY DEF RJob

(* A merge patch stores the new value or keeps the stored one. *)
LEMMA MergedType ==
  ASSUME NEW T, NEW old, NEW new \in T, NEW stored \in T
  PROVE  Merged(old, new, stored) \in T
BY DEF Merged

(* The phase that is read off a Job is one of the phases. *)
LEMMA SyncPhaseType ==
  ASSUME NEW j
  PROVE  SyncPhaseFromJob(j) \in Phase
BY DEF SyncPhaseFromJob, Phase

(* The in-memory object after the sync from the Job is well-formed. *)
LEMMA SyncedType ==
  ASSUME NEW o \in RJob, NEW j, now \in Int, ctl.message \in Message
  PROVE  Synced(o, j) \in RJob
<1> DEFINE new == SyncPhaseFromJob(j)
           retry == IF new = "Failed" THEN o.retry + 1 ELSE o.retry
           phase == IF new = "Failed" /\ retry >= EffectiveMaxRetries
                    THEN "PermanentlyFailed" ELSE new
           at == IF new \in {"Succeeded", "Failed"} /\ o.completedAt = NoTime
                 THEN now ELSE o.completedAt
           message == IF ctl.message # "none" THEN ctl.message ELSE o.message
<1>1. o.retry \in Nat /\ o.completedAt \in Int /\ o.message \in Message
  BY RJobReads
<1>2. retry \in Nat
  <2>1. o.retry \in Nat
    BY <1>1
  <2>2. o.retry + 1 \in Nat
    BY <2>1
  <2> QED BY <2>1, <2>2, Zenon
<1>3. at \in Int
  BY <1>1
<1>4. message \in Message
  BY <1>1
<1>5. phase \in Phase
  BY SyncPhaseType DEF Phase
<1>6. Synced(o, j) = [o EXCEPT !.phase = phase, !.retry = retry, !.completedAt = at,
                        !.message = message]
  BY DEF Synced
<1> HIDE DEF retry, phase, at, message
<1>7. [o EXCEPT !.phase = phase, !.retry = retry, !.completedAt = at, !.message = message] \in RJob
  BY <1>2, <1>3, <1>4, <1>5, RJobFields, Zenon
<1> QED BY <1>6, <1>7

(* A reconcile that returns leaves the controller goroutine well-formed. *)
LEMMA CtlReturnType ==
  ASSUME CtlTypeOK, Return, nextGroup' = nextGroup
  PROVE  CtlTypeOK'
<1>1. Resting \in CtlState /\ Resting.pc = "idle"
  BY DEF Resting, CtlState, CtlPC, NoGroup, Message
<1> QED BY <1>1 DEF Return, CtlTypeOK

(* A step of the controller from one program point to another, with what   *)
(* the new one reads in place.                                             *)
LEMMA CtlMoveType ==
  ASSUME CtlTypeOK, ctl.pc # "idle", ctl' \in CtlState,
         nextGroup' \in Nat \ {0}, ctl'.key = ctl.key, ctl'.obj \in RJob,
         ctl'.pc \in {"report", "sync", "adopt"} => ctl'.job \in Job
  PROVE  CtlTypeOK'
BY DEF CtlTypeOK

(* A step that only moves to a program point that reads no Job. *)
LEMMA CtlGotoType ==
  ASSUME CtlTypeOK, ctl.pc # "idle", NEW pc \in CtlPC \ {"report", "sync", "adopt"}, Goto(pc),
         nextGroup' = nextGroup
  PROVE  CtlTypeOK'
<1>1. ctl \in CtlState /\ ctl.obj \in RJob /\ ctl.key \in FP
  BY DEF CtlTypeOK
<1>2. ctl' \in CtlState
  BY <1>1, CtlFields DEF Goto
<1>3. ctl'.pc = pc /\ ctl'.key = ctl.key /\ ctl'.obj = ctl.obj
  BY <1>1 DEF Goto, CtlState
<1> QED BY <1>1, <1>2, <1>3, CtlMoveType DEF CtlTypeOK

(* A patch of the reconciled object by a reconcile that then returns. *)
LEMMA CtlPatchReturnType ==
  ASSUME TypeInv, ctl.pc # "idle", NEW r, Live # NoObject => r \in RJob,
         PatchRJob(Key, r), Return, OnlyRJobs, UNCHANGED nextGroup
  PROVE  StoreTypeOK' /\ CtlTypeOK' /\ JobsEnd'
<1>1. ctl.key \in FP
  BY DEF TypeInv, TypeOK, CtlTypeOK
<1>2. StoreTypeOK'
  BY <1>1, PatchType DEF TypeInv, TypeOK, Key, Live, OnlyRJobs
<1>3. CtlTypeOK'
  BY CtlReturnType DEF TypeInv, TypeOK
<1>4. JobsEnd'
  BY DEF TypeInv, JobsEnd, OnlyRJobs
<1> QED BY <1>2, <1>3, <1>4

(* The reconciles that end in one patch: phase initialisation, tombstones, *)
(* the sync from the Job, refusal, adoption and the Dispatched patch.      *)
LEMMA CtlPatchType ==
  ASSUME TypeInv,
         CtlInitPhase \/ CtlSetCompletedAt \/ CtlStamp \/ CtlSync
         \/ CtlRefuse \/ CtlAdopt \/ CtlDispatched
  PROVE  StoreTypeOK' /\ CtlTypeOK' /\ JobsEnd'
<1>1. ctl.pc # "idle"
  BY DEF CtlInitPhase, CtlSetCompletedAt, CtlStamp, CtlSync, CtlRefuse, CtlAdopt,
         CtlDispatched, At
<1>2. Obj \in RJob /\ Key \in FP /\ now \in Int
  BY <1>1 DEF TypeInv, TypeOK, CtlTypeOK, StoreTypeOK, Obj, Key
<1>3. Live # NoObject => Live \in RJob
  BY <1>2 DEF TypeInv, TypeOK, StoreTypeOK, Live, Key
<1>4. {"New", "Pending", "PermanentlyFailed", "Dispatched"} \subseteq Phase
  BY DEF Phase
<1>5. CASE CtlInitPhase
  <2>1. Live # NoObject => [Live EXCEPT !.phase = "Pending"] \in RJob
    BY <1>3, <1>4, RJobFields, Zenon
  <2> QED BY <1>1, <1>5, <2>1, CtlPatchReturnType DEF CtlInitPhase
<1>6. CASE CtlSetCompletedAt
  <2>1. Live # NoObject => [Live EXCEPT !.completedAt = now] \in RJob
    BY <1>2, <1>3, RJobFields, Zenon
  <2> QED BY <1>1, <1>6, <2>1, CtlPatchReturnType DEF CtlSetCompletedAt
<1>7. CASE CtlStamp
  <2> DEFINE r == [Live EXCEPT !.completedAt = Merged(Obj.completedAt, now, Live.completedAt)]
  <2>1. Live # NoObject => r \in RJob
    BY <1>2, <1>3, RJobReads, MergedType, RJobFields, Zenon
  <2>2. PatchRJob(Key, r) /\ Return /\ OnlyRJobs /\ UNCHANGED nextGroup
    BY <1>7 DEF CtlStamp
  <2> HIDE DEF r
  <2> QED BY <1>1, <2>1, <2>2, CtlPatchReturnType
<1>8. CASE CtlRefuse
  <2>1. Live # NoObject =>
          [Live EXCEPT !.phase = "PermanentlyFailed", !.recorded = Obj.recorded] \in RJob
    BY <1>2, <1>3, <1>4, RJobReads, RJobFields, Zenon
  <2> QED BY <1>1, <1>8, <2>1, CtlPatchReturnType DEF CtlRefuse
<1>9. CASE CtlDispatched
  <2>1. Live # NoObject =>
          [Live EXCEPT !.phase = "Dispatched", !.recorded = Obj.recorded] \in RJob
    BY <1>2, <1>3, <1>4, RJobReads, RJobFields, Zenon
  <2> QED BY <1>1, <1>9, <2>1, CtlPatchReturnType DEF CtlDispatched
<1>10. CASE CtlAdopt
  <2> DEFINE r == [Live EXCEPT !.phase =
                     Merged(Obj.phase, SyncPhaseFromJob(ctl.job), Live.phase)]
  <2>1. Live # NoObject => r \in RJob
    BY <1>2, <1>3, RJobReads, SyncPhaseType, MergedType, RJobFields, Zenon
  <2>2. PatchRJob(Key, r) /\ Return /\ OnlyRJobs /\ UNCHANGED nextGroup
    BY <1>10 DEF CtlAdopt
  <2> HIDE DEF r
  <2> QED BY <1>1, <2>1, <2>2, CtlPatchReturnType
<1>11. CASE CtlSync
  <2> DEFINE new == Synced(Obj, ctl.job)
             term == SyncPhaseFromJob(ctl.job) \in {"Succeeded", "Failed"}
             r == [Live EXCEPT
                     !.phase = Merged(Obj.phase, new.phase, Live.phase),
                     !.retry = Merged(Obj.retry, new.retry, Live.retry),
                     !.completedAt = Merged(Obj.completedAt, new.completedAt, Live.completedAt),
                     !.message = Merged(Obj.message, new.message, Live.message),
                     !.recorded = IF term THEN Obj.recorded ELSE Live.recorded]
  <2>1. new \in RJob
    BY <1>2, SyncedType DEF TypeInv, TypeOK, CtlTypeOK, CtlState
  <2>2. Live # NoObject =>
          /\ Merged(Obj.phase, new.phase, Live.phase) \in Phase
          /\ Merged(Obj.retry, new.retry, Live.retry) \in Nat
          /\ Merged(Obj.completedAt, new.completedAt, Live.completedAt) \in Int
          /\ Merged(Obj.message, new.message, Live.message) \in Message
          /\ (IF term THEN Obj.recorded ELSE Live.recorded) \in BOOLEAN
    BY <1>2, <1>3, <2>1, RJobReads, MergedType, Zenon
  <2>3. Live # NoObject => r \in RJob
    BY <1>3, <2>2, RJobFields, Zenon
  <2>4. PatchRJob(Key, r) /\ Return /\ OnlyRJobs /\ UNCHANGED nextGroup
    BY <1>11, Zenon DEF CtlSync
  <2> HIDE DEF r
  <2> QED BY <1>1, <2>3, <2>4, CtlPatchReturnType
<1> QED BY <1>5, <1>6, <1>7, <1>8, <1>9, <1>10, <1>11

(* The reads of the controller, which write nothing. *)
LEMMA CtlReadType ==
  ASSUME TypeInv,
         (\E f \in FP : CtlGet(f)) \/ CtlRecordPRFails \/ CtlReadJob \/ CtlAwaitPrimary(Alive)
         \/ CtlSoloFallback \/ CtlLead(Alive) \/ CtlNoGroup(Alive) \/ CtlRecover \/ CtlGate
         \/ CtlFindJob
  PROVE  StoreTypeOK' /\ CtlTypeOK' /\ JobsEnd'
<1>1. UNCHANGED store
  BY Zenon DEF CtlGet, CtlRecordPRFails, CtlReadJob, CtlAwaitPrimary, CtlSoloFallback, CtlLead,
         CtlNoGroup, CtlRecover, CtlGate, CtlFindJob
<1>2. StoreTypeOK' /\ JobsEnd'
  BY <1>1 DEF store, TypeInv, TypeOK, StoreTypeOK, JobsEnd
<1>3. ctl \in CtlState /\ nextGroup \in Nat \ {0} /\ CtlTypeOK /\ StoreTypeOK
  BY DEF TypeInv, TypeOK, CtlTypeOK
<1>4. ctl.pc # "idle" => ctl.key \in FP /\ ctl.obj \in RJob
  BY <1>3 DEF CtlTypeOK
<1>5. CASE \E f \in FP : CtlGet(f)
  <2>1. PICK f \in FP : CtlGet(f)
    BY <1>5
  <2>2. PICK pc \in {"record", "decide"} :
          ctl' = [Resting EXCEPT !.pc = pc, !.key = f, !.obj = RJobView[f]]
    BY <2>1, Zenon DEF CtlGet
  <2>3. RJobView[f] \in RJob /\ nextGroup' = nextGroup
    BY Zenon, <1>3, <2>1, ViewType DEF CtlGet
  <2>4. Resting \in CtlState /\ pc \in CtlPC
    BY <2>2 DEF Resting, CtlState, CtlPC, NoGroup, Message
  <2>5. ctl' \in CtlState
    BY <2>2, <2>3, <2>4, CtlFields, Zenon
  <2>6. ctl'.pc = pc /\ ctl'.key = f /\ ctl'.obj = RJobView[f]
    BY <2>2, <2>4 DEF CtlState
  <2> QED BY <1>2, <1>3, <2>2, <2>3, <2>5, <2>6 DEF CtlTypeOK
<1>6. CASE CtlRecordPRFails
  <2>1. ctl.pc # "idle" /\ nextGroup' = nextGroup /\ "decide" \in CtlPC
    BY <1>6 DEF CtlRecordPRFails, At, CtlPC
  <2>2. ctl' = [ctl EXCEPT !.pc = "decide", !.obj = [ctl.obj EXCEPT !.recorded = TRUE]]
    BY <1>6 DEF CtlRecordPRFails
  <2>3. [ctl.obj EXCEPT !.recorded = TRUE] \in RJob
    BY Zenon, <1>4, <2>1, RJobFields
  <2>4. ctl' \in CtlState
    BY <1>3, <2>1, <2>2, <2>3, CtlFields, Zenon
  <2>5. ctl'.pc = "decide" /\ ctl'.key = ctl.key /\ ctl'.obj = [ctl.obj EXCEPT !.recorded = TRUE]
    BY <1>3, <2>2 DEF CtlState
  <2> QED BY <1>2, <1>3, <2>1, <2>3, <2>4, <2>5, CtlMoveType
<1>7. CASE CtlReadJob \/ CtlFindJob
  <2>1. ctl.pc # "idle" /\ nextGroup' = nextGroup /\ OwnedJob # NoObject
    BY <1>7 DEF CtlReadJob, CtlFindJob, At
  <2>2. PICK pc \in {"report", "sync", "adopt"} :
          ctl' = [ctl EXCEPT !.pc = pc, !.job = OwnedJob]
    BY <1>7, Zenon DEF CtlReadJob, CtlFindJob
  <2>3. OwnedJob \in Job
    BY <1>3, <1>4, <2>1, ViewType DEF OwnedJob, Key
  <2>4. pc \in CtlPC
    BY <2>2 DEF CtlPC
  <2>5. ctl' \in CtlState
    BY <1>3, <2>2, <2>3, <2>4, CtlFields, Zenon
  <2>6. ctl'.key = ctl.key /\ ctl'.obj = ctl.obj /\ ctl'.job = OwnedJob
    BY <1>3, <2>2 DEF CtlState
  <2> QED BY <1>2, <1>3, <1>4, <2>1, <2>3, <2>5, <2>6, CtlMoveType
<1>8. CASE CtlAwaitPrimary(Alive) \/ CtlSoloFallback
  <2>1. ctl.pc # "idle" /\ nextGroup' = nextGroup
    BY Zenon, <1>8 DEF CtlAwaitPrimary, CtlSoloFallback, Undispatched, At
  <2>2. PICK pc \in {"await", "recover"}, g \in Nat : ctl' = [ctl EXCEPT !.pc = pc, !.gid = g]
    <3>1. CASE CtlSoloFallback
      BY Zenon, <3>1 DEF CtlSoloFallback, NoGroup
    <3>2. CASE CtlAwaitPrimary(Alive)
      <4>1. PICK p \in PendingPeers : ctl' = [ctl EXCEPT !.pc = "await", !.gid = RJobView[p].uid]
        BY <3>2, Zenon DEF CtlAwaitPrimary
      <4>2. RJobView[p] \in RJob
        BY <1>3, ViewType DEF PendingPeers
      <4>3. RJobView[p].uid \in Nat
        BY <4>2, RJobReads
      <4> QED BY Zenon, <4>1, <4>3
    <3> QED BY Zenon, <1>8, <3>1, <3>2
  <2>3. pc \in CtlPC
    BY <2>2 DEF CtlPC
  <2>4. ctl' \in CtlState
    BY <1>3, <2>2, <2>3, CtlFields, Zenon
  <2>5. ctl'.pc = pc /\ ctl'.key = ctl.key /\ ctl'.obj = ctl.obj
    BY <1>3, <2>2 DEF CtlState
  <2> QED BY <1>2, <1>3, <1>4, <2>1, <2>2, <2>4, <2>5, CtlMoveType
<1>9. CASE CtlLead(Alive)
  <2>1. ctl.pc # "idle"
    BY <1>9 DEF CtlLead, Undispatched, At
  <2>2. PICK M \in SUBSET FP, g \in Nat :
          /\ ctl' = [ctl EXCEPT !.pc = "suppress", !.peers = M, !.findings = M, !.gid = g]
          /\ nextGroup' \in {nextGroup, nextGroup + 1}
    <3>1. Correlated(Group(Alive)) \subseteq FP
      BY <1>4, <2>1, GroupMembers DEF Correlated, Group, PendingPeers, Key, NoMatch
    <3>2. Obj.group \in Nat /\ Obj.label \in Nat
      BY <1>4, <2>1, RJobReads DEF Obj
    <3> DEFINE existing == IF Obj.group # NoGroup THEN Obj.group ELSE Obj.label
               gid == IF existing # NoGroup THEN existing ELSE nextGroup
    <3>3. gid \in Nat
      BY <1>3, <3>2
    <3>4. /\ ctl' = [ctl EXCEPT !.pc = "suppress", !.peers = Correlated(Group(Alive)),
                       !.findings = Correlated(Group(Alive)), !.gid = gid]
          /\ nextGroup' \in {nextGroup, nextGroup + 1}
      BY <1>9, Zenon DEF CtlLead
    <3> HIDE DEF gid
    <3> QED BY Zenon, <3>1, <3>3, <3>4
  <2>3. "suppress" \in CtlPC /\ nextGroup' \in Nat \ {0}
    BY <1>3, <2>2 DEF CtlPC
  <2>4. ctl' \in CtlState
    BY <1>3, <2>2, <2>3, CtlFields, Zenon
  <2>5. ctl'.pc = "suppress" /\ ctl'.key = ctl.key /\ ctl'.obj = ctl.obj
    BY <1>3, <2>2 DEF CtlState
  <2> QED BY <1>2, <1>3, <1>4, <2>1, <2>3, <2>4, <2>5, CtlMoveType
<1>10. CASE CtlNoGroup(Alive) \/ CtlGate
  BY <1>2, <1>3, <1>10, CtlGotoType DEF CtlNoGroup, CtlGate, Undispatched, At, CtlPC
<1>11. CASE CtlRecover
  <2>1. ctl.pc # "idle" /\ nextGroup' = nextGroup
    BY <1>11 DEF CtlRecover, At
  <2>2. PICK pc \in {"relabel", "gate"}, M \in SUBSET FP :
          ctl' = [ctl EXCEPT !.pc = pc, !.findings = M]
    <3>1. (IF Recovering THEN GroupPeers ELSE {}) \in SUBSET FP
      BY DEF GroupPeers
    <3> QED BY <1>11, <3>1, Zenon DEF CtlRecover
  <2>3. pc \in CtlPC
    BY <2>2 DEF CtlPC
  <2>4. ctl' \in CtlState
    BY <1>3, <2>2, <2>3, CtlFields, Zenon
  <2>5. ctl'.pc = pc /\ ctl'.key = ctl.key /\ ctl'.obj = ctl.obj
    BY <1>3, <2>2 DEF CtlState
  <2> QED BY <1>2, <1>3, <1>4, <2>1, <2>2, <2>4, <2>5, CtlMoveType
<1> QED BY <1>5, <1>6, <1>7, <1>8, <1>9, <1>10, <1>11

(* A patch of the reconciled object that also refreshes it in memory. *)
LEMMA CtlRefreshType ==
  ASSUME TypeInv, ctl.pc # "idle", Live # NoObject, NEW r \in RJob,
         NEW pc \in {"decide", "label", "create", "gate"},
         PatchRJob(Key, r), ctl' = [ctl EXCEPT !.pc = pc, !.obj = r],
         OnlyRJobs, UNCHANGED nextGroup
  PROVE  StoreTypeOK' /\ CtlTypeOK' /\ JobsEnd'
<1>1. ctl.key \in FP /\ ctl \in CtlState /\ CtlTypeOK /\ nextGroup \in Nat \ {0}
  BY DEF TypeInv, TypeOK, CtlTypeOK
<1>2. StoreTypeOK'
  BY <1>1, PatchType DEF TypeInv, TypeOK, Key, Live, OnlyRJobs
<1>3. JobsEnd'
  BY DEF TypeInv, JobsEnd, OnlyRJobs
<1>4. pc \in CtlPC
  BY DEF CtlPC
<1>5. ctl' \in CtlState
  BY <1>1, <1>4, CtlFields, Zenon
<1>6. ctl'.pc = pc /\ ctl'.key = ctl.key /\ ctl'.obj = r
  BY <1>1 DEF CtlState
<1> QED BY <1>1, <1>2, <1>3, <1>5, <1>6, CtlMoveType

(* The other writes of the controller, and the ends of a reconcile. *)
LEMMA CtlWriteType ==
  ASSUME TypeInv,
         CtlRecordPR \/ CtlSetGroup \/ CtlSetLabel \/ CtlRelabel \/ CtlExpire \/ CtlFetchReport
         \/ CtlFetchReportFails \/ (\E p \in FP : CtlSuppressPeer(p)) \/ CtlCreateJob
         \/ CtlReturn \/ CtlAbort
  PROVE  StoreTypeOK' /\ CtlTypeOK' /\ JobsEnd'
<1>1. ctl \in CtlState /\ nextGroup \in Nat \ {0} /\ CtlTypeOK /\ StoreTypeOK /\ JobsEnd
  BY DEF TypeInv, TypeOK, CtlTypeOK
<1>2. ctl.pc # "idle" => ctl.key \in FP /\ ctl.obj \in RJob
  BY <1>1 DEF CtlTypeOK
<1>3. ctl.pc # "idle" /\ Live # NoObject => Live \in RJob
  BY <1>1, <1>2 DEF StoreTypeOK, Live
<1>4. CASE CtlRecordPR
  <2>1. ctl.pc # "idle" /\ Live # NoObject
    BY <1>4 DEF CtlRecordPR, At
  <2>2. [Live EXCEPT !.recorded = TRUE] \in RJob
    BY Zenon, <1>3, <2>1, RJobFields
  <2> QED BY Zenon, <1>4, <2>1, <2>2, CtlRefreshType DEF CtlRecordPR
<1>5. CASE CtlSetGroup
  <2> DEFINE r == [Live EXCEPT !.group = Merged(Obj.group, ctl.gid, Live.group)]
  <2>1. ctl.pc # "idle" /\ Live # NoObject
    BY <1>5 DEF CtlSetGroup, At
  <2>2. ctl.gid \in Nat /\ Live.group \in Nat
    BY <1>1, <1>3, <2>1, RJobReads DEF CtlState
  <2>3. r \in RJob
    BY <1>3, <2>1, <2>2, MergedType, RJobFields, Zenon
  <2>4. PatchRJob(Key, r) /\ ctl' = [ctl EXCEPT !.pc = "label", !.obj = r]
        /\ OnlyRJobs /\ UNCHANGED nextGroup
    BY <1>5, Zenon DEF CtlSetGroup
  <2> HIDE DEF r
  <2> QED BY Zenon, <2>1, <2>3, <2>4, CtlRefreshType
<1>6. CASE CtlSetLabel
  <2> DEFINE r == [Live EXCEPT !.label = Merged(Obj.label, ctl.gid, Live.label)]
  <2>1. ctl.pc # "idle" /\ Live # NoObject
    BY <1>6 DEF CtlSetLabel, At
  <2>2. ctl.gid \in Nat /\ Live.label \in Nat
    BY <1>1, <1>3, <2>1, RJobReads DEF CtlState
  <2>3. r \in RJob
    BY <1>3, <2>1, <2>2, MergedType, RJobFields, Zenon
  <2>4. PatchRJob(Key, r) /\ ctl' = [ctl EXCEPT !.pc = "create", !.obj = r]
        /\ OnlyRJobs /\ UNCHANGED nextGroup
    BY <1>6, Zenon DEF CtlSetLabel
  <2> HIDE DEF r
  <2> QED BY Zenon, <2>1, <2>3, <2>4, CtlRefreshType
<1>7. CASE CtlRelabel
  <2>1. ctl.pc # "idle" /\ Live # NoObject
    BY <1>7 DEF CtlRelabel, At
  <2>2. Obj.group \in Nat
    BY <1>2, <2>1, RJobReads DEF Obj
  <2>3. [Live EXCEPT !.label = Obj.group] \in RJob
    BY <1>3, <2>1, <2>2, RJobFields
  <2> QED BY Zenon, <1>7, <2>1, <2>3, CtlRefreshType DEF CtlRelabel
<1>8. CASE CtlExpire
  <2>1. ctl.pc # "idle" /\ DeleteRJob(Key) /\ Goto("stamp") /\ OnlyRJobs /\ nextGroup' = nextGroup
    BY <1>8 DEF CtlExpire, At
  <2>2. StoreTypeOK'
    BY <1>1, <1>2, <2>1, DeleteType DEF Key, OnlyRJobs
  <2>3. CtlTypeOK'
    BY <1>1, <2>1, CtlGotoType DEF CtlPC
  <2> QED BY <1>1, <2>1, <2>2, <2>3 DEF OnlyRJobs, JobsEnd
<1>9. CASE CtlFetchReport \/ CtlFetchReportFails
  <2>1. ctl.pc = "report" /\ nextGroup' = nextGroup /\ "sync" \in CtlPC
    BY <1>9 DEF CtlFetchReport, CtlFetchReportFails, At, CtlPC
  <2>2. PICK m \in Message : ctl' = [ctl EXCEPT !.pc = "sync", !.message = m]
    BY Zenon, <1>9 DEF CtlFetchReport, CtlFetchReportFails, Message
  <2>3. ctl' \in CtlState
    BY <1>1, <2>1, <2>2, CtlFields, Zenon
  <2>4. ctl'.key = ctl.key /\ ctl'.obj = ctl.obj /\ ctl'.job = ctl.job
    BY <1>1, <2>2 DEF CtlState
  <2>5. CtlTypeOK'
    BY <1>1, <1>2, <2>1, <2>3, <2>4, CtlMoveType DEF CtlTypeOK
  <2>6. StoreTypeOK' /\ JobsEnd'
    BY <1>1, <1>9 DEF CtlFetchReport, CtlFetchReportFails, store, StoreTypeOK, JobsEnd
  <2> QED BY <2>5, <2>6
<1>10. ASSUME NEW p \in FP, CtlSuppressPeer(p)
       PROVE  StoreTypeOK' /\ CtlTypeOK' /\ JobsEnd'
  <2> DEFINE r == [rjobs[p] EXCEPT !.phase = "Suppressed", !.group = ctl.gid, !.label = ctl.gid]
  <2>1. ctl.pc = "suppress" /\ rjobs[p] # NoObject /\ PatchRJob(p, r) /\ OnlyRJobs
        /\ nextGroup' = nextGroup
    BY Zenon, <1>10 DEF CtlSuppressPeer, At
  <2>2. rjobs[p] \in RJob /\ ctl.gid \in Nat /\ "Suppressed" \in Phase
    BY <1>1, <2>1 DEF StoreTypeOK, CtlState, Phase
  <2>3. r \in RJob
    BY <2>2, RJobFields, Zenon
  <2>4. StoreTypeOK'
    <3> HIDE DEF r
    <3> QED BY <1>1, <2>1, <2>3, PatchType DEF OnlyRJobs
  <2>5. PICK M \in SUBSET FP : ctl' = [ctl EXCEPT !.peers = M]
    <3>1. ctl.peers \ {p} \in SUBSET FP
      BY <1>1 DEF CtlState
    <3> QED BY Zenon, <1>10, <3>1 DEF CtlSuppressPeer
  <2>6. ctl' \in CtlState
    BY <1>1, <2>5, CtlFields, Zenon
  <2>7. ctl'.pc = ctl.pc /\ ctl'.key = ctl.key /\ ctl'.obj = ctl.obj
    BY <1>1, <2>5 DEF CtlState
  <2>8. CtlTypeOK'
    BY <1>1, <1>2, <2>1, <2>6, <2>7, CtlMoveType
  <2> QED BY <1>1, <2>1, <2>4, <2>8 DEF OnlyRJobs, JobsEnd
<1>11. CASE CtlCreateJob
  <2> DEFINE j == NewJob(Key, Obj.uid, ctl.findings)
  <2>1. ctl.pc # "idle" /\ Goto("dispatched") /\ nextGroup' = nextGroup
    BY <1>11 DEF CtlCreateJob, At
  <2>2. CtlTypeOK'
    BY <1>1, <2>1, CtlGotoType DEF CtlPC
  <2>3. Key \in FP /\ Obj.uid \in Nat /\ now \in Nat /\ ctl.findings \subseteq FP
    BY <1>1, <1>2, <2>1, RJobReads DEF Key, Obj, StoreTypeOK, CtlState
  <2>4. j \in Job /\ j.failed = 0
    BY <2>3 DEF NewJob, Job, NoTime
  <2>5. jobs' = [jobs EXCEPT ![Key] = j] /\ spawned' = spawned \cup {<<Key, Obj.uid>>}
        /\ UNCHANGED <<rjobs, rjCache, jobCache, reports, now>>
    BY <1>11 DEF CtlCreateJob
  <2> HIDE DEF j
  <2>6. jobs' \in [FP -> Job \cup {NoObject}] /\ spawned' \subseteq FP \X Nat
    BY <1>1, <2>3, <2>4, <2>5 DEF StoreTypeOK
  <2>7. JobsEnd'
    BY <1>1, <2>3, <2>4, <2>5 DEF StoreTypeOK, JobsEnd, BackoffLimit
  <2> QED BY <1>1, <2>2, <2>5, <2>6, <2>7 DEF StoreTypeOK
<1>12. CASE CtlReturn \/ CtlAbort
  <2>1. Return /\ UNCHANGED store /\ nextGroup' = nextGroup
    BY <1>12 DEF CtlReturn, CtlAbort
  <2>2. CtlTypeOK'
    BY <1>1, <2>1, CtlReturnType
  <2> QED BY <1>1, <2>1, <2>2 DEF store, StoreTypeOK, JobsEnd
<1> QED BY <1>4, <1>5, <1>6, <1>7, <1>8, <1>9, <1>10, <1>11, <1>12

-----------------------------------------------------------------------------
(* Updating one field of a record with a value of its type keeps the       *)
(* record's type; updates of several fields follow by repetition.          *)
LEMMA JobFields ==
  \A j \in Job :
    /\ \A x \in 0..1 : [j EXCEPT !.active = x] \in Job
    /\ \A x \in 0..2 : [j EXCEPT !.failed = x] \in Job
    /\ \A x \in 0..1 : [j EXCEPT !.succeeded = x] \in Job
    /\ \A x \in Int : [j EXCEPT !.finishedAt = x] \in Job
BY DEF Job

(* A Job after its pod failed, after it succeeded, and after its deadline. *)
LEMMA JobUpdate ==
  ASSUME NEW j \in Job, j.failed \in 0..1, NEW t \in Int
  PROVE  /\ LET k == [j EXCEPT !.active = 0, !.failed = j.failed + 1, !.finishedAt = t]
            IN  k \in Job /\ k.failed = j.failed + 1 /\ k.finishedAt = t
         /\ LET k == [j EXCEPT !.active = 0, !.succeeded = 1, !.finishedAt = t]
            IN  k \in Job /\ k.failed = j.failed
         /\ LET k == [j EXCEPT !.active = 0, !.failed = j.failed + j.active, !.finishedAt = t]
            IN  k \in Job /\ k.finishedAt = t
<1>1. 0 \in 0..1 /\ 1 \in 0..1 /\ j.failed + 1 \in 0..2 /\ j.failed + j.active \in 0..2
  BY DEF Job
<1>2. [j EXCEPT !.active = 0, !.failed = j.failed + 1, !.finishedAt = t] \in Job
  BY <1>1, JobFields, Zenon
<1>3. [j EXCEPT !.active = 0, !.succeeded = 1, !.finishedAt = t] \in Job
  BY <1>1, JobFields, Zenon
<1>4. [j EXCEPT !.active = 0, !.failed = j.failed + j.active, !.finishedAt = t] \in Job
  BY <1>1, JobFields, Zenon
<1>5. /\ [j EXCEPT !.active = 0, !.failed = j.failed + 1, !.finishedAt = t].failed = j.failed + 1
      /\ [j EXCEPT !.active = 0, !.failed = j.failed + 1, !.finishedAt = t].finishedAt = t
      /\ [j EXCEPT !.active = 0, !.succeeded = 1, !.finishedAt = t].failed = j.failed
      /\ [j EXCEPT !.active = 0, !.failed = j.failed + j.active, !.finishedAt = t].finishedAt = t
  BY DEF Job
<1> QED BY <1>2, <1>3, <1>4, <1>5, Zenon

(* The fields of a provider goroutine. *)
LEMMA PrvFields ==
  \A w \in PrvState :
    /\ \A x \in PrvPC : [w EXCEPT !.pc = x] \in PrvState
    /\ \A x \in Src : [w EXCEPT !.src = x] \in PrvState
    /\ \A x \in FP : [w EXCEPT !.key = x] \in PrvState
    /\ \A x \in RJob \cup {NoObject} : [w EXCEPT !.obj = x] \in PrvState
    /\ \A x \in SUBSET FP : [w EXCEPT !.todo = x] \in PrvState
BY DEF PrvState

(* The Job controller, the garbage collector, the agents, the watches and  *)
(* the clock keep the store well-formed.                                   *)
LEMMA ClusterType ==
  ASSUME TypeInv, Cluster
  PROVE  TypeInv'
<1> USE DEF BackoffLimit, NoTime
<1>1. CtlTypeOK' /\ PrvTypeOK' /\ faults' \in Nat
  BY DEF Cluster, TypeInv, TypeOK, CtlTypeOK, PrvTypeOK, ctlVars, prvVars
<1>2. ASSUME NEW f \in FP, NEW j, SetJob(f, j),
             j = NoObject \/ (j \in Job /\ (j.finishedAt = NoTime => j.failed <= BackoffLimit)),
             reports' \subseteq FP, spawned' \subseteq FP \X Nat
      PROVE  StoreTypeOK' /\ JobsEnd'
  <2>1. jobs' \in [FP -> Job \cup {NoObject}]
    BY <1>2 DEF SetJob, TypeInv, TypeOK, StoreTypeOK
  <2>2. JobsEnd'
    BY <1>2 DEF SetJob, JobsEnd, TypeInv, TypeOK, StoreTypeOK
  <2> QED BY <1>2, <2>1, <2>2 DEF SetJob, TypeInv, TypeOK, StoreTypeOK
<1>3. CASE Tick \/ SyncRJobs \/ SyncJobs
  BY <1>1, <1>3 DEF Tick, SyncRJobs, SyncJobs, TypeInv, TypeOK, StoreTypeOK, JobsEnd
<1>4. ASSUME NEW f \in FP, jobs[f] # NoObject
      PROVE  jobs[f] \in Job
  BY <1>4 DEF TypeInv, TypeOK, StoreTypeOK
<1>5. ASSUME NEW f \in FP, Unfinished(f)
      PROVE  jobs[f] \in Job /\ jobs[f].failed \in 0..1 /\ jobs[f].active \in 0..1
  BY <1>4, <1>5 DEF Unfinished, TypeInv, JobsEnd, Job
<1>6. reports \subseteq FP /\ spawned \subseteq FP \X Nat /\ now \in Nat
  BY DEF TypeInv, TypeOK, StoreTypeOK
<1>7. ASSUME NEW f \in FP, PodStart(f)
      PROVE  TypeInv'
  <2>1. [jobs[f] EXCEPT !.active = 1] \in Job
    BY <1>5, <1>7 DEF PodStart, Job
  <2>2. [jobs[f] EXCEPT !.active = 1].failed <= BackoffLimit
    BY <1>5, <1>7 DEF PodStart, Job
  <2> QED BY Zenon, <1>1, <1>2, <1>6, <1>7, <2>1, <2>2 DEF PodStart, TypeInv, TypeOK
<1>8. ASSUME NEW f \in FP, PodFail(f)
      PROVE  TypeInv'
  <2>1. PICK t \in Int : t = IF jobs[f].failed >= BackoffLimit THEN now ELSE NoTime
    BY <1>6
  <2> DEFINE j == [jobs[f] EXCEPT !.active = 0, !.failed = jobs[f].failed + 1, !.finishedAt = t]
  <2>2. jobs[f] \in Job /\ jobs[f].failed \in 0..1
    BY <1>5, <1>8 DEF PodFail
  <2>3. t = NoTime => jobs[f].failed + 1 <= BackoffLimit
    BY <1>6, <2>1, <2>2
  <2>4. j \in Job /\ j.failed = jobs[f].failed + 1 /\ j.finishedAt = t
    BY <2>2, JobUpdate, Zenon
  <2>5. j.finishedAt = NoTime => j.failed <= BackoffLimit
    BY <2>3, <2>4, Zenon
  <2>6. SetJob(f, j)
    BY <1>8, <2>1, Zenon DEF PodFail
  <2>7. StoreTypeOK' /\ JobsEnd'
    BY <1>2, <1>6, <1>8, <2>4, <2>5, <2>6, Zenon DEF PodFail
  <2> QED BY <1>1, <2>7 DEF TypeInv, TypeOK
<1>9. ASSUME NEW f \in FP, PodSucceed(f)
      PROVE  TypeInv'
  <2> DEFINE j == [jobs[f] EXCEPT !.active = 0, !.succeeded = 1, !.finishedAt = now]
  <2>1. jobs[f] \in Job /\ jobs[f].failed \in 0..1 /\ now \in Int
    BY <1>5, <1>6, <1>9 DEF PodSucceed
  <2>2. jobs[f].failed <= BackoffLimit
    BY <2>1
  <2>3. j \in Job /\ j.failed = jobs[f].failed
    BY <2>1, JobUpdate, Zenon
  <2>4. j.failed <= BackoffLimit
    BY <2>2, <2>3, Zenon
  <2>5. SetJob(f, j) /\ reports' \subseteq FP /\ spawned' = spawned
    BY <1>6, <1>9 DEF PodSucceed
  <2>6. StoreTypeOK' /\ JobsEnd'
    BY <1>2, <1>6, <2>3, <2>4, <2>5, Zenon
  <2> QED BY <1>1, <2>6 DEF TypeInv, TypeOK
<1>10. ASSUME NEW f \in FP, DeadlineExceeded(f)
       PROVE  TypeInv'
  <2> DEFINE j == [jobs[f] EXCEPT !.active = 0, !.failed = jobs[f].failed + jobs[f].active,
                     !.finishedAt = now]
  <2>1. jobs[f] \in Job /\ jobs[f].failed \in 0..1 /\ now \in Int /\ now # NoTime
    BY <1>5, <1>6, <1>10 DEF DeadlineExceeded
  <2>2. j \in Job /\ j.finishedAt = now
    BY <2>1, JobUpdate, Zenon
  <2>3. j.finishedAt # NoTime
    BY <2>1, <2>2, Zenon
  <2>4. SetJob(f, j) /\ reports' = reports /\ spawned' = spawned
    BY <1>10, Zenon DEF DeadlineExceeded
  <2>5. StoreTypeOK' /\ JobsEnd'
    BY <1>2, <1>6, <2>2, <2>3, <2>4, Zenon
  <2> QED BY <1>1, <2>5 DEF TypeInv, TypeOK
<1>11. ASSUME NEW f \in FP, JobExpire(f) \/ JobCollect(f)
       PROVE  TypeInv'
  <2>1. SetJob(f, NoObject) /\ reports' = reports /\ spawned' \subseteq spawned
    BY <1>11 DEF JobExpire, JobCollect
  <2> QED BY <1>1, <1>2, <1>6, <2>1 DEF TypeInv, TypeOK
<1>12. ASSUME NEW f \in FP, AgentReportsPR(f)
       PROVE  TypeInv'
  <2>1. rjobs[f] \in RJob /\ rjobs \in [FP -> RJob \cup {NoObject}]
    BY <1>12 DEF AgentReportsPR, TypeInv, TypeOK, StoreTypeOK
  <2>2. [rjobs[f] EXCEPT !.sink = TRUE] \in RJob
    BY Zenon, <2>1 DEF RJob
  <2>3. rjobs' = [rjobs EXCEPT ![f] = [rjobs[f] EXCEPT !.sink = TRUE]]
    BY <1>12, <2>1 DEF AgentReportsPR
  <2>4. rjobs' \in [FP -> RJob \cup {NoObject}]
    BY <2>1, <2>2, <2>3
  <2> QED BY <1>1, <1>12, <2>4 DEF AgentReportsPR, TypeInv, TypeOK, StoreTypeOK, JobsEnd
<1> QED
  BY <1>3, <1>7, <1>8, <1>9, <1>10, <1>11, <1>12 DEF Cluster

-----------------------------------------------------------------------------
(* A provider goroutine that holds what its program point reads. *)
PrvOK(w) ==
  /\ w \in PrvState
  /\ w.pc \in {"cancelDelete", "deleteFailed", "tombstone", "hierarchy", "create"} => w.key \in FP
  /\ w.pc \in {"deleteFailed", "hierarchy", "create"} => w.src \in Src
  /\ w.pc = "tombstone" => w.obj \in RJob

(* A step of one provider goroutine to a well-formed state. *)
LEMMA PrvMoveType ==
  ASSUME PrvTypeOK, NEW p \in Provider, NEW w, PrvOK(w), prv' = [prv EXCEPT ![p] = w],
         source' = source, nextUid' \in Nat \ {0}
  PROVE  PrvTypeOK'
<1>1. prv' \in [Provider -> PrvState]
  BY DEF PrvTypeOK, PrvOK
<1>2. \A q \in Provider : prv'[q] = IF q = p THEN w ELSE prv[q]
  BY DEF PrvTypeOK
<1> QED BY <1>1, <1>2 DEF PrvTypeOK, PrvOK

(* A provider goroutine that has nothing to do is well-formed. *)
LEMMA WaitingType == PrvOK(Waiting)
BY DEF PrvOK, Waiting, PrvState, PrvPC

(* A provider's step to another program point for which it already holds   *)
(* what is read there.                                                     *)
LEMMA PrvGotoType ==
  ASSUME NEW w, PrvOK(w), NEW pc \in {"cancel", "hierarchy", "create"},
         pc # "cancel" => w.pc \in {"deleteFailed", "hierarchy"}
  PROVE  PrvOK([w EXCEPT !.pc = pc])
<1>1. w \in PrvState /\ pc \in PrvPC
  BY DEF PrvOK, PrvPC
<1>2. [w EXCEPT !.pc = pc] \in PrvState
  BY <1>1, PrvFields
<1>3. /\ [w EXCEPT !.pc = pc].pc = pc
      /\ [w EXCEPT !.pc = pc].key = w.key
      /\ [w EXCEPT !.pc = pc].src = w.src
  BY <1>1 DEF PrvState
<1> QED BY <1>2, <1>3 DEF PrvOK

(* The reads of a provider: what a deleted source left, what dedup finds.  *)
LEMMA LookType ==
  ASSUME TypeInv, NEW p \in Provider, NEW s \in Src, PrvGone(p, s) \/ PrvFinding(p, s)
  PROVE  StoreTypeOK' /\ PrvTypeOK' /\ JobsEnd'
<1>1. PrvTypeOK /\ StoreTypeOK /\ JobsEnd /\ nextUid \in Nat \ {0}
  BY DEF TypeInv, TypeOK, PrvTypeOK
<1>2. Waiting \in PrvState
  BY WaitingType DEF PrvOK
<1>3. UNCHANGED <<store, source, nextUid>>
  BY DEF PrvGone, PrvFinding
<1>4. StoreTypeOK' /\ JobsEnd'
  BY <1>1, <1>3 DEF store, StoreTypeOK, JobsEnd
<1>5. CASE PrvGone(p, s)
  <2> DEFINE w == [Waiting EXCEPT !.pc = "cancel", !.src = s, !.todo = CreatedFrom(s)]
  <2>1. CreatedFrom(s) \in SUBSET FP /\ "cancel" \in PrvPC
    BY DEF CreatedFrom, PrvPC
  <2>2. w \in PrvState
    BY <1>2, <2>1, PrvFields, Zenon
  <2>3. w.pc = "cancel"
    BY <1>2 DEF PrvState
  <2>4. PrvOK(w)
    BY <2>2, <2>3 DEF PrvOK
  <2>5. prv' = [prv EXCEPT ![p] = w]
    BY <1>5 DEF PrvGone
  <2> HIDE DEF w
  <2> QED BY Zenon, <1>1, <1>3, <1>4, <2>4, <2>5, PrvMoveType
<1>6. CASE PrvFinding(p, s)
  <2> DEFINE f == source[s]
             o == RJobView[f]
             w(pc) == [Waiting EXCEPT !.pc = pc, !.src = s, !.key = f, !.obj = o]
  <2>1. f \in FP
    BY <1>6 DEF PrvFinding
  <2>2. o # NoObject => o \in RJob
    BY <1>1, <2>1, ViewType
  <2>3. PICK pc \in {"hierarchy", "deleteFailed", "tombstone"} :
          (pc = "tombstone" => o # NoObject) /\ prv' = [prv EXCEPT ![p] = w(pc)]
    BY <1>6, Zenon DEF PrvFinding
  <2>4. pc \in PrvPC /\ o \in RJob \cup {NoObject}
    BY <2>2, <2>3 DEF PrvPC
  <2> HIDE DEF o
  <2>5. w(pc) \in PrvState
    BY <1>2, <2>1, <2>4, PrvFields, Zenon
  <2>6. w(pc).pc = pc /\ w(pc).key = f /\ w(pc).src = s /\ w(pc).obj = o
    BY <1>2 DEF PrvState
  <2>7. PrvOK(w(pc))
    BY <2>1, <2>2, <2>3, <2>5, <2>6 DEF PrvOK
  <2> HIDE DEF w
  <2> QED BY Zenon, <1>1, <1>3, <1>4, <2>3, <2>7, PrvMoveType
<1> QED BY <1>5, <1>6

(* The writes of a provider: cancellation, tombstones and creation. *)
LEMMA WorkType ==
  ASSUME TypeInv, NEW p \in Provider,
         PrvStep(p) \/ PrvAbort(p) \/ \E f \in FP : PrvCancelFails(p, f)
  PROVE  StoreTypeOK' /\ PrvTypeOK' /\ JobsEnd'
<1>1. PrvTypeOK /\ StoreTypeOK /\ JobsEnd /\ nextUid \in Nat \ {0} /\ PrvOK(prv[p])
  BY DEF TypeInv, TypeOK, PrvTypeOK, PrvOK
<1>2. now \in Nat /\ now \in Int
  BY <1>1 DEF StoreTypeOK
<1>3. prv[p] \in PrvState /\ prv \in [Provider -> PrvState]
  BY <1>1 DEF PrvTypeOK
<1>4. ASSUME PrvReturn(p), source' = source, nextUid' \in Nat \ {0}
      PROVE  PrvTypeOK'
  BY Zenon, <1>1, <1>4, WaitingType, PrvMoveType DEF PrvReturn
<1>5. ASSUME NEW pc \in {"cancel", "hierarchy", "create"}, PrvGoto(p, pc),
             pc # "cancel" => prv[p].pc \in {"deleteFailed", "hierarchy"},
             source' = source, nextUid' = nextUid
      PROVE  PrvTypeOK'
  <2>1. prv' = [prv EXCEPT ![p] = [prv[p] EXCEPT !.pc = pc]]
    BY <1>3, <1>5 DEF PrvGoto
  <2>2. PrvOK([prv[p] EXCEPT !.pc = pc])
    BY Zenon, <1>1, <1>5, PrvGotoType
  <2> QED BY Zenon, <1>1, <1>5, <2>1, <2>2, PrvMoveType
<1>6. ASSUME NEW f \in FP, DeleteRJob(f), PrvOnlyRJobs
      PROVE  StoreTypeOK' /\ JobsEnd' /\ source' = source /\ nextUid' = nextUid
  BY <1>1, <1>6, DeleteType DEF PrvOnlyRJobs, JobsEnd
<1>7. ASSUME NEW f \in FP, NEW r, rjobs[f] # NoObject => r \in RJob, PatchRJob(f, r), PrvOnlyRJobs
      PROVE  StoreTypeOK' /\ JobsEnd' /\ source' = source /\ nextUid' = nextUid
  BY <1>1, <1>7, PatchType DEF PrvOnlyRJobs, JobsEnd
<1>8. \A f \in FP : rjobs[f] # NoObject => rjobs[f] \in RJob
  BY <1>1 DEF StoreTypeOK
<1>9. ASSUME NEW f \in FP, PrvCancel(p, f)
      PROVE  StoreTypeOK' /\ PrvTypeOK' /\ JobsEnd'
  <2> DEFINE w == [prv[p] EXCEPT !.pc = "cancelDelete", !.key = f, !.todo = prv[p].todo \ {f}]
  <2>1. prv[p].todo \ {f} \in SUBSET FP /\ "cancelDelete" \in PrvPC /\ "Cancelled" \in Phase
    BY <1>3 DEF PrvState, PrvPC, Phase
  <2>2. rjobs[f] # NoObject => [rjobs[f] EXCEPT !.phase = "Cancelled"] \in RJob
    BY <1>8, <2>1, RJobFields
  <2>3. StoreTypeOK' /\ JobsEnd' /\ source' = source /\ nextUid' = nextUid
    BY <1>7, <1>9, <2>2 DEF PrvCancel
  <2>4. w \in PrvState
    BY <1>3, <2>1, PrvFields, Zenon
  <2>5. w.pc = "cancelDelete" /\ w.key = f
    BY <1>3 DEF PrvState
  <2>6. PrvOK(w)
    BY <2>4, <2>5 DEF PrvOK
  <2>7. prv' = [prv EXCEPT ![p] = w]
    BY Zenon, <1>3, <1>9 DEF PrvCancel
  <2> HIDE DEF w
  <2> QED BY Zenon, <1>1, <2>3, <2>6, <2>7, PrvMoveType
<1>10. ASSUME NEW f \in FP, PrvCancelFails(p, f)
       PROVE  StoreTypeOK' /\ PrvTypeOK' /\ JobsEnd'
  <2> DEFINE rest == prv[p].todo \ {f}
             w == [prv[p] EXCEPT !.pc = "cancel", !.todo = rest]
  <2>1. UNCHANGED <<store, source, nextUid>>
    BY <1>10 DEF PrvCancelFails
  <2>2. StoreTypeOK' /\ JobsEnd'
    BY <1>1, <2>1 DEF store, StoreTypeOK, JobsEnd
  <2>3. CASE PrvReturn(p)
    BY <1>1, <1>4, <2>1, <2>2, <2>3
  <2>4. CASE prv' = [prv EXCEPT ![p].pc = "cancel", ![p].todo = rest]
    <3>1. rest \in SUBSET FP /\ "cancel" \in PrvPC
      BY <1>3 DEF PrvState, PrvPC
    <3>2. w \in PrvState
      BY <1>3, <3>1, PrvFields, Zenon
    <3>3. w.pc = "cancel"
      BY <1>3 DEF PrvState
    <3>4. PrvOK(w)
      BY <3>2, <3>3 DEF PrvOK
    <3>5. prv' = [prv EXCEPT ![p] = w]
      BY Zenon, <1>3, <2>4
    <3> HIDE DEF w
    <3> QED BY Zenon, <1>1, <2>1, <2>2, <3>4, <3>5, PrvMoveType
  <2> QED BY <1>10, <2>3, <2>4 DEF PrvCancelFails
<1>11. CASE PrvCancelDelete(p)
  <2>1. prv[p].key \in FP
    BY <1>1, <1>11 DEF PrvCancelDelete, PrvAt, PrvOK
  <2>2. StoreTypeOK' /\ JobsEnd' /\ source' = source /\ nextUid' = nextUid
    BY <1>6, <1>11, <2>1 DEF PrvCancelDelete
  <2> QED BY <1>1, <1>4, <1>5, <1>11, <2>2 DEF PrvCancelDelete
<1>12. CASE PrvDeleteFailed(p)
  <2>1. prv[p].pc = "deleteFailed" /\ prv[p].key \in FP
    BY <1>1, <1>12 DEF PrvDeleteFailed, PrvAt, PrvOK
  <2>2. StoreTypeOK' /\ JobsEnd' /\ source' = source /\ nextUid' = nextUid
    BY <1>6, <1>12, <2>1 DEF PrvDeleteFailed
  <2> QED BY <1>5, <1>12, <2>1, <2>2 DEF PrvDeleteFailed
<1>13. CASE PrvMerged(p)
  <2> DEFINE f == prv[p].key
             r == [rjobs[f] EXCEPT !.merged = TRUE, !.mergedAt = now]
  <2>1. f \in FP
    BY <1>1, <1>13 DEF PrvMerged, PrvAt, PrvOK
  <2>2. rjobs[f] # NoObject => r \in RJob
    BY <1>2, <1>8, <2>1, RJobFields, Zenon
  <2>3. PatchRJob(f, r) /\ PrvReturn(p) /\ PrvOnlyRJobs
    BY <1>13 DEF PrvMerged
  <2> HIDE DEF r
  <2>4. StoreTypeOK' /\ JobsEnd' /\ source' = source /\ nextUid' = nextUid
    BY <1>7, <2>1, <2>2, <2>3
  <2> QED BY <1>1, <1>4, <2>3, <2>4
<1>14. CASE PrvDeleteTombstone(p)
  <2>1. prv[p].key \in FP
    BY <1>1, <1>14 DEF PrvDeleteTombstone, PrvAt, PrvOK
  <2>2. StoreTypeOK' /\ JobsEnd' /\ source' = source /\ nextUid' = nextUid
    BY <1>6, <1>14, <2>1 DEF PrvDeleteTombstone
  <2> QED BY <1>1, <1>4, <1>14, <2>2 DEF PrvDeleteTombstone
<1>15. CASE PrvPass(p)
  <2>1. UNCHANGED <<store, source, nextUid>> /\ prv[p].pc = "hierarchy" /\ PrvGoto(p, "create")
    BY <1>15 DEF PrvPass, PrvAt
  <2>2. PrvTypeOK'
    BY <1>5, <2>1
  <2> QED BY <1>1, <2>1, <2>2 DEF store, StoreTypeOK, JobsEnd
<1>16. CASE PrvCreate(p)
  <2> DEFINE r == NewRJob(nextUid, prv[p].src)
  <2>1. prv[p].key \in FP /\ prv[p].src \in Src
    BY <1>1, <1>16 DEF PrvCreate, PrvAt, PrvOK
  <2>2. r \in RJob
    BY <1>1, <1>2, <2>1 DEF NewRJob, RJob, Phase, Message, NoTime, NoGroup
  <2>3. rjobs' = [rjobs EXCEPT ![prv[p].key] = r] /\ nextUid' = nextUid + 1 /\ PrvReturn(p)
        /\ UNCHANGED <<jobs, rjCache, jobCache, reports, now, spawned, source>>
    BY <1>16 DEF PrvCreate
  <2> HIDE DEF r
  <2>4. StoreTypeOK'
    BY <1>1, <2>1, <2>2, <2>3 DEF StoreTypeOK
  <2>5. PrvTypeOK'
    BY <1>1, <1>4, <2>3
  <2> QED BY <1>1, <2>3, <2>4, <2>5 DEF JobsEnd
<1>17. CASE PrvSuppress(p) \/ PrvAbort(p)
  <2>1. UNCHANGED <<store, source, nextUid>> /\ PrvReturn(p)
    BY <1>17 DEF PrvSuppress, PrvAbort
  <2>2. PrvTypeOK'
    BY <1>1, <1>4, <2>1
  <2> QED BY <1>1, <2>1, <2>2 DEF store, StoreTypeOK, JobsEnd
<1> QED
  BY <1>9, <1>10, <1>11, <1>12, <1>13, <1>14, <1>15, <1>16, <1>17 DEF PrvStep

(* A watched object that appears, fails, recovers or is deleted. *)
LEMMA SourcesType ==
  ASSUME TypeInv, Sources
  PROVE  TypeInv'
<1>1. PICK s \in Src, v \in FP \cup {"healthy", "gone"} : SourceChange(s, v)
  BY DEF Sources
<1>2. StoreTypeOK' /\ JobsEnd' /\ prv' = prv /\ nextUid' = nextUid
  BY <1>1 DEF SourceChange, store, TypeInv, TypeOK, StoreTypeOK, JobsEnd
<1>3. source' \in [Src -> FP \cup {"gone", "healthy"}]
  BY <1>1 DEF SourceChange, TypeInv, TypeOK, PrvTypeOK
<1>4. PrvTypeOK'
  BY <1>2, <1>3 DEF TypeInv, TypeOK, PrvTypeOK
<1>5. CtlTypeOK' /\ faults' \in Nat
  BY DEF Sources, ctlVars, TypeInv, TypeOK, CtlTypeOK
<1> QED BY <1>2, <1>4, <1>5 DEF TypeInv, TypeOK

(* An empty agent namespace and idle goroutines. *)
LEMMA InitType ==
  ASSUME Init
  PROVE  TypeInv
<1>1. StoreTypeOK /\ JobsEnd
  BY DEF Init, InitStore, StoreTypeOK, JobsEnd
<1>2. ctl = Resting /\ nextGroup = 1
  BY DEF Init, InitCtl
<1>3. ctl \in CtlState
  BY <1>2 DEF Resting, CtlState, CtlPC, Message, NoGroup
<1>4. ctl.pc = "idle"
  BY <1>2 DEF Resting
<1>5. CtlTypeOK
  BY <1>2, <1>3, <1>4 DEF CtlTypeOK
<1>6. prv = [p \in Provider |-> Waiting] /\ source \in [Src -> FP \cup {"gone", "healthy"}] /\ nextUid = 1
  BY DEF Init, InitPrv
<1>7. \A p \in Provider : PrvOK(prv[p])
  BY <1>6, WaitingType
<1>8. prv \in [Provider -> PrvState]
  BY <1>6, WaitingType DEF PrvOK
<1>9. PrvTypeOK
  BY <1>6, <1>7, <1>8 DEF PrvTypeOK, PrvOK
<1>10. faults \in Nat
  BY NumberAssumption DEF Init
<1> QED BY <1>1, <1>5, <1>9, <1>10 DEF TypeInv, TypeOK

(* Each step of the controller, of a provider and of the cluster keeps the *)
(* types.                                                                  *)
LEMMA NextType ==
  ASSUME TypeInv, [Next]_vars
  PROVE  TypeInv'
<1>1. StoreTypeOK /\ CtlTypeOK /\ PrvTypeOK /\ faults \in Nat /\ JobsEnd
  BY DEF TypeInv, TypeOK
<1>2. UNCHANGED ctlVars => CtlTypeOK'
  BY <1>1 DEF ctlVars, CtlTypeOK
<1>3. UNCHANGED prvVars => PrvTypeOK'
  BY <1>1 DEF prvVars, PrvTypeOK
<1>4. CASE Cluster
  BY <1>4, ClusterType
<1>5. CASE Sources
  BY <1>5, SourcesType
<1>6. CASE \E f \in FP : Get(f)
  BY <1>1, <1>3, <1>6, CtlReadType DEF Get, TypeInv, TypeOK
<1>7. CASE Step
  <2>1. UNCHANGED <<prvVars, faults>> /\ CtlStep(Alive)
    BY <1>7 DEF Step
  <2>2. StoreTypeOK' /\ CtlTypeOK' /\ JobsEnd'
    BY <2>1, CtlPatchType, CtlReadType, CtlWriteType DEF CtlStep
  <2> QED BY <1>1, <1>3, <2>1, <2>2 DEF TypeInv, TypeOK
<1>8. CASE \E p \in Provider : (\E s \in Src : Look(p, s)) \/ Work(p)
  <2>1. PICK p \in Provider : (\E s \in Src : Look(p, s)) \/ Work(p)
    BY <1>8
  <2>2. UNCHANGED <<ctlVars, faults>>
    BY <2>1 DEF Look, Work
  <2>3. StoreTypeOK' /\ PrvTypeOK' /\ JobsEnd'
    BY <2>1, LookType, WorkType DEF Look, Work
  <2> QED BY <1>1, <1>2, <2>2, <2>3 DEF TypeInv, TypeOK
<1>9. CASE Fault
  <2>1. faults' \in Nat
    BY <1>1, <1>9 DEF Fault
  <2>2. CASE (CtlAbort \/ CtlRecordPRFails \/ CtlFetchReportFails) /\ UNCHANGED prvVars
    <3>1. StoreTypeOK' /\ CtlTypeOK' /\ JobsEnd'
      BY <2>2, CtlReadType, CtlWriteType
    <3> QED BY <1>3, <2>1, <2>2, <3>1 DEF TypeInv, TypeOK
  <2>3. CASE (\E p \in Provider : PrvAbort(p) \/ \E f \in FP : PrvCancelFails(p, f))
             /\ UNCHANGED ctlVars
    <3>1. StoreTypeOK' /\ PrvTypeOK' /\ JobsEnd'
      BY <2>3, WorkType
    <3> QED BY <1>2, <2>1, <2>3, <3>1 DEF TypeInv, TypeOK
  <2> QED BY <1>9, <2>2, <2>3 DEF Fault
<1>10. CASE UNCHANGED vars
  <2>1. UNCHANGED <<store, ctlVars, prvVars, faults>>
    BY <1>10 DEF vars
  <2>2. StoreTypeOK' /\ JobsEnd'
    BY <1>1, <2>1 DEF store, StoreTypeOK, JobsEnd
  <2> QED BY <1>1, <1>2, <1>3, <2>1, <2>2 DEF TypeInv, TypeOK
<1> QED
  BY <1>4, <1>5, <1>6, <1>7, <1>8, <1>9, <1>10 DEF Next

(* The strengthened type invariant, with what the Job controller promises  *)
(* about finished Jobs.                                                    *)
THEOREM TypeInvariant == Spec => []TypeInv
BY InitType, NextType, PTL DEF Spec

(* Type correctness of the whole watcher: no reconcile, in any             *)
(* interleaving with the cluster and with any failures, writes a malformed *)
(* object or reaches a program point without what that point reads.        *)
THEOREM TypeCorrect == Spec => []TypeOK
<1>1. TypeInv => TypeOK
  BY DEF TypeInv
<1> QED BY <1>1, TypeInvariant, PTL
=============================================================================
