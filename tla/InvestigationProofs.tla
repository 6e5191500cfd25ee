------------------------- MODULE InvestigationProofs -------------------------
(***************************************************************************)
(* The watcher implements Investigation, for every value of the constants: *)
(* RemediationJobs read without lag, and no source object deleted.  Nor    *)
(* does an investigation once finished move again, or a provider cancel    *)
(* one of another object.                                                  *)
(*                                                                         *)
(* Each goroutine writes on the strength of a read that is some steps old. *)
(* The refinement holds because the goroutines have disjoint rights: only  *)
(* the controller moves an investigation that is open, and only providers  *)
(* begin one or forget a failed one.  So what the controller read of an    *)
(* open investigation is still true (CtlAgrees), and so is what a provider *)
(* read of a finished one, as no two providers share a fingerprint         *)
(* (PrvAgrees).                                                            *)
(***************************************************************************)
EXTENDS Refinement, DispatchProofs

(* The kind of the object is hashed into the fingerprint, and a provider   *)
(* watches one kind.                                                       *)
FingerprintsApart ==
  /\ FP \cap {"gone", "healthy"} = {}
  /\ SrcFindings \in [Src -> SUBSET FP]
  /\ \A s, t \in Src : SrcFindings[s] \cap SrcFindings[t] # {} => SrcProvider[s] = SrcProvider[t]

ReadsCurrent == "rjobs" \notin Lagging /\ ~Vanish /\ FingerprintsApart

Owns(p, f) == \E s \in Src : SrcProvider[s] = p /\ f \in SrcFindings[s]

(* The program points that only a Pending object leads to. *)
Dispatching == {"await", "suppress", "label", "recover", "relabel", "gate", "create", "adopt",
                "dispatched"}

CtlAgrees ==
  /\ ctl.pc \notin {"idle", "stamp"} /\ Obj.phase \in Open => Life[Key] = Obj.phase
  /\ ctl.pc \in {"record", "decide"} /\ Obj.phase = "Succeeded"
       => Life[Key] \in {"absent", "New", "Succeeded"}
  /\ ctl.pc \in {"report", "sync"} => Proceeds(Obj)
  /\ ctl.pc \in Dispatching => Obj.phase = "Pending"
  /\ ctl.pc = "suppress" => \A p \in ctl.peers : p # Key /\ Life[p] = "Pending"

PrvAgrees ==
  /\ \A s \in Src : source[s] \in {"healthy"} \cup SrcFindings[s]
  /\ \A p \in Provider :
       /\ prv[p].pc \notin {"cancel", "cancelDelete"}
       /\ prv[p].pc # "idle" => Owns(p, prv[p].key)
       /\ prv[p].pc = "deleteFailed" => Life[prv[p].key] = "Failed"
       /\ prv[p].pc = "tombstone" => Life[prv[p].key] \in {"absent", "Succeeded"}

LifeInv == TypeInv /\ CtlAgrees /\ PrvAgrees

(* The moves of a life that the controller makes, and those of a provider. *)
CtlEdge(a, b) ==
  \/ a = "New" /\ b \in {"Pending", "absent"}
  \/ a = "Pending" /\ b = "Suppressed"
  \/ a \in {"Pending", "Dispatched", "Running"}
     /\ b \in {"Dispatched", "Running", "Succeeded", "Failed", "PermanentlyFailed"}
  \/ a = "Succeeded" /\ b = "absent"

PrvEdge(a, b) == (a = "absent" /\ b = "New") \/ (a \in {"Succeeded", "Failed"} /\ b = "absent")

Moves(f, x) == Life' = [Life EXCEPT ![f] = x]

CtlMoves == Life' = Life \/ \E f \in FP, x \in Phase \cup {"absent"} : Moves(f, x) /\ CtlEdge(Life[f], x)

PrvMoves(p) ==
  \/ Life' = Life
  \/ \E f \in FP, x \in Phase \cup {"absent"} : Owns(p, f) /\ Moves(f, x) /\ PrvEdge(Life[f], x)

-----------------------------------------------------------------------------
(* A life is the phase of what is stored. *)
LEMMA LifeOf ==
  ASSUME NEW f \in FP
  PROVE  /\ Life[f] = IF rjobs[f] = NoObject THEN "absent" ELSE rjobs[f].phase
         /\ Life'[f] = IF rjobs'[f] = NoObject THEN "absent" ELSE rjobs'[f].phase
BY DEF Life

(* A patch of one object moves at most the life of that object. *)
LEMMA PatchMoves ==
  ASSUME StoreTypeOK, NEW f \in FP, NEW r, rjobs[f] # NoObject => r \in RJob, PatchRJob(f, r)
  PROVE  /\ rjobs[f] = NoObject => Life' = Life
         /\ rjobs[f] # NoObject => Moves(f, r.phase)
         /\ rjobs[f] # NoObject /\ r.phase = Life[f] => Life' = Life
<1>1. NoObject \notin RJob /\ rjobs \in [FP -> RJob \cup {NoObject}]
  BY StoreAssumption DEF StoreTypeOK
<1>2. CASE rjobs[f] = NoObject
  BY <1>2 DEF PatchRJob, Life
<1>3. CASE rjobs[f] # NoObject
  <2>1. rjobs' = [rjobs EXCEPT ![f] = r] /\ r # NoObject
    BY <1>1, <1>3 DEF PatchRJob
  <2>2. Moves(f, r.phase)
    BY <1>1, <2>1 DEF Moves, Life
  <2>3. r.phase = Life[f] => Life' = Life
    BY <2>2 DEF Moves, Life
  <2> QED BY <1>3, <2>2, <2>3
<1> QED BY <1>2, <1>3

(* A delete ends the life of one object. *)
LEMMA DeleteMoves ==
  ASSUME StoreTypeOK, NEW f \in FP, DeleteRJob(f)
  PROVE  Moves(f, "absent") /\ (Life[f] = "absent" => Life' = Life)
<1>1. Moves(f, "absent")
  BY DEF DeleteRJob, StoreTypeOK, Moves, Life
<1> QED BY <1>1 DEF Moves, Life

(* The moves of the controller and of the providers are those of the       *)
(* abstract specification.                                                 *)
LEMMA MovesRefine ==
  ASSUME CtlMoves \/ \E p \in Provider : PrvMoves(p)
  PROVE  [Abstract!Next]_Life
<1>1. CASE Life' = Life
  BY <1>1
<1>2. ASSUME NEW f \in FP, NEW x \in Phase \cup {"absent"}, Moves(f, x),
             CtlEdge(Life[f], x) \/ PrvEdge(Life[f], x)
      PROVE  Abstract!Next
  BY <1>2, Zenon DEF Moves, CtlEdge, PrvEdge, Abstract!Next, Abstract!Begin, Abstract!Accept,
     Abstract!Suppress, Abstract!Work, Abstract!Finish, Abstract!Forget, Abstract!Withdraw,
     Abstract!Becomes, Abstract!Accepted
<1> QED BY <1>1, <1>2 DEF CtlMoves, PrvMoves

-----------------------------------------------------------------------------
(* A controller step leaves what the providers know. *)
LEMMA PrvFrame ==
  ASSUME TypeInv, PrvAgrees, CtlMoves, UNCHANGED prvVars
  PROVE  PrvAgrees'
<1>1. PrvTypeOK /\ source' = source /\ prv' = prv
  BY DEF TypeInv, TypeOK, prvVars
<1>2. ASSUME NEW f \in FP
      PROVE  /\ Life[f] = "Failed" => Life'[f] = "Failed"
             /\ Life[f] \in {"absent", "Succeeded"} => Life'[f] \in {"absent", "Succeeded"}
  BY DEF CtlMoves, Moves, CtlEdge, Life
<1>3. \A p \in Provider : prv[p].pc \in {"deleteFailed", "tombstone"} => prv[p].key \in FP
  BY <1>1 DEF PrvTypeOK
<1> QED BY <1>1, <1>2, <1>3 DEF PrvAgrees, Owns

(* A provider step leaves what the controller knows. *)
LEMMA CtlFrame ==
  ASSUME TypeInv, CtlAgrees, NEW p \in Provider, PrvMoves(p), UNCHANGED ctlVars
  PROVE  CtlAgrees'
<1>1. ctl' = ctl /\ (ctl.pc # "idle" => Key \in FP) /\ ctl.peers \subseteq FP
  BY DEF ctlVars, TypeInv, TypeOK, CtlTypeOK, CtlState, Key
<1>2. ASSUME NEW f \in FP
      PROVE  /\ Life[f] \in Open => Life'[f] = Life[f]
             /\ Life[f] \in {"absent", "New", "Succeeded"}
                  => Life'[f] \in {"absent", "New", "Succeeded"}
  BY DEF PrvMoves, Moves, PrvEdge, Life, Open
<1>3. Key' = Key /\ Obj' = Obj /\ Proceeds(Obj)' = Proceeds(Obj)
  BY <1>1 DEF Key, Obj, Proceeds
<1>4. ctl.pc \notin {"idle", "stamp"} /\ Obj.phase \in Open => Life'[Key] = Obj.phase
  BY <1>1, <1>2 DEF CtlAgrees
<1>5. ctl.pc \in {"record", "decide"} /\ Obj.phase = "Succeeded"
        => Life'[Key] \in {"absent", "New", "Succeeded"}
  BY <1>1, <1>2 DEF CtlAgrees
<1>6. ctl.pc = "suppress" => \A q \in ctl.peers : q # Key /\ Life'[q] = "Pending"
  BY <1>1, <1>2 DEF CtlAgrees, Open
<1> QED BY <1>1, <1>3, <1>4, <1>5, <1>6 DEF CtlAgrees
-----------------------------------------------------------------------------
(* A reconcile that has returned knows nothing. *)
LEMMA ReturnAgrees ==
  ASSUME Return
  PROVE  CtlAgrees'
<1>1. ctl'.pc = "idle"
  BY DEF Return, Resting
<1> QED BY <1>1 DEF CtlAgrees, Dispatching

(* A reconcile that goes on keeps what it knows. *)
LEMMA GoesOn ==
  ASSUME CtlAgrees, ctl.pc \notin {"idle", "stamp"}, Life' = Life,
         ctl'.key = ctl.key, ctl'.obj.phase = ctl.obj.phase,
         ctl'.pc \in {"record", "decide"} => ctl.pc \in {"record", "decide"},
         ctl'.pc \in {"report", "sync"} => Proceeds(Obj),
         ctl'.pc \in Dispatching => Obj.phase = "Pending",
         ctl'.pc = "suppress" => \A p \in ctl'.peers : p # Key /\ Life[p] = "Pending"
  PROVE  CtlAgrees'
BY DEF CtlAgrees, Proceeds, Key, Obj

(* A reconcile that refreshes its object from what is stored knows its life. *)
LEMMA Refreshed ==
  ASSUME ctl'.pc \in {"record", "decide", "label", "create", "gate"},
         Life'[ctl'.key] = ctl'.obj.phase,
         ctl'.pc \notin {"record", "decide"} => ctl'.obj.phase = "Pending"
  PROVE  CtlAgrees'
BY DEF CtlAgrees, Proceeds, Key, Obj, Dispatching

(* The writes that end a reconcile. *)
LEMMA CtlPatchAgrees ==
  ASSUME TypeInv, CtlAgrees,
         CtlInitPhase \/ CtlSetCompletedAt \/ CtlStamp \/ CtlSync
         \/ CtlRefuse \/ CtlAdopt \/ CtlDispatched
  PROVE  CtlMoves /\ CtlAgrees'
<1>1. ctl.pc # "idle" /\ Return
  BY Zenon DEF CtlInitPhase, CtlSetCompletedAt, CtlStamp, CtlSync, CtlRefuse, CtlAdopt,
         CtlDispatched, At
<1>2. CtlAgrees'
  BY <1>1, ReturnAgrees
<1>3. Obj \in RJob /\ Key \in FP /\ now \in Int /\ StoreTypeOK
  BY <1>1 DEF TypeInv, TypeOK, CtlTypeOK, StoreTypeOK, Obj, Key
<1>4. Live # NoObject => Live \in RJob
  BY <1>3 DEF StoreTypeOK, Live, Key
<1>5. {"New", "Pending", "PermanentlyFailed", "Dispatched"} \subseteq Phase
  BY DEF Phase
<1>6. Live = rjobs[Key] /\ (Live # NoObject => Life[Key] = Live.phase)
  BY <1>3, LifeOf DEF Live, Key
<1>7. ASSUME NEW r, PatchRJob(Key, r), Live # NoObject => r \in RJob /\ CtlEdge(Life[Key], r.phase)
      PROVE  CtlMoves
  <2>1. Live = NoObject => Life' = Life
    BY <1>3, <1>6, <1>7, PatchMoves
  <2>2. Live # NoObject => Moves(Key, r.phase) /\ r.phase \in Phase
    BY <1>3, <1>6, <1>7, PatchMoves, RJobReads
  <2> QED BY <1>3, <1>7, <2>1, <2>2 DEF CtlMoves
<1>8. ASSUME NEW r, PatchRJob(Key, r), Live # NoObject => r \in RJob /\ r.phase = Live.phase
      PROVE  CtlMoves
  BY <1>3, <1>6, <1>8, PatchMoves DEF CtlMoves
<1>9. CASE CtlInitPhase
  <2>1. Life[Key] = "New"
    BY <1>9 DEF CtlInitPhase, At, CtlAgrees, Open
  <2>2. Live # NoObject => [Live EXCEPT !.phase = "Pending"] \in RJob
    BY <1>4, <1>5, RJobFields, Zenon
  <2>3. Live # NoObject => [Live EXCEPT !.phase = "Pending"].phase = "Pending"
    BY <1>4 DEF RJob
  <2> QED BY <1>2, <1>7, <1>9, <2>1, <2>2, <2>3 DEF CtlInitPhase, CtlEdge
<1>10. CASE CtlSetCompletedAt
  <2>1. Live # NoObject => [Live EXCEPT !.completedAt = now] \in RJob
    BY <1>3, <1>4, RJobFields, Zenon
  <2>2. Live # NoObject => [Live EXCEPT !.completedAt = now].phase = Live.phase
    BY <1>4 DEF RJob
  <2> QED BY <1>2, <1>8, <1>10, <2>1, <2>2 DEF CtlSetCompletedAt
<1>11. CASE CtlStamp
  <2>1. PICK t : /\ t = Merged(Obj.completedAt, now, Live.completedAt)
                 /\ PatchRJob(Key, [Live EXCEPT !.completedAt = t])
    BY Zenon, <1>11 DEF CtlStamp
  <2>2. Live # NoObject => t \in Int
    BY <1>3, <1>4, <2>1, RJobReads, MergedType, Zenon
  <2>3. Live # NoObject => [Live EXCEPT !.completedAt = t] \in RJob
    BY <1>4, <2>2, RJobFields, Zenon
  <2>4. Live # NoObject => [Live EXCEPT !.completedAt = t].phase = Live.phase
    BY <1>4 DEF RJob
  <2> QED BY <1>2, <1>8, <2>1, <2>3, <2>4
<1>12. CASE CtlRefuse \/ CtlDispatched
  <2>1. Life[Key] = "Pending"
    BY <1>12 DEF CtlRefuse, CtlDispatched, At, CtlAgrees, Open, Dispatching
  <2>2. PICK x \in {"PermanentlyFailed", "Dispatched"} :
          PatchRJob(Key, [Live EXCEPT !.phase = x, !.recorded = Obj.recorded])
    BY Zenon, <1>12 DEF CtlRefuse, CtlDispatched
  <2>3. Live # NoObject => [Live EXCEPT !.phase = x, !.recorded = Obj.recorded] \in RJob
    BY <1>3, <1>4, <1>5, RJobReads, RJobFields, Zenon
  <2>4. Live # NoObject => [Live EXCEPT !.phase = x, !.recorded = Obj.recorded].phase = x
    BY <1>4 DEF RJob
  <2> QED BY <1>2, <1>7, <2>1, <2>2, <2>3, <2>4 DEF CtlEdge
<1>13. ASSUME NEW j
       PROVE  SyncPhaseFromJob(j) \in {"Dispatched", "Running", "Succeeded", "Failed"}
  BY DEF SyncPhaseFromJob
<1>14. CASE CtlAdopt
  <2>1. Life[Key] = "Pending" /\ Obj.phase = "Pending"
    BY <1>14 DEF CtlAdopt, At, CtlAgrees, Open, Dispatching
  <2>2. PICK x \in {"Dispatched", "Running", "Succeeded", "Failed"} :
          PatchRJob(Key, [Live EXCEPT !.phase = x])
    <3>1. Merged(Obj.phase, SyncPhaseFromJob(ctl.job), Live.phase) = SyncPhaseFromJob(ctl.job)
      BY <1>13, <2>1 DEF Merged
    <3> QED BY Zenon, <1>13, <1>14, <3>1 DEF CtlAdopt
  <2>3. x \in Phase
    BY <2>2 DEF Phase
  <2>4. Live # NoObject => [Live EXCEPT !.phase = x] \in RJob
    BY <1>4, <2>3, RJobFields, Zenon
  <2>5. Live # NoObject => [Live EXCEPT !.phase = x].phase = x
    BY <1>4 DEF RJob
  <2> QED BY <1>2, <1>7, <2>1, <2>2, <2>4, <2>5 DEF CtlEdge
<1>15. CASE CtlSync
  <2> DEFINE new == Synced(Obj, ctl.job)
  <2>1. Life[Key] = Obj.phase /\ Obj.phase \in {"Pending", "Dispatched", "Running"}
    BY <1>15 DEF CtlSync, At, CtlAgrees, Open, Proceeds
  <2>2. new \in RJob
    BY <1>3, SyncedType DEF TypeInv, TypeOK, CtlTypeOK, CtlState
  <2>3. new.phase \in {"Dispatched", "Running", "Succeeded", "Failed", "PermanentlyFailed"}
    <3> DEFINE sp == SyncPhaseFromJob(ctl.job)
               tries == IF sp = "Failed" THEN Obj.retry + 1 ELSE Obj.retry
               ph == IF sp = "Failed" /\ tries >= EffectiveMaxRetries
                     THEN "PermanentlyFailed" ELSE sp
    <3>1. ph \in {"Dispatched", "Running", "Succeeded", "Failed", "PermanentlyFailed"}
      <4>1. sp \in {"Dispatched", "Running", "Succeeded", "Failed"}
        BY <1>13
      <4> HIDE DEF sp, tries
      <4> QED BY <4>1
    <3>2. PICK rt, at, m :
            new = [Obj EXCEPT !.phase = ph, !.retry = rt, !.completedAt = at, !.message = m]
      BY Zenon DEF Synced
    <3> HIDE DEF ph
    <3>3. new.phase = ph
      BY <1>3, <3>2 DEF RJob
    <3> QED BY <3>1, <3>3
  <2>4. PICK ph, rt, at, m, rc :
          /\ ph = Merged(Obj.phase, new.phase, Live.phase)
          /\ rt = Merged(Obj.retry, new.retry, Live.retry)
          /\ at = Merged(Obj.completedAt, new.completedAt, Live.completedAt)
          /\ m = Merged(Obj.message, new.message, Live.message)
          /\ rc = IF SyncPhaseFromJob(ctl.job) \in {"Succeeded", "Failed"}
                  THEN Obj.recorded ELSE Live.recorded
          /\ PatchRJob(Key, [Live EXCEPT !.phase = ph, !.retry = rt, !.completedAt = at,
                                         !.message = m, !.recorded = rc])
    BY Zenon, <1>15 DEF CtlSync
  <2> HIDE DEF new
  <2>5. Live # NoObject =>
          ph \in Phase /\ rt \in Nat /\ at \in Int /\ m \in Message /\ rc \in BOOLEAN
    BY <1>3, <1>4, <2>2, <2>4, RJobReads, MergedType, Zenon
  <2>6. Live # NoObject =>
          [Live EXCEPT !.phase = ph, !.retry = rt, !.completedAt = at, !.message = m,
                       !.recorded = rc] \in RJob
    BY <1>4, <2>5, RJobFields, Zenon
  <2>7. Live # NoObject =>
          [Live EXCEPT !.phase = ph, !.retry = rt, !.completedAt = at, !.message = m,
                       !.recorded = rc].phase = ph
    BY <1>4 DEF RJob
  <2>8. Live # NoObject =>
          ph \in {"Dispatched", "Running", "Succeeded", "Failed", "PermanentlyFailed"}
    BY <1>6, <2>1, <2>3, <2>4 DEF Merged
  <2>9. Live # NoObject => CtlEdge(Life[Key], ph)
    BY <2>1, <2>8 DEF CtlEdge
  <2> QED BY Zenon, <1>2, <1>7, <2>4, <2>6, <2>7, <2>9
<1> QED BY <1>9, <1>10, <1>11, <1>12, <1>14, <1>15

(* The reads of the controller, and the ends of a reconcile without a write. *)
LEMMA CtlReadAgrees ==
  ASSUME TypeInv, CtlAgrees, "rjobs" \notin Lagging,
         (\E f \in FP : CtlGet(f)) \/ CtlRecordPRFails \/ CtlReadJob \/ CtlAwaitPrimary(Alive)
         \/ CtlSoloFallback \/ CtlLead(Alive) \/ CtlNoGroup(Alive) \/ CtlRecover \/ CtlGate
         \/ CtlFindJob \/ CtlCreateJob \/ CtlFetchReport \/ CtlFetchReportFails
         \/ CtlReturn \/ CtlAbort
  PROVE  CtlMoves /\ CtlAgrees'
<1>1. rjobs' = rjobs
  BY Zenon DEF CtlGet, CtlRecordPRFails, CtlReadJob, CtlAwaitPrimary, CtlSoloFallback, CtlLead,
     CtlNoGroup, CtlRecover, CtlGate, CtlFindJob, CtlCreateJob, CtlFetchReport,
     CtlFetchReportFails, CtlReturn, CtlAbort, store
<1>2. Life' = Life
  BY <1>1 DEF Life
<1>3. CtlMoves
  BY <1>2 DEF CtlMoves
<1>4. ctl \in CtlState /\ StoreTypeOK /\ RJobView = rjobs
      /\ (ctl.pc # "idle" => ctl.key \in FP /\ ctl.obj \in RJob)
  BY DEF TypeInv, TypeOK, CtlTypeOK, RJobView
<1>5. CASE \E f \in FP : CtlGet(f)
  <2>1. PICK f \in FP : CtlGet(f)
    BY <1>5
  <2>2. PICK pc \in {"record", "decide"} :
          ctl' = [Resting EXCEPT !.pc = pc, !.key = f, !.obj = rjobs[f]]
    BY Zenon, <1>4, <2>1 DEF CtlGet
  <2>3. ctl'.pc = pc /\ ctl'.key = f /\ ctl'.obj = rjobs[f]
    BY <2>2 DEF Resting
  <2>4. rjobs[f] # NoObject
    BY <1>4, <2>1 DEF CtlGet
  <2>5. Life'[f] = rjobs[f].phase
    BY <1>1, <2>4, LifeOf
  <2> QED BY <1>3, <2>2, <2>3, <2>5, Refreshed
<1>6. CASE CtlRecordPRFails
  <2>1. ctl' = [ctl EXCEPT !.pc = "decide", !.obj = [ctl.obj EXCEPT !.recorded = TRUE]]
    BY <1>6 DEF CtlRecordPRFails
  <2>2. ctl.pc = "record" /\ ctl.obj \in RJob
    BY <1>4, <1>6 DEF CtlRecordPRFails, At
  <2>3. ctl'.pc = "decide" /\ ctl'.key = ctl.key /\ ctl'.obj = [ctl.obj EXCEPT !.recorded = TRUE]
    BY <1>4, <2>1 DEF CtlState
  <2>4. ctl'.obj.phase = ctl.obj.phase
    BY <2>2, <2>3 DEF RJob
  <2> QED BY <1>2, <1>3, <2>2, <2>3, <2>4, GoesOn DEF Dispatching
<1>7. CASE CtlReadJob
  <2>1. ctl.pc = "decide" /\ Proceeds(Obj)
    BY <1>7 DEF CtlReadJob, At
  <2>2. PICK pc \in {"report", "sync"} : ctl' = [ctl EXCEPT !.pc = pc, !.job = OwnedJob]
    BY <1>7, Zenon DEF CtlReadJob
  <2>3. ctl'.pc = pc /\ ctl'.key = ctl.key /\ ctl'.obj = ctl.obj
    BY <1>4, <2>2 DEF CtlState
  <2> QED BY <1>2, <1>3, <2>1, <2>2, <2>3, GoesOn DEF Dispatching
<1>8. CASE CtlFetchReport \/ CtlFetchReportFails
  <2>1. ctl.pc = "report" /\ Proceeds(Obj)
    BY <1>8 DEF CtlFetchReport, CtlFetchReportFails, At, CtlAgrees
  <2>2. PICK m : ctl' = [ctl EXCEPT !.pc = "sync", !.message = m]
    BY Zenon, <1>8 DEF CtlFetchReport, CtlFetchReportFails
  <2>3. ctl'.pc = "sync" /\ ctl'.key = ctl.key /\ ctl'.obj = ctl.obj
    BY <1>4, <2>2 DEF CtlState
  <2> QED BY <1>2, <1>3, <2>1, <2>3, GoesOn DEF Dispatching
<1>9. CASE CtlLead(Alive)
  <2>1. ctl.pc = "decide" /\ Obj.phase = "Pending" /\ Group(Alive).primary = Key
    BY <1>9 DEF CtlLead, Undispatched, At
  <2>2. PICK M, g : /\ M = Correlated(Group(Alive))
                    /\ ctl' = [ctl EXCEPT !.pc = "suppress", !.peers = M, !.findings = M, !.gid = g]
    BY Zenon, <1>9 DEF CtlLead
  <2>3. ctl'.pc = "suppress" /\ ctl'.key = ctl.key /\ ctl'.obj = ctl.obj /\ ctl'.peers = M
    BY <1>4, <2>2 DEF CtlState
  <2>4. Group(Alive).members \subseteq PendingPeers \cup {Key}
    BY GroupMembers DEF Group, NoMatch
  <2>5. M \subseteq PendingPeers
    BY <2>1, <2>2, <2>4 DEF Correlated
  <2>6. \A p \in PendingPeers : p # Key /\ Life[p] = "Pending"
    BY <1>4, LifeOf DEF PendingPeers
  <2> QED BY <1>2, <1>3, <2>1, <2>3, <2>5, <2>6, GoesOn
<1>10. CASE \/ CtlAwaitPrimary(Alive) \/ CtlSoloFallback \/ CtlNoGroup(Alive) \/ CtlRecover
            \/ CtlGate \/ CtlFindJob \/ CtlCreateJob
  <2>1. ctl.pc \notin {"idle", "stamp"} /\ Obj.phase = "Pending"
    BY <1>10 DEF CtlAwaitPrimary, CtlSoloFallback, CtlNoGroup, CtlRecover, CtlGate, CtlFindJob,
       CtlCreateJob, Undispatched, At, CtlAgrees, Dispatching
  <2>2. PICK pc \in {"await", "recover", "relabel", "gate", "create", "adopt", "dispatched"} :
          \E g, M, j : ctl' = [ctl EXCEPT !.pc = pc, !.gid = g, !.findings = M, !.job = j]
    <3>1. CASE CtlAwaitPrimary(Alive) \/ CtlSoloFallback
      <4>1. PICK pc \in {"await", "recover"} : \E g : ctl' = [ctl EXCEPT !.pc = pc, !.gid = g]
        BY Zenon, <3>1 DEF CtlAwaitPrimary, CtlSoloFallback
      <4>4. PICK g : ctl' = [ctl EXCEPT !.pc = pc, !.gid = g]
        BY Zenon, <4>1
      <4>2. ctl' = [ctl EXCEPT !.pc = pc, !.gid = g, !.findings = ctl.findings, !.job = ctl.job]
        BY <1>4, <4>4 DEF CtlState
      <4>3. pc \in {"await", "recover", "relabel", "gate", "create", "adopt", "dispatched"}
        BY <4>1
      <4> QED BY Zenon, <4>2, <4>3
    <3>2. CASE CtlNoGroup(Alive) \/ CtlGate \/ CtlCreateJob
      <4>1. PICK pc \in {"recover", "create", "dispatched"} : ctl' = [ctl EXCEPT !.pc = pc]
        BY Zenon, <3>2 DEF CtlNoGroup, CtlGate, CtlCreateJob, Goto
      <4>2. ctl' = [ctl EXCEPT !.pc = pc, !.gid = ctl.gid, !.findings = ctl.findings, !.job = ctl.job]
        BY <1>4, <4>1 DEF CtlState
      <4>3. pc \in {"await", "recover", "relabel", "gate", "create", "adopt", "dispatched"}
        BY <4>1
      <4> QED BY Zenon, <4>2, <4>3
    <3>3. CASE CtlRecover
      <4>1. PICK pc \in {"relabel", "gate"} : \E M : ctl' = [ctl EXCEPT !.pc = pc, !.findings = M]
        BY Zenon, <3>3 DEF CtlRecover
      <4>4. PICK M : ctl' = [ctl EXCEPT !.pc = pc, !.findings = M]
        BY Zenon, <4>1
      <4>2. ctl' = [ctl EXCEPT !.pc = pc, !.gid = ctl.gid, !.findings = M, !.job = ctl.job]
        BY <1>4, <4>4 DEF CtlState
      <4>3. pc \in {"await", "recover", "relabel", "gate", "create", "adopt", "dispatched"}
        BY <4>1
      <4> QED BY Zenon, <4>2, <4>3
    <3>4. CASE CtlFindJob
      <4>1. ctl' = [ctl EXCEPT !.pc = "adopt", !.job = OwnedJob]
        BY <3>4 DEF CtlFindJob
      <4>2. ctl' = [ctl EXCEPT !.pc = "adopt", !.gid = ctl.gid, !.findings = ctl.findings,
                               !.job = OwnedJob]
        BY <1>4, <4>1 DEF CtlState
      <4> QED BY Zenon, <4>2
    <3> QED BY <1>10, <3>1, <3>2, <3>3, <3>4
  <2>4. PICK g, M, j : ctl' = [ctl EXCEPT !.pc = pc, !.gid = g, !.findings = M, !.job = j]
    BY Zenon, <2>2
  <2>3. ctl'.pc = pc /\ ctl'.key = ctl.key /\ ctl'.obj = ctl.obj
    BY <1>4, <2>4 DEF CtlState
  <2> QED BY <1>2, <1>3, <2>1, <2>2, <2>3, <2>4, GoesOn
<1>11. CASE CtlReturn \/ CtlAbort
  BY <1>3, <1>11, ReturnAgrees DEF CtlReturn, CtlAbort
<1> QED BY <1>5, <1>6, <1>7, <1>8, <1>9, <1>10, <1>11

(* The writes after which a reconcile goes on. *)
LEMMA CtlWriteAgrees ==
  ASSUME TypeInv, CtlAgrees,
         CtlRecordPR \/ CtlSetGroup \/ CtlSetLabel \/ CtlRelabel \/ CtlExpire
         \/ \E p \in FP : CtlSuppressPeer(p)
  PROVE  CtlMoves /\ CtlAgrees'
<1>1. ctl \in CtlState /\ StoreTypeOK
      /\ (ctl.pc # "idle" => Key \in FP /\ Obj \in RJob)
  BY DEF TypeInv, TypeOK, CtlTypeOK, Key, Obj
<1>2. ctl.pc # "idle" /\ Live # NoObject => Live \in RJob /\ Life[Key] = Live.phase
  BY <1>1, LifeOf DEF StoreTypeOK, Live, Key
<1>3. ASSUME ctl.pc # "idle", Live # NoObject, NEW r \in RJob, r.phase = Live.phase,
             NEW pc \in {"decide", "label", "create", "gate"}, PatchRJob(Key, r),
             ctl' = [ctl EXCEPT !.pc = pc, !.obj = r], pc = "decide" \/ Live.phase = "Pending"
      PROVE  CtlMoves /\ CtlAgrees'
  <2>1. Live = rjobs[Key] /\ Life[Key] = Live.phase /\ Key \in FP
    BY <1>1, <1>2, <1>3 DEF Live, Key
  <2>2. Life' = Life
    BY <1>1, <1>3, <2>1, PatchMoves
  <2>3. ctl'.pc = pc /\ ctl'.key = Key /\ ctl'.obj = r
    BY <1>1, <1>3 DEF CtlState, Key
  <2> QED BY <1>3, <2>1, <2>2, <2>3, Refreshed DEF CtlMoves
<1>4. CASE CtlRecordPR
  <2>1. ctl.pc # "idle" /\ Live # NoObject
    BY <1>4 DEF CtlRecordPR, At
  <2>2. [Live EXCEPT !.recorded = TRUE] \in RJob
    BY Zenon, <1>2, <2>1, RJobFields
  <2>3. [Live EXCEPT !.recorded = TRUE].phase = Live.phase
    BY <1>2, <2>1 DEF RJob
  <2> QED BY Zenon, <1>3, <1>4, <2>1, <2>2, <2>3 DEF CtlRecordPR
<1>5. CASE CtlSetGroup \/ CtlSetLabel \/ CtlRelabel
  <2>1. ctl.pc # "idle" /\ Live # NoObject /\ Life[Key] = "Pending" /\ ctl.pc \in Dispatching
    BY <1>5 DEF CtlSetGroup, CtlSetLabel, CtlRelabel, At, CtlAgrees, Dispatching, Open
  <2>2. Live.phase = "Pending" /\ Live \in RJob
    BY <1>2, <2>1
  <2>3. CASE CtlSetGroup
    <3>1. PICK g : /\ g = Merged(Obj.group, ctl.gid, Live.group)
                   /\ PatchRJob(Key, [Live EXCEPT !.group = g])
                   /\ ctl' = [ctl EXCEPT !.pc = "label", !.obj = [Live EXCEPT !.group = g]]
      BY Zenon, <2>3 DEF CtlSetGroup
    <3>2. ctl.gid \in Nat /\ Live.group \in Nat
      BY <1>1, <2>2, RJobReads DEF CtlState
    <3>3. [Live EXCEPT !.group = g] \in RJob
      BY <2>2, <3>1, <3>2, MergedType, RJobFields, Zenon
    <3>4. [Live EXCEPT !.group = g].phase = Live.phase
      BY <2>2 DEF RJob
    <3> QED BY Zenon, <1>3, <2>1, <2>2, <3>1, <3>3, <3>4
  <2>4. CASE CtlSetLabel
    <3>1. PICK g : /\ g = Merged(Obj.label, ctl.gid, Live.label)
                   /\ PatchRJob(Key, [Live EXCEPT !.label = g])
                   /\ ctl' = [ctl EXCEPT !.pc = "create", !.obj = [Live EXCEPT !.label = g]]
      BY Zenon, <2>4 DEF CtlSetLabel
    <3>2. ctl.gid \in Nat /\ Live.label \in Nat
      BY <1>1, <2>2, RJobReads DEF CtlState
    <3>3. [Live EXCEPT !.label = g] \in RJob
      BY <2>2, <3>1, <3>2, MergedType, RJobFields, Zenon
    <3>4. [Live EXCEPT !.label = g].phase = Live.phase
      BY <2>2 DEF RJob
    <3> QED BY Zenon, <1>3, <2>1, <2>2, <3>1, <3>3, <3>4
  <2>5. CASE CtlRelabel
    <3>1. Obj.group \in Nat
      BY <1>1, <2>1, RJobReads
    <3>2. [Live EXCEPT !.label = Obj.group] \in RJob
      BY <2>2, <3>1, RJobFields, Zenon
    <3>3. [Live EXCEPT !.label = Obj.group].phase = Live.phase
      BY <2>2 DEF RJob
    <3> QED BY Zenon, <1>3, <2>1, <2>2, <2>5, <3>2, <3>3 DEF CtlRelabel
  <2> QED BY <1>5, <2>3, <2>4, <2>5
<1>6. CASE CtlExpire
  <2>1. ctl.pc = "decide" /\ Obj.phase = "Succeeded" /\ DeleteRJob(Key) /\ Goto("stamp")
    BY <1>6 DEF CtlExpire, At, Expired
  <2>2. Life[Key] \in {"absent", "New", "Succeeded"} /\ Key \in FP
    BY <1>1, <2>1 DEF CtlAgrees
  <2>3. CtlMoves
    BY <1>1, <2>1, <2>2, DeleteMoves DEF CtlMoves, CtlEdge
  <2>4. ctl'.pc = "stamp"
    BY <1>1, <2>1 DEF Goto, CtlState
  <2> QED BY <2>3, <2>4 DEF CtlAgrees, Dispatching
<1>7. ASSUME NEW p \in FP, CtlSuppressPeer(p)
      PROVE  CtlMoves /\ CtlAgrees'
  <2>1. ctl.pc = "suppress" /\ p \in ctl.peers /\ rjobs[p] # NoObject /\ Key \in FP
    BY <1>1, <1>7 DEF CtlSuppressPeer, At
  <2>2. PICK g : /\ g = ctl.gid
                 /\ PatchRJob(p, [rjobs[p] EXCEPT !.phase = "Suppressed", !.group = g, !.label = g])
                 /\ ctl' = [ctl EXCEPT !.peers = ctl.peers \ {p}]
    BY Zenon, <1>7 DEF CtlSuppressPeer
  <2>3. rjobs[p] \in RJob /\ g \in Nat /\ "Suppressed" \in Phase
    BY <1>1, <2>1, <2>2 DEF StoreTypeOK, CtlState, Phase
  <2>4. [rjobs[p] EXCEPT !.phase = "Suppressed", !.group = g, !.label = g] \in RJob
    BY <2>3, RJobFields, Zenon
  <2>5. [rjobs[p] EXCEPT !.phase = "Suppressed", !.group = g, !.label = g].phase = "Suppressed"
    BY <2>3 DEF RJob
  <2>6. Moves(p, "Suppressed")
    BY <1>1, <2>1, <2>2, <2>4, <2>5, PatchMoves
  <2>7. p # Key /\ Life[p] = "Pending"
    BY <2>1 DEF CtlAgrees
  <2>8. CtlMoves
    BY <2>3, <2>6, <2>7 DEF CtlMoves, CtlEdge
  <2>9. \A q \in FP : q # p => Life'[q] = Life[q]
    BY <2>6 DEF Moves, Life
  <2>10. ctl'.pc = "suppress" /\ ctl'.key = ctl.key /\ ctl'.obj = ctl.obj
         /\ ctl'.peers = ctl.peers \ {p} /\ ctl.peers \subseteq FP
    BY <1>1, <2>1, <2>2 DEF CtlState
  <2>11. Obj' = Obj /\ Key' = Key /\ Obj.phase = "Pending" /\ Life[Key] = "Pending"
    BY <2>1, <2>10 DEF Obj, Key, CtlAgrees, Dispatching, Open
  <2>12. \A q \in ctl'.peers : q # Key /\ Life'[q] = "Pending"
    BY <2>1, <2>9, <2>10 DEF CtlAgrees
  <2>13. Life'[Key] = "Pending"
    BY <2>1, <2>7, <2>9, <2>11
  <2> QED BY <2>8, <2>10, <2>11, <2>12, <2>13 DEF CtlAgrees
<1> QED BY <1>4, <1>5, <1>6, <1>7
-----------------------------------------------------------------------------
(* Each step of the controller moves a life as it may, from what it knows. *)
LEMMA CtlKeeps ==
  ASSUME LifeInv, "rjobs" \notin Lagging, UNCHANGED prvVars,
         (\E f \in FP : CtlGet(f)) \/ CtlStep(Alive) \/ CtlAbort \/ CtlRecordPRFails
         \/ CtlFetchReportFails
  PROVE  CtlMoves /\ CtlAgrees' /\ PrvAgrees'
<1>1. CtlMoves /\ CtlAgrees'
  BY CtlReadAgrees, CtlWriteAgrees, CtlPatchAgrees DEF CtlStep, LifeInv
<1> QED BY <1>1, PrvFrame DEF LifeInv

(* A provider's step to a state w that is right about the life of its key, *)
(* while the keys of the other providers are left alone.                   *)
LEMMA PrvMoveAgrees ==
  ASSUME LifeInv, FingerprintsApart, NEW p \in Provider, PrvMoves(p), UNCHANGED ctlVars,
         source' = source, NEW w, prv' = [prv EXCEPT ![p] = w],
         w.pc \notin {"cancel", "cancelDelete"}, w.pc # "idle" => Owns(p, w.key),
         w.pc = "deleteFailed" => Life'[w.key] = "Failed",
         w.pc = "tombstone" => Life'[w.key] \in {"absent", "Succeeded"}
  PROVE  CtlAgrees' /\ PrvAgrees'
<1>1. CtlAgrees'
  BY CtlFrame DEF LifeInv
<1>2. \A q \in Provider : prv'[q] = IF q = p THEN w ELSE prv[q]
  BY DEF LifeInv, TypeInv, TypeOK, PrvTypeOK
<1>3. ASSUME NEW q \in Provider, q # p, prv[q].pc \in {"deleteFailed", "tombstone"}
      PROVE  Life'[prv[q].key] = Life[prv[q].key]
  <2>1. prv[q].key \in FP /\ Owns(q, prv[q].key)
    BY <1>3 DEF LifeInv, TypeInv, TypeOK, PrvTypeOK, PrvAgrees
  <2>2. ~Owns(p, prv[q].key)
    BY <1>3, <2>1 DEF Owns, FingerprintsApart
  <2> QED BY <2>1, <2>2 DEF PrvMoves, Moves, Life
<1>4. \A q \in Provider : Owns(q, prv[q].key)' = Owns(q, prv'[q].key)
  BY DEF Owns
<1>5. PrvAgrees'
  BY <1>2, <1>3, <1>4 DEF LifeInv, PrvAgrees, Owns
<1> QED BY <1>1, <1>5

(* Each step of a provider moves a life as it may, from what it knows. *)
LEMMA PrvKeeps ==
  ASSUME LifeInv, ReadsCurrent, NEW p \in Provider, UNCHANGED ctlVars,
         \/ \E s \in Src : PrvGone(p, s) \/ PrvFinding(p, s)
         \/ PrvStep(p) \/ PrvAbort(p) \/ \E f \in FP : PrvCancelFails(p, f)
  PROVE  PrvMoves(p) /\ CtlAgrees' /\ PrvAgrees'
<1>1. StoreTypeOK /\ PrvTypeOK /\ prv[p] \in PrvState /\ prv \in [Provider -> PrvState]
      /\ FingerprintsApart
  BY DEF LifeInv, TypeInv, TypeOK, PrvTypeOK, ReadsCurrent
<1>2. prv[p].pc \notin {"cancel", "cancelDelete"} /\ \A s \in Src : source[s] # "gone"
  BY <1>1 DEF LifeInv, PrvAgrees, FingerprintsApart
<1>3. prv[p].pc \in {"deleteFailed", "tombstone", "hierarchy", "create"}
        => prv[p].key \in FP /\ Owns(p, prv[p].key)
  BY <1>1 DEF PrvTypeOK, LifeInv, PrvAgrees
<1>4. ASSUME PrvReturn(p), PrvMoves(p), source' = source
      PROVE  PrvMoves(p) /\ CtlAgrees' /\ PrvAgrees'
  <2>1. prv' = [prv EXCEPT ![p] = Waiting] /\ Waiting.pc = "idle"
    BY <1>4 DEF PrvReturn, Waiting
  <2> QED BY <1>1, <1>4, <2>1, PrvMoveAgrees
<1>5. ASSUME NEW pc \in {"hierarchy", "create"}, PrvGoto(p, pc), PrvMoves(p), source' = source,
             Owns(p, prv[p].key)
      PROVE  PrvMoves(p) /\ CtlAgrees' /\ PrvAgrees'
  <2>1. PICK w : w = [prv[p] EXCEPT !.pc = pc]
    OBVIOUS
  <2>2. prv' = [prv EXCEPT ![p] = w] /\ w.pc = pc /\ w.key = prv[p].key
    BY <1>1, <1>5, <2>1 DEF PrvGoto, PrvState
  <2> QED BY <1>1, <1>5, <2>2, PrvMoveAgrees
<1>6. ASSUME rjobs' = rjobs
      PROVE  PrvMoves(p) /\ Life' = Life
  BY <1>6 DEF PrvMoves, Life
<1>7. ASSUME NEW s \in Src, PrvFinding(p, s)
      PROVE  PrvMoves(p) /\ CtlAgrees' /\ PrvAgrees'
  <2> DEFINE f == source[s]
  <2>1. f \in FP /\ SrcProvider[s] = p /\ UNCHANGED <<rjobs, source>> /\ RJobView = rjobs
    BY <1>7 DEF PrvFinding, store, RJobView, ReadsCurrent
  <2>2. Owns(p, f)
    BY <1>1, <2>1 DEF Owns, LifeInv, PrvAgrees, FingerprintsApart
  <2>3. PICK pc \in {"hierarchy", "deleteFailed", "tombstone"} : \E o :
          /\ pc = "deleteFailed" => rjobs[f] # NoObject /\ rjobs[f].phase = "Failed"
          /\ pc = "tombstone" => rjobs[f] # NoObject /\ rjobs[f].phase = "Succeeded"
          /\ prv' = [prv EXCEPT ![p] =
                       [Waiting EXCEPT !.pc = pc, !.src = s, !.key = f, !.obj = o]]
    <3>1. CASE rjobs[f] = NoObject /\ prv' = [prv EXCEPT ![p] =
                       [Waiting EXCEPT !.pc = "hierarchy", !.src = s, !.key = f, !.obj = rjobs[f]]]
      BY Zenon, <3>1
    <3>2. CASE rjobs[f] # NoObject /\ rjobs[f].phase = "Failed" /\ prv' = [prv EXCEPT ![p] =
                       [Waiting EXCEPT !.pc = "deleteFailed", !.src = s, !.key = f, !.obj = rjobs[f]]]
      BY Zenon, <3>2
    <3>3. CASE rjobs[f] # NoObject /\ rjobs[f].phase = "Succeeded" /\ prv' = [prv EXCEPT ![p] =
                       [Waiting EXCEPT !.pc = "tombstone", !.src = s, !.key = f, !.obj = rjobs[f]]]
      BY Zenon, <3>3
    <3> QED BY Zenon, <1>7, <2>1, <3>1, <3>2, <3>3 DEF PrvFinding
  <2>10. PICK o :
          /\ pc = "deleteFailed" => rjobs[f] # NoObject /\ rjobs[f].phase = "Failed"
          /\ pc = "tombstone" => rjobs[f] # NoObject /\ rjobs[f].phase = "Succeeded"
          /\ prv' = [prv EXCEPT ![p] =
                       [Waiting EXCEPT !.pc = pc, !.src = s, !.key = f, !.obj = o]]
    BY Zenon, <2>3
  <2>4. PICK w : w = [Waiting EXCEPT !.pc = pc, !.src = s, !.key = f, !.obj = o]
    OBVIOUS
  <2>5. prv' = [prv EXCEPT ![p] = w] /\ w.pc = pc /\ w.key = f
    BY <2>10, <2>4 DEF Waiting
  <2>6. PrvMoves(p) /\ Life' = Life
    BY <1>6, <2>1
  <2>7. (pc = "deleteFailed" => Life'[f] = "Failed") /\ (pc = "tombstone" => Life'[f] = "Succeeded")
    BY <2>1, <2>10, LifeOf
  <2>8. /\ w.pc \notin {"cancel", "cancelDelete"} /\ Owns(p, w.key)
        /\ w.pc = "deleteFailed" => Life'[w.key] = "Failed"
        /\ w.pc = "tombstone" => Life'[w.key] \in {"absent", "Succeeded"}
    BY <2>2, <2>3, <2>5, <2>7
  <2>9. source' = source /\ prv' = [prv EXCEPT ![p] = w]
    BY <2>1, <2>5
  <2> QED BY Zenon, <1>1, <2>6, <2>8, <2>9, PrvMoveAgrees
<1>8. CASE PrvDeleteFailed(p)
  <2>1. prv[p].pc = "deleteFailed" /\ DeleteRJob(prv[p].key) /\ PrvGoto(p, "hierarchy")
        /\ source' = source
    BY <1>8 DEF PrvDeleteFailed, PrvAt, PrvOnlyRJobs
  <2>2. Life[prv[p].key] = "Failed"
    BY <2>1 DEF LifeInv, PrvAgrees
  <2>3. PrvMoves(p)
    BY <1>1, <1>3, <2>1, <2>2, DeleteMoves DEF PrvMoves, PrvEdge
  <2> QED BY <1>3, <1>5, <2>1, <2>3
<1>9. CASE PrvDeleteTombstone(p)
  <2>1. prv[p].pc = "tombstone" /\ DeleteRJob(prv[p].key) /\ PrvReturn(p) /\ source' = source
    BY <1>9 DEF PrvDeleteTombstone, PrvAt, PrvOnlyRJobs
  <2>2. Life[prv[p].key] \in {"absent", "Succeeded"}
    BY <2>1 DEF LifeInv, PrvAgrees
  <2>3. PrvMoves(p)
    BY <1>1, <1>3, <2>1, <2>2, DeleteMoves DEF PrvMoves, PrvEdge
  <2> QED BY <1>4, <2>1, <2>3
<1>10. CASE PrvMerged(p)
  <2> DEFINE f == prv[p].key
  <2>1. prv[p].pc = "tombstone" /\ PrvReturn(p) /\ source' = source /\ f \in FP
        /\ PatchRJob(f, [rjobs[f] EXCEPT !.merged = TRUE, !.mergedAt = now])
    BY <1>3, <1>10 DEF PrvMerged, PrvAt, PrvOnlyRJobs
  <2>2. rjobs[f] # NoObject => rjobs[f] \in RJob /\ Life[f] = rjobs[f].phase
    BY <1>1, <2>1, LifeOf DEF StoreTypeOK
  <2>3. now \in Int
    BY <1>1 DEF StoreTypeOK
  <2>4. rjobs[f] # NoObject => [rjobs[f] EXCEPT !.merged = TRUE, !.mergedAt = now] \in RJob
    BY <2>2, <2>3, RJobFields, Zenon
  <2>5. rjobs[f] # NoObject =>
          [rjobs[f] EXCEPT !.merged = TRUE, !.mergedAt = now].phase = rjobs[f].phase
    BY <2>2 DEF RJob
  <2>6. Life' = Life
    BY <1>1, <2>1, <2>2, <2>4, <2>5, PatchMoves
  <2> QED BY <1>4, <2>1, <2>6 DEF PrvMoves
<1>11. CASE PrvPass(p)
  <2>1. prv[p].pc = "hierarchy" /\ PrvGoto(p, "create") /\ UNCHANGED <<rjobs, source>>
    BY <1>11 DEF PrvPass, PrvAt, store
  <2> QED BY <1>3, <1>5, <1>6, <2>1
<1>12. CASE PrvCreate(p)
  <2> DEFINE f == prv[p].key
  <2>1. f \in FP /\ Owns(p, f) /\ rjobs[f] = NoObject /\ PrvReturn(p) /\ source' = source
    BY <1>3, <1>12 DEF PrvCreate, PrvAt
  <2>2. PICK r : r = NewRJob(nextUid, prv[p].src) /\ rjobs' = [rjobs EXCEPT ![f] = r]
    BY <1>12 DEF PrvCreate
  <2>3. r.phase = "New" /\ r \in RJob
    <3>1. prv[p].src \in Src /\ nextUid \in Nat /\ now \in Nat
      BY <1>1, <1>12 DEF PrvCreate, PrvAt, PrvTypeOK, StoreTypeOK
    <3> QED BY <2>2, <3>1 DEF NewRJob, RJob, Phase, Message, NoTime, NoGroup
  <2>4. rjobs'[f] # NoObject
    BY <1>1, <2>1, <2>2, <2>3, StoreAssumption DEF StoreTypeOK
  <2>5. Life[f] = "absent"
    BY <2>1, LifeOf
  <2>6. Moves(f, "New")
    BY <1>1, <2>1, <2>2, <2>3, <2>4 DEF Moves, Life, StoreTypeOK
  <2>7. PrvMoves(p)
    BY <2>1, <2>5, <2>6 DEF PrvMoves, PrvEdge, Phase
  <2> QED BY <1>4, <2>1, <2>7
<1>13. CASE PrvSuppress(p) \/ PrvAbort(p)
  <2>1. PrvReturn(p) /\ UNCHANGED <<rjobs, source>>
    BY <1>13 DEF PrvSuppress, PrvAbort, store
  <2> QED BY <1>4, <1>6, <2>1
<1>14. ASSUME NEW f \in FP
       PROVE  ~PrvCancel(p, f) /\ ~PrvCancelDelete(p) /\ ~PrvCancelFails(p, f)
  BY <1>2, Zenon DEF PrvCancel, PrvCancelDelete, PrvCancelFails, PrvAt
<1>15. ~PrvCancelDelete(p) /\ \A s \in Src : ~PrvGone(p, s)
  BY <1>2, Zenon DEF PrvGone, PrvCancelDelete, PrvAt
<1> QED
  BY <1>7, <1>8, <1>9, <1>10, <1>11, <1>12, <1>13, <1>14, <1>15 DEF PrvStep

(* The cluster moves no life: an agent only adds its pull request. *)
LEMMA ClusterKeeps ==
  ASSUME LifeInv, Cluster
  PROVE  Life' = Life /\ CtlAgrees' /\ PrvAgrees'
<1>1. UNCHANGED <<ctlVars, prvVars>>
  BY DEF Cluster
<1>2. Life' = Life
  <2>1. CASE rjobs' = rjobs
    BY <2>1 DEF Life
  <2>2. ASSUME NEW f \in FP, AgentReportsPR(f)
        PROVE  Life' = Life
    <3>1. rjobs[f] \in RJob /\ rjobs[f] # NoObject /\ StoreTypeOK
      BY <2>2 DEF AgentReportsPR, LifeInv, TypeInv, TypeOK, StoreTypeOK
    <3>2. PICK r : r = [rjobs[f] EXCEPT !.sink = TRUE]
      OBVIOUS
    <3>3. r \in RJob
      BY Zenon, <3>1, <3>2 DEF RJob
    <3>4. r.phase = rjobs[f].phase
      BY <3>1, <3>2 DEF RJob
    <3>5. PatchRJob(f, r)
      BY <2>2, <3>1, <3>2 DEF AgentReportsPR, PatchRJob, StoreTypeOK
    <3> QED BY <3>1, <3>3, <3>4, <3>5, LifeOf, PatchMoves
  <2>3. rjobs' = rjobs \/ \E f \in FP : AgentReportsPR(f)
    BY Zenon DEF Cluster, Tick, SyncRJobs, SyncJobs, PodStart, PodFail, PodSucceed,
       DeadlineExceeded, JobExpire, JobCollect, SetJob
  <2> QED BY <2>1, <2>2, <2>3
<1>3. CtlAgrees'
  BY <1>1, <1>2 DEF LifeInv, CtlAgrees, ctlVars, Key, Obj, Proceeds
<1>4. PrvAgrees'
  BY <1>1, <1>2 DEF LifeInv, PrvAgrees, prvVars, Owns
<1> QED BY <1>2, <1>3, <1>4

(* Each step of the watcher or of the cluster is a step of Investigation,  *)
(* or leaves every life as it is, and preserves what the goroutines know.  *)
LEMMA NextRefines ==
  ASSUME LifeInv, ReadsCurrent, [Next]_vars
  PROVE  LifeInv' /\ [Abstract!Next]_Life
<1>1. TypeInv'
  BY NextType DEF LifeInv
<1>2. CASE Cluster
  BY <1>1, <1>2, ClusterKeeps DEF LifeInv
<1>3. ASSUME rjobs' = rjobs, UNCHANGED ctlVars, UNCHANGED prvVars
      PROVE  Life' = Life /\ CtlAgrees' /\ PrvAgrees'
  <2>1. Life' = Life
    BY <1>3 DEF Life
  <2>2. CtlAgrees'
    BY <1>3, <2>1 DEF LifeInv, CtlAgrees, ctlVars, Key, Obj, Proceeds
  <2>3. PrvAgrees'
    BY <1>3, <2>1 DEF LifeInv, PrvAgrees, prvVars, Owns
  <2> QED BY <2>1, <2>2, <2>3
<1>4. CASE Sources
  <2>1. PICK s \in Src : \E v : SourceChange(s, v) /\ UNCHANGED ctlVars
    BY <1>4 DEF Sources
  <2>7. PICK v : SourceChange(s, v) /\ UNCHANGED ctlVars
    BY <2>1
  <2>2. v \in {"healthy"} \cup SrcFindings[s] /\ source' = [source EXCEPT ![s] = v]
        /\ UNCHANGED <<rjobs, prv>>
    BY <2>7 DEF SourceChange, ReadsCurrent, store
  <2>3. Life' = Life
    BY <2>2 DEF Life
  <2>4. CtlAgrees'
    BY <2>7, <2>3 DEF LifeInv, CtlAgrees, ctlVars, Key, Obj, Proceeds
  <2>5. \A t \in Src : source'[t] \in {"healthy"} \cup SrcFindings[t]
    BY <2>2 DEF LifeInv, TypeInv, TypeOK, PrvTypeOK, PrvAgrees
  <2>6. PrvAgrees'
    BY <2>2, <2>3, <2>5 DEF LifeInv, PrvAgrees, Owns
  <2> QED BY <1>1, <2>3, <2>4, <2>6 DEF LifeInv
<1>5. ASSUME UNCHANGED prvVars,
             (\E f \in FP : CtlGet(f)) \/ CtlStep(Alive) \/ CtlAbort \/ CtlRecordPRFails
             \/ CtlFetchReportFails
      PROVE  LifeInv' /\ [Abstract!Next]_Life
  <2>1. CtlMoves /\ CtlAgrees' /\ PrvAgrees'
    BY <1>5, CtlKeeps DEF ReadsCurrent
  <2> QED BY <1>1, <2>1, MovesRefine DEF LifeInv
<1>6. ASSUME NEW p \in Provider, UNCHANGED ctlVars,
             \/ \E s \in Src : PrvGone(p, s) \/ PrvFinding(p, s)
             \/ PrvStep(p) \/ PrvAbort(p) \/ \E f \in FP : PrvCancelFails(p, f)
      PROVE  LifeInv' /\ [Abstract!Next]_Life
  <2>1. PrvMoves(p) /\ CtlAgrees' /\ PrvAgrees'
    BY <1>6, PrvKeeps
  <2> QED BY <1>1, <2>1, MovesRefine DEF LifeInv
<1>7. CASE (\E f \in FP : Get(f)) \/ Step
  BY <1>5, <1>7 DEF Get, Step
<1>8. CASE \E p \in Provider : (\E s \in Src : Look(p, s)) \/ Work(p)
  BY <1>6, <1>8 DEF Look, Work
<1>9. CASE Fault
  BY <1>5, <1>6, <1>9 DEF Fault
<1>10. CASE UNCHANGED vars
  BY <1>1, <1>3, <1>10 DEF vars, store, LifeInv
<1> QED
  BY <1>2, <1>4, <1>7, <1>8, <1>9, <1>10 DEF Next

(* Nothing is stored and nothing is known at first. *)
LEMMA InitLife ==
  ASSUME Init
  PROVE  LifeInv /\ Abstract!Init
<1>1. ctl.pc = "idle" /\ source = [s \in Src |-> "healthy"] /\ prv = [p \in Provider |-> Waiting]
      /\ rjobs = [f \in FP |-> NoObject]
  BY DEF Init, InitCtl, InitPrv, InitStore, Resting
<1>2. CtlAgrees
  BY <1>1 DEF CtlAgrees, Dispatching
<1>3. PrvAgrees
  BY <1>1 DEF PrvAgrees, Waiting
<1>4. Abstract!Init
  BY <1>1 DEF Abstract!Init, Life
<1> QED BY <1>2, <1>3, <1>4, InitType DEF LifeInv

(* The watcher implements the lifecycle of Investigation for any number of *)
(* findings, sources and providers, any limits, with and without           *)
(* correlation and whatever API calls fail, when RemediationJobs are read  *)
(* without lag and the watched objects are not deleted.                    *)
THEOREM Implements ==
  ASSUME ReadsCurrent
  PROVE  Spec => ImplementsInvestigation
<1>1. Init => LifeInv /\ Abstract!Init
  BY InitLife
<1>2. LifeInv /\ [Next]_vars => LifeInv' /\ [Abstract!Next]_Life
  BY NextRefines
<1> QED BY <1>1, <1>2, PTL DEF Spec, ImplementsInvestigation, Abstract!Spec

(* No step of Investigation leads out of an ended life but its deletion. *)
LEMMA EndedLife ==
  ASSUME [Abstract!Next]_Life, NEW f \in FP,
         Life[f] \in {"Succeeded", "Failed", "PermanentlyFailed", "Suppressed"}
  PROVE  Life'[f] \in {Life[f], "absent"}
<1>1. ASSUME NEW g \in FP, NEW B, NEW A, Abstract!Becomes(g, B, A), Life[f] \notin B
      PROVE  Life'[f] = Life[f]
  <2>1. g # f
    BY <1>1 DEF Abstract!Becomes
  <2> QED BY Zenon, <1>1, <2>1 DEF Abstract!Becomes, Life
<1>2. ASSUME NEW g \in FP, Abstract!Forget(g)
      PROVE  Life'[f] \in {Life[f], "absent"}
  <2>1. Life' = [Life EXCEPT ![g] = "absent"]
    BY <1>2 DEF Abstract!Forget, Abstract!Becomes
  <2> QED BY Zenon, <2>1 DEF Life
<1>3. ASSUME NEW g \in FP,
             \/ Abstract!Begin(g) \/ Abstract!Accept(g) \/ Abstract!Suppress(g)
             \/ Abstract!Work(g) \/ Abstract!Finish(g) \/ Abstract!Withdraw(g)
      PROVE  Life'[f] = Life[f]
  BY <1>1, <1>3 DEF Abstract!Begin, Abstract!Accept, Abstract!Suppress, Abstract!Work,
     Abstract!Finish, Abstract!Withdraw, Abstract!Accepted
<1> QED BY <1>2, <1>3 DEF Abstract!Next

(* A finished investigation keeps its phase until it is deleted, whatever  *)
(* the reconcile that works on it had read and however it is interrupted:  *)
(* a consequence of the refinement, since the lifecycle has no way back.   *)
THEOREM TerminalHolds ==
  ASSUME ReadsCurrent
  PROVE  Spec => TerminalIsStable
<1>1. Init => LifeInv
  BY InitLife
<1>2. LifeInv /\ [Next]_vars => LifeInv'
  BY NextRefines
<1>3. ASSUME LifeInv, [Next]_vars, NEW f \in FP, rjobs[f] # NoObject, rjobs'[f] # NoObject,
             rjobs[f].phase \in {"Succeeded", "Failed", "PermanentlyFailed", "Suppressed"}
      PROVE  rjobs'[f].phase = rjobs[f].phase
  <2>1. Life[f] = rjobs[f].phase /\ Life'[f] = rjobs'[f].phase
    BY <1>3, LifeOf
  <2>2. Life'[f] \in {Life[f], "absent"}
    BY <1>3, <2>1, NextRefines, EndedLife
  <2>3. rjobs'[f].phase \in Phase
    BY <1>2, <1>3 DEF LifeInv, TypeInv, TypeOK, StoreTypeOK, RJob
  <2> QED BY <2>1, <2>2, <2>3 DEF Phase
<1>4. LifeInv /\ [Next]_vars =>
        [\A f \in FP :
           /\ rjobs[f] # NoObject /\ rjobs'[f] # NoObject
           /\ rjobs'[f].uid = rjobs[f].uid
           /\ rjobs[f].phase \in {"Succeeded", "Failed", "PermanentlyFailed", "Suppressed"}
           => rjobs'[f].phase = rjobs[f].phase]_vars
  BY <1>3
<1> QED BY <1>1, <1>2, <1>4, PTL DEF Spec, TerminalIsStable

-----------------------------------------------------------------------------
(***************************************************************************)
(* CancelsOwn.  The names to cancel are listed once, and patched by name   *)
(* later.  In between only the same provider could begin an investigation  *)
(* under one of these names, as no two providers share a fingerprint, and  *)
(* it is busy cancelling: so whatever has the name was created from the    *)
(* object that is gone (Rooted).                                           *)
(***************************************************************************)

(* SourceResultRef tells the source objects apart. *)
RefsDistinct == \A s, t \in Src : SrcRef[s] = SrcRef[t] => s = t

(* Either the list is current, or a fingerprint belongs to one object. *)
ListsOwn ==
  \/ "rjobs" \notin Lagging
  \/ \A s, t \in Src : SrcFindings[s] \cap SrcFindings[t] # {} => s = t

Cancelling == {"cancel", "cancelDelete"}
Beginning == {"deleteFailed", "hierarchy", "create"}

Rooted ==
  /\ \A f \in FP : rjobs[f] # NoObject => f \in SrcFindings[rjobs[f].src]
  /\ \A f \in FP : rjCache[f] # NoObject => f \in SrcFindings[rjCache[f].src]
  /\ \A s \in Src : source[s] \in FP => source[s] \in SrcFindings[s]
  /\ \A p \in Provider :
       /\ prv[p].pc \in Beginning =>
            SrcProvider[prv[p].src] = p /\ prv[p].key \in SrcFindings[prv[p].src]
       /\ prv[p].pc \in Cancelling =>
            /\ prv[p].src \in Src /\ SrcProvider[prv[p].src] = p
            /\ \A f \in prv[p].todo : /\ f \in SrcFindings[prv[p].src]
                                      /\ rjobs[f] # NoObject => rjobs[f].src = prv[p].src

Later == Phase \ {"New", "Cancelled", "Suppressed"}

(* The controller cancels nothing and makes nothing new, and it suppresses *)
(* only the peers of a group.                                              *)
LEMMA CtlPhases ==
  ASSUME TypeInv, CtlStep(Alive), NEW f \in FP, rjobs[f] # NoObject, rjobs'[f] # NoObject
  PROVE  \/ rjobs'[f].phase \in {rjobs[f].phase} \cup Later
         \/ CtlSuppressPeer(f) /\ rjobs'[f].phase = "Suppressed"
<1>1. StoreTypeOK /\ CtlTypeOK /\ rjobs[f] \in RJob
  BY DEF TypeInv, TypeOK, StoreTypeOK
<1>2. ASSUME NEW g, NEW r, PatchRJob(g, r),
             rjobs[g] \in RJob => r.phase \in {rjobs[g].phase} \cup Later
      PROVE  rjobs'[f].phase \in {rjobs[f].phase} \cup Later
  BY <1>1, <1>2 DEF PatchRJob, StoreTypeOK
<1>3. CASE CtlRecordPR \/ CtlSetCompletedAt \/ CtlStamp \/ CtlSetGroup \/ CtlSetLabel \/ CtlRelabel
  <2>1. PICK x : \/ PatchRJob(Key, [rjobs[Key] EXCEPT !.recorded = x])
                 \/ PatchRJob(Key, [rjobs[Key] EXCEPT !.completedAt = x])
                 \/ PatchRJob(Key, [rjobs[Key] EXCEPT !.group = x])
                 \/ PatchRJob(Key, [rjobs[Key] EXCEPT !.label = x])
    BY <1>3, Zenon DEF CtlRecordPR, CtlSetCompletedAt, CtlStamp, CtlSetGroup, CtlSetLabel,
       CtlRelabel, Live, Key
  <2>2. rjobs[Key] \in RJob =>
          /\ [rjobs[Key] EXCEPT !.recorded = x].phase = rjobs[Key].phase
          /\ [rjobs[Key] EXCEPT !.completedAt = x].phase = rjobs[Key].phase
          /\ [rjobs[Key] EXCEPT !.group = x].phase = rjobs[Key].phase
          /\ [rjobs[Key] EXCEPT !.label = x].phase = rjobs[Key].phase
    BY DEF RJob
  <2> QED BY <1>2, <2>1, <2>2, Zenon
<1>4. CASE CtlInitPhase \/ CtlAdopt
  <2>1. PICK x : /\ PatchRJob(Key, [rjobs[Key] EXCEPT !.phase = x])
                 /\ x = rjobs[Key].phase \/ x \in Later
    BY <1>4 DEF CtlInitPhase, CtlAdopt, Live, Key, Merged, SyncPhaseFromJob, Phase, Later
  <2>2. rjobs[Key] \in RJob => [rjobs[Key] EXCEPT !.phase = x].phase = x
    BY DEF RJob
  <2> QED BY <1>2, <2>1, <2>2, Zenon
<1>5. CASE CtlRefuse \/ CtlDispatched
  <2>1. PICK x, y : /\ PatchRJob(Key, [rjobs[Key] EXCEPT !.phase = x, !.recorded = y])
                    /\ x = "PermanentlyFailed" \/ x = "Dispatched"
    BY <1>5, Zenon DEF CtlRefuse, CtlDispatched, Live, Key
  <2>2. rjobs[Key] \in RJob => [rjobs[Key] EXCEPT !.phase = x, !.recorded = y].phase = x
    BY DEF RJob
  <2>3. x \in Later
    BY <2>1 DEF Phase, Later
  <2> QED BY <1>2, <2>1, <2>2, <2>3, Zenon
<1>6. CASE \E p \in FP : CtlSuppressPeer(p)
  <2> DEFINE x == ctl.gid
  <2>1. PICK p \in FP :
          /\ CtlSuppressPeer(p)
          /\ PatchRJob(p, [rjobs[p] EXCEPT !.phase = "Suppressed", !.group = x, !.label = x])
    BY <1>6, Zenon DEF CtlSuppressPeer
  <2>2. rjobs[p] \in RJob => [rjobs[p] EXCEPT !.phase = "Suppressed", !.group = x,
                                              !.label = x].phase = "Suppressed"
    BY DEF RJob
  <2>3. CASE f = p
    <3>1. rjobs'[f].phase = "Suppressed"
      BY <1>1, <2>1, <2>2, <2>3, Zenon DEF PatchRJob, StoreTypeOK
    <3> QED BY <2>1, <2>3, <3>1
  <2>4. CASE f # p
    BY <1>1, <2>1, <2>4, Zenon DEF PatchRJob, StoreTypeOK
  <2> QED BY <2>3, <2>4
<1>7. CASE CtlSync
  <2>1. ctl.pc = "sync" /\ Obj \in RJob
    BY <1>1, <1>7 DEF CtlSync, At, CtlTypeOK, Obj
  <2>2. Synced(Obj, ctl.job).phase \in Later
    <3> DEFINE ph == SyncPhaseFromJob(ctl.job)
    <3>1. PICK x, b, c, d :
            /\ Synced(Obj, ctl.job) = [Obj EXCEPT !.phase = x, !.retry = b, !.completedAt = c,
                                                  !.message = d]
            /\ x = "PermanentlyFailed" \/ x = ph
      BY Zenon DEF Synced
    <3>2. x \in Later
      BY <3>1 DEF SyncPhaseFromJob, Phase, Later
    <3> QED BY <2>1, <3>1, <3>2 DEF RJob
  <2>3. PICK x, b, c, d, e :
          /\ PatchRJob(Key, [rjobs[Key] EXCEPT !.phase = x, !.retry = b, !.completedAt = c,
                                               !.message = d, !.recorded = e])
          /\ x = Merged(Obj.phase, Synced(Obj, ctl.job).phase, rjobs[Key].phase)
    BY <1>7, Zenon DEF CtlSync, Live, Key
  <2>4. x \in {rjobs[Key].phase} \cup Later
    BY <2>2, <2>3 DEF Merged
  <2>5. rjobs[Key] \in RJob =>
          [rjobs[Key] EXCEPT !.phase = x, !.retry = b, !.completedAt = c,
                             !.message = d, !.recorded = e].phase = x
    BY DEF RJob
  <2> QED BY <1>2, <2>3, <2>4, <2>5, Zenon
<1>8. CASE rjobs'[f] = rjobs[f]
  BY <1>8
<1>9. CASE CtlExpire
  BY <1>1, <1>9 DEF CtlExpire, DeleteRJob, StoreTypeOK
<1>10. CASE \/ CtlRecordPRFails \/ CtlReadJob \/ CtlFetchReport
            \/ CtlAwaitPrimary(Alive) \/ CtlSoloFallback \/ CtlLead(Alive) \/ CtlNoGroup(Alive)
            \/ CtlRecover \/ CtlGate \/ CtlCreateJob \/ CtlFindJob \/ CtlReturn
  BY Zenon, <1>8, <1>10 DEF CtlRecordPRFails, CtlReadJob, CtlFetchReport, CtlAwaitPrimary,
     CtlSoloFallback, CtlLead, CtlNoGroup, CtlRecover, CtlGate, CtlCreateJob, CtlFindJob,
     CtlReturn, store
<1> QED
  BY <1>3, <1>4, <1>5, <1>6, <1>7, <1>9, <1>10 DEF CtlStep

(* Of the other steps, only the cancellation of a provider changes the     *)
(* phase, and none the correlation group.                                  *)
LEMMA StatusBy ==
  ASSUME TypeInv, [Next]_vars, ~Step, NEW f \in FP, rjobs[f] # NoObject, rjobs'[f] # NoObject
  PROVE  /\ rjobs'[f].group = rjobs[f].group /\ rjobs'[f].label = rjobs[f].label
         /\ \/ rjobs'[f].phase = rjobs[f].phase
            \/ \E p \in Provider : PrvCancel(p, f)
<1>1. StoreTypeOK /\ PrvTypeOK /\ rjobs[f] \in RJob
  BY DEF TypeInv, TypeOK, StoreTypeOK
<1>2. CASE Cluster
  BY <1>2, ClusterSame DEF SameStatus
<1>3. CASE rjobs'[f] = rjobs[f]
  BY <1>3
<1>4. CASE Sources \/ (\E g \in FP : Get(g)) \/ UNCHANGED vars
  BY Zenon, <1>3, <1>4 DEF Sources, SourceChange, Get, CtlGet, vars, store
<1>5. CASE Fault
  BY Zenon, <1>3, <1>5 DEF Fault, CtlAbort, CtlRecordPRFails, CtlFetchReportFails, PrvAbort,
     PrvCancelFails, store
<1>6. CASE \E p \in Provider, s \in Src : Look(p, s)
  BY Zenon, <1>3, <1>6 DEF Look, PrvGone, PrvFinding, store
<1>7. ASSUME NEW p \in Provider, Work(p)
      PROVE  \/ rjobs'[f] = rjobs[f]
             \/ PrvMerged(p) \/ \E g \in FP : PrvCancel(p, g)
  <2>1. CASE PrvPass(p) \/ PrvSuppress(p)
    BY <2>1 DEF PrvPass, PrvSuppress, store
  <2>2. CASE PrvCancelDelete(p) \/ PrvDeleteFailed(p) \/ PrvDeleteTombstone(p)
    BY <1>1, <2>2 DEF PrvCancelDelete, PrvDeleteFailed, PrvDeleteTombstone, DeleteRJob, StoreTypeOK
  <2>3. CASE PrvCreate(p)
    BY <1>1, <2>3 DEF PrvCreate, StoreTypeOK
  <2> QED BY <1>7, <2>1, <2>2, <2>3 DEF Work, PrvStep
<1>8. ASSUME NEW p \in Provider, PrvMerged(p)
      PROVE  /\ rjobs'[f].group = rjobs[f].group /\ rjobs'[f].label = rjobs[f].label
             /\ rjobs'[f].phase = rjobs[f].phase
  <2>1. PICK r : /\ r = [rjobs[prv[p].key] EXCEPT !.merged = TRUE, !.mergedAt = now]
                 /\ PatchRJob(prv[p].key, r)
    BY <1>8, Zenon DEF PrvMerged
  <2>2. rjobs[prv[p].key] \in RJob => /\ r.phase = rjobs[prv[p].key].phase
                                      /\ r.group = rjobs[prv[p].key].group
                                      /\ r.label = rjobs[prv[p].key].label
    BY <2>1 DEF RJob
  <2> QED BY <1>1, <2>1, <2>2 DEF PatchRJob, StoreTypeOK
<1>9. ASSUME NEW p \in Provider, NEW g \in FP, PrvCancel(p, g)
      PROVE  /\ rjobs'[f].group = rjobs[f].group /\ rjobs'[f].label = rjobs[f].label
             /\ rjobs'[f].phase = rjobs[f].phase \/ PrvCancel(p, f)
  <2>1. PICK r : /\ r = [rjobs[g] EXCEPT !.phase = "Cancelled"]
                 /\ PatchRJob(g, r)
    BY <1>9, Zenon DEF PrvCancel
  <2>2. rjobs[g] \in RJob => r.group = rjobs[g].group /\ r.label = rjobs[g].label
    BY <2>1 DEF RJob
  <2> QED BY <1>1, <1>9, <2>1, <2>2 DEF PatchRJob, StoreTypeOK
<1>10. CASE \E p \in Provider : Work(p)
  BY <1>3, <1>7, <1>8, <1>9, <1>10
<1> QED
  BY <1>2, <1>4, <1>5, <1>6, <1>10 DEF Next

(* What the goroutine of a provider remembers, it remembered before or has *)
(* just read.                                                              *)
LEMMA PrvMemory ==
  ASSUME TypeInv, [Next]_vars, NEW p \in Provider
  PROVE  \/ prv'[p] = prv[p]
         \/ prv'[p].pc \in {"idle", "tombstone"}
         \/ \E s \in Src : Look(p, s)
         \/ /\ prv[p].pc \in Cancelling /\ prv'[p].pc \in Cancelling
            /\ prv'[p].src = prv[p].src /\ prv'[p].todo \subseteq prv[p].todo
         \/ /\ prv[p].pc \in Beginning /\ prv'[p].pc \in Beginning
            /\ prv'[p].src = prv[p].src /\ prv'[p].key = prv[p].key
<1>1. PrvTypeOK /\ prv \in [Provider -> PrvState]
  BY DEF TypeInv, TypeOK, PrvTypeOK
<1>2. ASSUME prv' = prv
      PROVE  prv'[p] = prv[p]
  BY <1>2
<1>3. CASE Cluster \/ Sources \/ Step \/ (\E g \in FP : Get(g)) \/ UNCHANGED vars
  BY <1>2, <1>3, Zenon DEF Cluster, ClusterVars, Sources, SourceChange, Step, Get, vars, prvVars
<1>4. Waiting.pc = "idle"
  BY DEF Waiting
<1>5. ASSUME NEW q \in Provider, PrvReturn(q)
      PROVE  prv'[p] = prv[p] \/ prv'[p].pc = "idle"
  BY <1>1, <1>4, <1>5 DEF PrvReturn
<1>6. ASSUME NEW q \in Provider, NEW pc, PrvGoto(q, pc)
      PROVE  \/ prv'[p] = prv[p]
             \/ /\ q = p /\ prv'[p].pc = pc /\ prv'[p].src = prv[p].src
                /\ prv'[p].key = prv[p].key /\ prv'[p].todo = prv[p].todo
  BY <1>1, <1>6 DEF PrvGoto, PrvState
<1>7. ASSUME NEW q \in Provider, NEW f, PrvCancel(q, f)
      PROVE  \/ prv'[p] = prv[p]
             \/ /\ q = p /\ prv'[p].pc = "cancelDelete" /\ prv'[p].src = prv[p].src
                /\ prv'[p].todo \subseteq prv[p].todo /\ prv[p].pc = "cancel"
  BY <1>1, <1>7 DEF PrvCancel, PrvAt, PrvState
<1>8. ASSUME NEW q \in Provider, NEW f, PrvCancelFails(q, f)
      PROVE  \/ prv'[p] = prv[p] \/ prv'[p].pc = "idle"
             \/ /\ q = p /\ prv'[p].pc = "cancel" /\ prv'[p].src = prv[p].src
                /\ prv'[p].todo \subseteq prv[p].todo /\ prv[p].pc \in Cancelling
  <2>1. PrvReturn(q) \/ prv' = [prv EXCEPT ![q].pc = "cancel", ![q].todo = prv[q].todo \ {f}]
    BY <1>8, Zenon DEF PrvCancelFails
  <2>2. prv[q].pc \in Cancelling
    BY <1>8 DEF PrvCancelFails, PrvAt, Cancelling
  <2> QED BY <1>1, <1>5, <2>1, <2>2 DEF PrvState
<1>9. CASE Fault
  <2>1. PICK q \in Provider : prv' = prv \/ PrvAbort(q) \/ \E f \in FP : PrvCancelFails(q, f)
    BY <1>9, Zenon DEF Fault, prvVars
  <2> QED BY <1>5, <1>8, <2>1 DEF PrvAbort, Cancelling
<1>10. ASSUME NEW q \in Provider, NEW s \in Src, Look(q, s)
       PROVE  prv'[p] = prv[p] \/ Look(p, s)
  <2>1. \E r : prv' = [prv EXCEPT ![q] = r]
    BY <1>10, Zenon DEF Look, PrvGone, PrvFinding
  <2> QED BY <1>1, <1>10, <2>1
<1>11. ASSUME NEW q \in Provider, Work(q)
       PROVE  \/ prv'[p] = prv[p]
              \/ prv'[p].pc = "idle"
              \/ /\ prv[p].pc \in Cancelling /\ prv'[p].pc \in Cancelling
                 /\ prv'[p].src = prv[p].src /\ prv'[p].todo \subseteq prv[p].todo
              \/ /\ prv[p].pc \in Beginning /\ prv'[p].pc \in Beginning
                 /\ prv'[p].src = prv[p].src /\ prv'[p].key = prv[p].key
  <2>1. CASE \E f \in FP : PrvCancel(q, f)
    BY <1>7, <2>1 DEF Cancelling
  <2>2. CASE PrvCancelDelete(q)
    <3>1. prv[q].pc \in Cancelling /\ (PrvReturn(q) \/ PrvGoto(q, "cancel"))
      BY <2>2 DEF PrvCancelDelete, PrvAt, Cancelling
    <3>2. CASE PrvReturn(q)
      BY <1>5, <3>2
    <3>3. CASE PrvGoto(q, "cancel")
      BY <1>6, <3>1, <3>3 DEF Cancelling
    <3> QED BY <3>1, <3>2, <3>3
  <2>3. CASE PrvDeleteFailed(q) \/ PrvPass(q)
    BY <1>6, <2>3 DEF PrvDeleteFailed, PrvPass, PrvAt, Beginning
  <2>4. CASE PrvMerged(q) \/ PrvDeleteTombstone(q) \/ PrvCreate(q) \/ PrvSuppress(q)
    BY <1>5, <2>4 DEF PrvMerged, PrvDeleteTombstone, PrvCreate, PrvSuppress
  <2> QED BY <1>11, <2>1, <2>2, <2>3, <2>4 DEF Work, PrvStep
<1> QED
  BY <1>3, <1>9, <1>10, <1>11 DEF Next

(* Every step keeps the investigations rooted. *)
LEMMA NextRooted ==
  ASSUME FingerprintsApart, RefsDistinct, ListsOwn, TypeInv, TypeInv', Rooted, [Next]_vars
  PROVE  Rooted'
<1>1. StoreTypeOK /\ PrvTypeOK /\ rjCache' \in {rjCache, rjobs}
  BY StepFrame DEF TypeInv, TypeOK
<1>2. ASSUME NEW p \in Provider, PrvCreate(p)
      PROVE  /\ prv[p].key \in SrcFindings[prv[p].src] /\ prv[p].src \in Src
             /\ SrcProvider[prv[p].src] = p /\ prv[p].pc = "create"
             /\ NewRJob(nextUid, prv[p].src).src = prv[p].src
  BY <1>1, <1>2 DEF PrvCreate, PrvAt, Rooted, Beginning, NewRJob, PrvTypeOK
<1>3. ASSUME NEW f \in FP, rjobs'[f] # NoObject
      PROVE  f \in SrcFindings[rjobs'[f].src]
  <2>1. CASE rjobs[f] # NoObject /\ rjobs'[f].src = rjobs[f].src
    BY <2>1 DEF Rooted
  <2>2. ASSUME NEW p \in Provider, PrvCreate(p), f = prv[p].key,
               rjobs'[f] = NewRJob(nextUid, prv[p].src)
        PROVE  f \in SrcFindings[rjobs'[f].src]
    <3>1. /\ prv[p].key \in SrcFindings[prv[p].src]
          /\ NewRJob(nextUid, prv[p].src).src = prv[p].src
      BY <1>2, <2>2
    <3> QED BY <2>2, <3>1
  <2> QED BY <1>3, <2>1, <2>2, Incarnations
<1>4. ASSUME NEW f \in FP, rjCache'[f] # NoObject
      PROVE  f \in SrcFindings[rjCache'[f].src]
  BY <1>1, <1>4 DEF Rooted
<1>5. ASSUME NEW s \in Src, source'[s] \in FP
      PROVE  source'[s] \in SrcFindings[s]
  <2>1. CASE source' = source
    BY <1>5, <2>1 DEF Rooted
  <2>2. CASE \E t \in Src, v \in FP \cup {"healthy", "gone"} : SourceChange(t, v)
    <3>1. PICK t \in Src, v \in FP \cup {"healthy", "gone"} : SourceChange(t, v)
      BY <2>2
    <3>2. source'[s] = source[s] \/ (s = t /\ source'[s] = v)
      BY <1>1, <3>1 DEF SourceChange, PrvTypeOK
    <3>3. v \in FP => v \in SrcFindings[t]
      BY <3>1 DEF SourceChange, FingerprintsApart
    <3> QED BY <1>5, <3>2, <3>3 DEF Rooted
  <2>3. CASE Sources
    BY <2>2, <2>3 DEF Sources
  <2>4. CASE Cluster \/ Step \/ (\E g \in FP : Get(g)) \/ UNCHANGED vars
    BY <2>1, <2>4, Zenon DEF Cluster, Step, Get, vars, prvVars
  <2>5. CASE Fault
    BY <2>1, <2>5, Zenon DEF Fault, PrvAbort, PrvCancelFails, prvVars
  <2>6. CASE \E p \in Provider, t \in Src : Look(p, t)
    BY <2>1, <2>6, Zenon DEF Look, PrvGone, PrvFinding
  <2>7. CASE \E p \in Provider : Work(p)
    BY <2>1, <2>7, Zenon DEF Work, PrvStep, PrvCancel, PrvCancelDelete, PrvDeleteFailed,
       PrvMerged, PrvDeleteTombstone, PrvPass, PrvCreate, PrvSuppress, PrvOnlyRJobs
  <2> QED BY <2>3, <2>4, <2>5, <2>6, <2>7 DEF Next
<1>6. ASSUME NEW p \in Provider, NEW s \in Src, PrvFinding(p, s)
      PROVE  /\ SrcProvider[s] = p /\ source[s] \in SrcFindings[s]
             /\ prv'[p].src = s /\ prv'[p].key = source[s] /\ prv'[p].pc \notin Cancelling
  <2>1. PICK pc \in {"hierarchy", "deleteFailed", "tombstone"} : \E o :
          prv' = [prv EXCEPT ![p] = [Waiting EXCEPT !.pc = pc, !.src = s, !.key = source[s],
                                                    !.obj = o]]
    BY <1>6, Zenon DEF PrvFinding
  <2>2. prv'[p].src = s /\ prv'[p].key = source[s] /\ prv'[p].pc = pc
    BY <1>1, <2>1 DEF PrvTypeOK, Waiting
  <2>3. SrcProvider[s] = p /\ source[s] \in SrcFindings[s]
    BY <1>6 DEF PrvFinding, Rooted
  <2> QED BY <2>1, <2>2, <2>3 DEF Cancelling
<1>7. ASSUME NEW p \in Provider, NEW s \in Src, PrvGone(p, s)
      PROVE  /\ SrcProvider[s] = p /\ prv'[p].src = s /\ prv'[p].todo = CreatedFrom(s)
             /\ prv'[p].pc \notin Beginning /\ rjobs' = rjobs
  BY <1>1, <1>7 DEF PrvGone, PrvTypeOK, Waiting, Beginning, store
<1>8. ASSUME NEW p \in Provider, prv'[p].pc \in Beginning
      PROVE  SrcProvider[prv'[p].src] = p /\ prv'[p].key \in SrcFindings[prv'[p].src]
  <2>1. CASE \E s \in Src : Look(p, s)
    BY <1>6, <1>7, <1>8, <2>1 DEF Look
  <2>2. CASE /\ prv[p].pc \in Beginning
             /\ prv'[p].src = prv[p].src /\ prv'[p].key = prv[p].key
    BY <2>2 DEF Rooted
  <2>3. prv'[p].pc \notin {"idle", "tombstone"} /\ prv'[p].pc \notin Cancelling
    BY <1>8 DEF Beginning, Cancelling
  <2> QED BY <1>8, <2>1, <2>2, <2>3, PrvMemory
<1>9. ASSUME NEW p \in Provider, prv[p].pc \in Cancelling, NEW f \in prv[p].todo,
             f \in FP, rjobs'[f] # NoObject
      PROVE  rjobs'[f].src = prv[p].src
  <2>1. /\ prv[p].src \in Src /\ SrcProvider[prv[p].src] = p /\ f \in SrcFindings[prv[p].src]
        /\ rjobs[f] # NoObject => rjobs[f].src = prv[p].src
    BY <1>9 DEF Rooted
  <2>2. ASSUME NEW q \in Provider, PrvCreate(q), f = prv[q].key
        PROVE  FALSE
    <3>1. f \in SrcFindings[prv[q].src] \cap SrcFindings[prv[p].src]
      BY <1>2, <2>1, <2>2
    <3>2. q = p
      <4>1. SrcProvider[prv[q].src] = q /\ prv[q].src \in Src
        BY <1>2, <2>2
      <4> QED BY <2>1, <3>1, <4>1 DEF FingerprintsApart
    <3> QED BY <1>2, <1>9, <2>2, <3>2 DEF Cancelling
  <2> QED BY <1>9, <2>1, <2>2, Incarnations
<1>10. ASSUME NEW s \in Src, NEW f \in CreatedFrom(s)
       PROVE  /\ f \in FP /\ f \in SrcFindings[s]
              /\ rjobs[f] # NoObject => rjobs[f].src = s
  <2>1. /\ f \in FP /\ RJobView[f] # NoObject /\ SrcRef[RJobView[f].src] = SrcRef[s]
    BY <1>10 DEF CreatedFrom
  <2>2. RJobView[f] \in RJob /\ f \in SrcFindings[RJobView[f].src]
    BY <1>1, <2>1 DEF RJobView, StoreTypeOK, Rooted
  <2>3. RJobView[f].src = s
    BY <2>1, <2>2, RJobReads DEF RefsDistinct
  <2>4. ASSUME rjobs[f] # NoObject
        PROVE  rjobs[f].src = s
    <3>1. CASE "rjobs" \notin Lagging
      BY <2>3, <3>1 DEF RJobView
    <3>2. CASE \A t, u \in Src : SrcFindings[t] \cap SrcFindings[u] # {} => t = u
      <4>1. rjobs[f].src \in Src /\ f \in SrcFindings[rjobs[f].src] \cap SrcFindings[s]
        <5>1. rjobs[f] \in RJob
          BY <1>1, <2>1, <2>4 DEF StoreTypeOK
        <5>2. f \in SrcFindings[rjobs[f].src] /\ f \in SrcFindings[s]
          BY <2>1, <2>2, <2>3, <2>4, Zenon DEF Rooted
        <5> QED BY <5>1, <5>2, RJobReads
      <4> QED BY <3>2, <4>1
    <3> QED BY <3>1, <3>2 DEF ListsOwn
  <2> QED BY <2>1, <2>2, <2>3, <2>4
<1>11. ASSUME NEW p \in Provider, prv'[p].pc \in Cancelling
       PROVE  /\ prv'[p].src \in Src /\ SrcProvider[prv'[p].src] = p
              /\ \A f \in prv'[p].todo : /\ f \in SrcFindings[prv'[p].src]
                                         /\ rjobs'[f] # NoObject => rjobs'[f].src = prv'[p].src
  <2>1. CASE \E s \in Src : Look(p, s)
    <3>1. PICK s \in Src : PrvGone(p, s)
      BY <1>6, <1>11, <2>1 DEF Look
    <3>2. /\ SrcProvider[s] = p /\ prv'[p].src = s /\ prv'[p].todo = CreatedFrom(s)
          /\ rjobs' = rjobs
      BY <1>7, <3>1
    <3> QED BY <1>10, <3>2
  <2>2. CASE /\ prv[p].pc \in Cancelling
             /\ prv'[p].src = prv[p].src /\ prv'[p].todo \subseteq prv[p].todo
    <3>1. prv[p].todo \subseteq FP
      BY <1>1 DEF PrvTypeOK, PrvState
    <3> QED BY <1>9, <2>2, <3>1 DEF Rooted
  <2>3. prv'[p].pc \notin {"idle", "tombstone"} /\ prv'[p].pc \notin Beginning
    BY <1>11 DEF Beginning, Cancelling
  <2> QED BY <1>11, <2>1, <2>2, <2>3, PrvMemory
<1> QED BY <1>3, <1>4, <1>5, <1>8, <1>11 DEF Rooted

(* Deleting a source object cancels only the investigations created from   *)
(* it, for any number of objects, providers and findings, whatever fails   *)
(* and whatever happens between the list and the patches: as long as       *)
(* SourceResultRef tells the objects apart, and the list is current or no  *)
(* two objects share a fingerprint.                                        *)
THEOREM CancelsOnlyOwn ==
  ASSUME FingerprintsApart, RefsDistinct, ListsOwn
  PROVE  Spec => CancelsOwn
<1>1. Init => TypeInv /\ Rooted
  <2>1. Init => TypeInv
    BY InitType
  <2>2. Init => Rooted
    <3>1. SUFFICES ASSUME Init
                   PROVE  Rooted
      OBVIOUS
    <3>2. /\ rjobs = [f \in FP |-> NoObject] /\ rjCache = [f \in FP |-> NoObject]
          /\ source = [s \in Src |-> "healthy"] /\ \A p \in Provider : prv[p].pc = "idle"
      BY <3>1 DEF Init, InitStore, InitPrv, Waiting
    <3> QED BY <3>2 DEF Rooted, Beginning, Cancelling, FingerprintsApart
  <2> QED BY <2>1, <2>2
<1>2. TypeInv /\ Rooted /\ [Next]_vars => (TypeInv /\ Rooted)'
  BY NextType, NextRooted
<1>3. TypeInv /\ Rooted /\ [Next]_vars =>
        [\A f \in FP : rjobs[f] # NoObject /\ rjobs'[f] # NoObject
                       /\ rjobs[f].phase # "Cancelled" /\ rjobs'[f].phase = "Cancelled"
                       => \E p \in Provider : prv[p].pc = "cancel" /\ prv[p].src = rjobs[f].src]_vars
  <2> SUFFICES ASSUME TypeInv, Rooted, [Next]_vars, NEW f \in FP,
                      rjobs[f] # NoObject, rjobs'[f] # NoObject,
                      rjobs[f].phase # "Cancelled", rjobs'[f].phase = "Cancelled"
               PROVE  \E p \in Provider : prv[p].pc = "cancel" /\ prv[p].src = rjobs[f].src
    OBVIOUS
  <2>1. PICK p \in Provider : PrvCancel(p, f)
    BY CtlPhases, StatusBy DEF Step, Later
  <2>2. prv[p].pc = "cancel" /\ f \in prv[p].todo
    BY <2>1 DEF PrvCancel, PrvAt
  <2> QED BY <2>2 DEF Rooted, Cancelling
<1> QED BY <1>1, <1>2, <1>3, PTL DEF Spec, CancelsOwn
=============================================================================
