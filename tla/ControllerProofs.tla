-------------------------- MODULE ControllerProofs --------------------------
(***************************************************************************)
(* What the two decisions that hold a finding back promise, for every      *)
(* value of the constants.  A finding that correlation suppresses is not   *)
(* given a Job of its own (SuppressedNeverDispatched), and the Job of the  *)
(* primary carries it (SuppressedIsCarried), as long as no API call fails. *)
(* The concurrency gate keeps the active Jobs within their limit           *)
(* (ConcurrencyBound).                                                     *)
(***************************************************************************)
EXTENDS InvestigationProofs, FiniteSetTheorems

OwnJob(f) == rjobs[f] # NoObject /\ jobs[f] # NoObject /\ jobs[f].owner = rjobs[f].uid

(* An incarnation that has a Job was dispatched: only the reconcile that   *)
(* created the Job has not said so yet.                                    *)
JobsTold ==
  \A f \in FP : OwnJob(f) =>
    /\ rjobs[f].phase \notin {"New", "Suppressed"}
    /\ rjobs[f].phase = "Pending" => ctl.pc = "dispatched" /\ ctl.key = f

ToldInv ==
  /\ LifeInv /\ FreshUids /\ Dispatched /\ OwnersKnown
  /\ faults <= MaxFaults
  /\ faults = MaxFaults => JobsTold

-----------------------------------------------------------------------------
(* The reconcile that created a Job does nothing before it says so. *)
LEMMA AtDispatched ==
  ASSUME TypeInv, [Next]_vars, ~Fault, ctl.pc = "dispatched"
  PROVE  \/ ctl' = ctl /\ ~Step
         \/ /\ Step /\ CtlDispatched
            /\ rjobs[ctl.key] # NoObject => rjobs'[ctl.key].phase = "Dispatched"
<1>1. StoreTypeOK /\ ctl.key \in FP
  BY DEF TypeInv, TypeOK, CtlTypeOK
<1>2. CASE Step
  <2>1. CtlDispatched
    BY <1>2, Zenon DEF Step, CtlStep, At, CtlRecordPR, CtlRecordPRFails, CtlInitPhase,
       CtlSetCompletedAt, CtlExpire, CtlStamp, CtlReadJob, CtlFetchReport, CtlSync,
       CtlAwaitPrimary, CtlSoloFallback, CtlLead, CtlSuppressPeer, CtlSetGroup, CtlSetLabel,
       CtlNoGroup, CtlRecover, CtlRelabel, CtlGate, CtlRefuse, CtlCreateJob, CtlFindJob,
       CtlAdopt, CtlReturn, Undispatched
  <2>2. PICK y : PatchRJob(ctl.key, [rjobs[ctl.key] EXCEPT !.phase = "Dispatched", !.recorded = y])
    BY <2>1, Zenon DEF CtlDispatched, Key, Live
  <2>3. rjobs[ctl.key] \in RJob =>
          [rjobs[ctl.key] EXCEPT !.phase = "Dispatched", !.recorded = y].phase = "Dispatched"
    BY DEF RJob
  <2>4. rjobs[ctl.key] # NoObject => rjobs'[ctl.key].phase = "Dispatched"
    BY <1>1, <2>2, <2>3 DEF PatchRJob, StoreTypeOK
  <2> QED BY <1>2, <2>1, <2>4
<1>3. CASE ~Step
  <2>1. ~\E f \in FP : Get(f)
    BY DEF Get, CtlGet, At
  <2> QED BY <1>3, <2>1, Zenon DEF Next, Cluster, Sources, Look, Work, vars, ctlVars
<1> QED BY <1>2, <1>3

(* An incarnation that has a Job had it before, or dispatch has just       *)
(* created it for a Pending object.                                        *)
LEMMA OwnJobOrigin ==
  ASSUME ToldInv, [Next]_vars, NEW f \in FP, OwnJob(f)'
  PROVE  \/ OwnJob(f) /\ jobs'[f].findings = jobs[f].findings
         \/ Step /\ CtlCreateJob /\ f = ctl.key
<1>1. TypeInv /\ rjobs'[f] # NoObject /\ jobs'[f] # NoObject /\ jobs'[f].owner = rjobs'[f].uid
  BY DEF ToldInv, LifeInv, OwnJob
<1>2. CASE jobs[f] # NoObject /\ jobs'[f].owner = jobs[f].owner
           /\ jobs'[f].findings = jobs[f].findings
  <2>1. jobs[f].owner \in Nat /\ nextUid \in Nat /\ jobs[f].owner < nextUid
    BY <1>1, <1>2, OwnerType DEF ToldInv, OwnersKnown
  <2>2. rjobs'[f].uid # nextUid
    BY <1>1, <1>2, <2>1
  <2>3. rjobs[f] # NoObject /\ rjobs'[f].uid = rjobs[f].uid
    BY <1>1, <2>2, Incarnations, FreshRJob
  <2> QED BY <1>1, <1>2, <2>3, Zenon DEF OwnJob
<1> QED BY <1>1, <1>2, JobOrigin DEF Key

(* What a Create that succeeds leads to. *)
LEMMA CreateTells ==
  ASSUME LifeInv, Step, CtlCreateJob
  PROVE  /\ rjobs' = rjobs /\ ctl.key \in FP /\ ctl'.pc = "dispatched" /\ ctl'.key = ctl.key
         /\ rjobs[ctl.key] # NoObject /\ rjobs[ctl.key].phase = "Pending"
         /\ ctl.findings \subseteq jobs'[ctl.key].findings
         /\ \A g \in FP \ {ctl.key} : jobs'[g] = jobs[g]
<1>1. StoreTypeOK /\ CtlTypeOK /\ ctl.pc = "create" /\ ctl.key \in FP /\ ctl \in CtlState
  BY DEF LifeInv, TypeInv, TypeOK, CtlCreateJob, At, CtlTypeOK
<1>2. rjobs' = rjobs /\ ctl' = [ctl EXCEPT !.pc = "dispatched"]
      /\ jobs' = [jobs EXCEPT ![ctl.key] = NewJob(Key, Obj.uid, ctl.findings)]
  BY DEF CtlCreateJob, Goto, Key
<1>3. ctl'.pc = "dispatched" /\ ctl'.key = ctl.key
  BY <1>1, <1>2 DEF CtlState
<1>4. Obj.phase = "Pending" /\ Life[ctl.key] = "Pending"
  BY <1>1 DEF LifeInv, CtlAgrees, Dispatching, Open, Key
<1>5. rjobs[ctl.key] # NoObject /\ rjobs[ctl.key].phase = "Pending"
  BY <1>1, <1>4, LifeOf
<1>6. ctl.findings \subseteq NewJob(Key, Obj.uid, ctl.findings).findings
  BY DEF NewJob
<1> QED BY <1>1, <1>2, <1>3, <1>5, <1>6 DEF StoreTypeOK

(* Only an investigation that is not accepted or still Pending is ever New *)
(* or Pending after a step.                                                *)
LEMMA LeavesPending ==
  ASSUME [Abstract!Next]_Life, NEW f \in FP, Life[f] \notin {"absent", "New", "Pending"}
  PROVE  Life'[f] \notin {"New", "Pending"}
<1>1. CASE Life' = Life
  BY <1>1
<1>2. ASSUME NEW g \in FP, NEW B, NEW A, Abstract!Becomes(g, B, A), "New" \notin A, "Pending" \notin A
      PROVE  Life'[f] \notin {"New", "Pending"}
  BY <1>2, Zenon DEF Abstract!Becomes, Life
<1>3. ASSUME NEW g \in FP, NEW B, NEW A, Abstract!Becomes(g, B, A), Life[f] \notin B
      PROVE  Life'[f] \notin {"New", "Pending"}
  BY <1>3, Zenon DEF Abstract!Becomes, Life
<1>4. ASSUME NEW g \in FP, Abstract!Begin(g) \/ Abstract!Accept(g)
      PROVE  Life'[f] \notin {"New", "Pending"}
  BY <1>3, <1>4 DEF Abstract!Begin, Abstract!Accept
<1>5. ASSUME NEW g \in FP,
             \/ Abstract!Suppress(g) \/ Abstract!Work(g) \/ Abstract!Finish(g)
             \/ Abstract!Forget(g) \/ Abstract!Withdraw(g)
      PROVE  Life'[f] \notin {"New", "Pending"}
  BY <1>2, <1>5 DEF Abstract!Suppress, Abstract!Work, Abstract!Finish, Abstract!Forget,
     Abstract!Withdraw
<1> QED BY <1>1, <1>4, <1>5 DEF Abstract!Next

(* Who suppresses: the reconcile of a primary, a Pending peer. *)
LEMMA SuppressedBy ==
  ASSUME LifeInv, [Next]_vars, NEW f \in FP, rjobs[f] # NoObject, rjobs'[f] # NoObject,
         rjobs[f].phase # "Suppressed", rjobs'[f].phase = "Suppressed", ReadsCurrent
  PROVE  Step /\ CtlSuppressPeer(f) /\ rjobs[f].phase = "Pending" /\ ctl.pc = "suppress"
<1>1. TypeInv /\ PrvAgrees
  BY DEF LifeInv
<1>2. \A p \in Provider : ~PrvCancel(p, f)
  BY <1>1 DEF PrvAgrees, PrvCancel, PrvAt
<1>3. Step
  BY <1>1, <1>2, StatusBy
<1>4. CtlSuppressPeer(f)
  BY <1>1, <1>3, CtlPhases DEF Step, Later
<1>5. ctl.pc = "suppress" /\ f \in ctl.peers
  BY <1>4 DEF CtlSuppressPeer, At
<1>6. Life[f] = "Pending"
  BY <1>5 DEF LifeInv, CtlAgrees
<1> QED BY <1>3, <1>4, <1>5, <1>6, LifeOf

(* Every step that is not a fault keeps JobsTold. *)
LEMMA NextTold ==
  ASSUME ReadsCurrent, ToldInv, JobsTold, [Next]_vars, ~Fault
  PROVE  JobsTold'
<1>1. SUFFICES ASSUME NEW f \in FP, OwnJob(f)'
               PROVE  /\ rjobs'[f].phase \notin {"New", "Suppressed"}
                      /\ rjobs'[f].phase = "Pending" => ctl'.pc = "dispatched" /\ ctl'.key = f
  BY DEF JobsTold
<1>2. LifeInv /\ TypeInv /\ LifeInv' /\ [Abstract!Next]_Life /\ rjobs'[f] # NoObject
  BY <1>1, NextRefines DEF ToldInv, LifeInv, OwnJob
<1>3. CASE Step /\ CtlCreateJob /\ f = ctl.key
  BY <1>2, <1>3, CreateTells
<1>4. CASE OwnJob(f)
  <2>1. /\ rjobs[f] # NoObject /\ rjobs[f].phase \notin {"New", "Suppressed"}
        /\ rjobs[f].phase = "Pending" => ctl.pc = "dispatched" /\ ctl.key = f
        /\ rjobs[f].phase \in Phase
    BY <1>2, <1>4 DEF JobsTold, OwnJob, TypeInv, TypeOK, StoreTypeOK, RJob
  <2>2. rjobs'[f].phase # "Suppressed"
    BY <1>2, <2>1, SuppressedBy
  <2>3. Life[f] = rjobs[f].phase /\ Life'[f] = rjobs'[f].phase
    BY <1>2, <2>1, LifeOf
  <2>4. CASE rjobs[f].phase # "Pending"
    <3>1. Life[f] \notin {"absent", "New", "Pending"}
      BY <2>1, <2>3, <2>4 DEF Phase
    <3> QED BY <1>2, <2>2, <2>3, <3>1, LeavesPending
  <2>5. CASE rjobs[f].phase = "Pending"
    <3>1. ctl.pc = "dispatched" /\ ctl.key = f
      BY <2>1, <2>5
    <3>2. CASE Step
      BY <1>2, <2>1, <3>1, <3>2, AtDispatched
    <3>3. CASE ~Step
      <4>1. ctl' = ctl
        BY <1>2, <3>1, <3>3, AtDispatched
      <4>2. \A p \in Provider : ~PrvCancel(p, f)
        BY <1>2 DEF LifeInv, PrvAgrees, PrvCancel, PrvAt
      <4>3. rjobs'[f].phase = "Pending"
        BY <1>2, <2>1, <2>5, <3>3, <4>2, StatusBy
      <4> QED BY <3>1, <4>1, <4>3
    <3> QED BY <3>2, <3>3
  <2> QED BY <2>4, <2>5
<1> QED BY <1>1, <1>3, <1>4, OwnJobOrigin

(* A step that leaves all faults to come is none. *)
LEMMA NoFaultYet ==
  ASSUME TypeInv, [Next]_vars, faults <= MaxFaults
  PROVE  faults' <= MaxFaults /\ (faults' = MaxFaults => faults = MaxFaults /\ ~Fault)
<1>1. faults \in Nat /\ MaxFaults \in Nat
  BY NumberAssumption DEF TypeInv, TypeOK
<1>2. Fault => faults' = faults - 1
  BY DEF Fault
<1> QED BY <1>1, <1>2, StepFrame

(* What the first theorem rests on is preserved. *)
LEMMA NextToldInv ==
  ASSUME ReadsCurrent, ToldInv, [Next]_vars
  PROVE  ToldInv'
<1>1. TypeInv /\ LifeInv'
  BY NextRefines DEF ToldInv, LifeInv
<1>2. DispatchInv /\ OwnersKnown
  BY <1>1 DEF ToldInv, DispatchInv
<1>3. FreshUids' /\ Dispatched' /\ OwnersKnown'
  BY <1>2, NextDispatch, NextOwners DEF DispatchInv
<1>4. faults' <= MaxFaults /\ (faults' = MaxFaults => faults = MaxFaults /\ ~Fault)
  BY <1>1, NoFaultYet DEF ToldInv
<1>5. faults' = MaxFaults => JobsTold'
  BY <1>4, NextTold DEF ToldInv
<1> QED BY <1>1, <1>3, <1>4, <1>5 DEF ToldInv

(* Nothing is stored at first. *)
LEMMA InitTold ==
  ASSUME Init
  PROVE  ToldInv
<1>1. LifeInv /\ DispatchInv
  BY InitLife, InitDispatch
<1>2. /\ rjobs = [f \in FP |-> NoObject] /\ jobs = [f \in FP |-> NoObject]
      /\ jobCache = [f \in FP |-> NoObject] /\ ctl.job = NoObject /\ faults = MaxFaults
  BY DEF Init, InitStore, InitCtl, Resting
<1>3. OwnersKnown /\ JobsTold
  BY <1>2 DEF OwnersKnown, JobsTold, OwnJob
<1>4. faults <= MaxFaults
  BY <1>2, NumberAssumption
<1> QED BY <1>1, <1>3, <1>4 DEF ToldInv, DispatchInv

(* A finding that was suppressed in favour of a primary is not             *)
(* investigated by a Job of its own, for any number of findings and any    *)
(* correlation rules' verdicts, although the correlator decides on a list  *)
(* and suppresses some steps later: as long as no API call fails,          *)
(* RemediationJobs are read without lag and no watched object is deleted.  *)
(* The Job cache may lag.                                                  *)
THEOREM NeverDispatchedWhenSuppressed ==
  ASSUME ReadsCurrent
  PROVE  Spec => []SuppressedNeverDispatched
<1>1. Init => ToldInv
  BY InitTold
<1>2. ToldInv /\ [Next]_vars => ToldInv'
  BY NextToldInv
<1>3. ToldInv => SuppressedNeverDispatched
  BY DEF ToldInv, JobsTold, OwnJob, SuppressedNeverDispatched
<1> QED BY <1>1, <1>2, <1>3, PTL DEF Spec

-----------------------------------------------------------------------------
(***************************************************************************)
(* SuppressedIsCarried.  A group ID is drawn by the reconcile that leads   *)
(* the group, so until that reconcile has dispatched, the objects that     *)
(* carry the ID are the peers it has suppressed and, in the end, its own   *)
(* (Gathered); and as no reconcile is cut short, an object that is not     *)
(* dispatched carries an ID only while its reconcile leads (Named).        *)
(***************************************************************************)
Unsettled == {"New", "Pending"}

Named ==
  \A f \in FP : rjobs[f] # NoObject =>
    /\ rjobs[f].group < nextGroup
    /\ rjobs[f].phase = "Suppressed" => rjobs[f].group # NoGroup
    /\ rjobs[f].phase \in Unsettled /\ rjobs[f].group # NoGroup =>
         ctl.key = f /\ ctl.pc \in {"label", "create", "dispatched"} /\ rjobs[f].group = ctl.gid
    /\ rjobs[f].phase \in Unsettled /\ rjobs[f].label # NoGroup =>
         ctl.key = f /\ ctl.pc \in {"create", "dispatched"}

Gathered ==
  /\ ctl.gid < nextGroup
  /\ ctl.gid # NoGroup =>
       \A f \in FP : rjobs[f] # NoObject /\ rjobs[f].group = ctl.gid =>
         \/ rjobs[f].phase = "Suppressed" /\ f \in ctl.findings
         \/ f = ctl.key /\ ctl.pc # "suppress"

Leads ==
  /\ ctl.pc # "relabel"
  /\ ctl.pc \in {"record", "decide", "await", "suppress", "recover", "gate"}
       /\ ctl.obj.phase \in Unsettled => ctl.obj.group = NoGroup /\ ctl.obj.label = NoGroup
  /\ ctl.pc \in {"record", "decide", "recover", "gate"} => ctl.gid = NoGroup
  /\ ctl.pc \in {"await", "suppress", "label", "recover", "gate", "create"}
       => jobs[ctl.key] = NoObject
  /\ ctl.pc \in {"suppress", "label"} => ctl.gid # NoGroup
  /\ ctl.pc = "suppress" => ctl.peers \subseteq ctl.findings
  /\ ctl.pc \in {"suppress", "label", "create"} => Gathered

CarriedInv == ToldInv /\ (faults = MaxFaults => Named /\ Leads /\ SuppressedIsCarried)

(* Whatever is stored carries the group that it carried before, or is new. *)
SameGroups ==
  \A f \in FP : rjobs'[f] # NoObject =>
    \/ /\ rjobs[f] # NoObject
       /\ rjobs'[f].group = rjobs[f].group /\ rjobs'[f].label = rjobs[f].label
    \/ /\ rjobs[f] = NoObject
       /\ rjobs'[f].phase = "New" /\ rjobs'[f].group = NoGroup /\ rjobs'[f].label = NoGroup

(* The writes of the controller that change a group. *)
Grouping == (\E p \in FP : CtlSuppressPeer(p)) \/ CtlSetGroup \/ CtlSetLabel \/ CtlRelabel

(* Every other step of the controller leaves the groups as they are. *)
LEMMA CtlGroups ==
  ASSUME TypeInv, CtlStep(Alive), ~Grouping, NEW f \in FP, rjobs'[f] # NoObject
  PROVE  /\ rjobs[f] # NoObject
         /\ rjobs'[f].group = rjobs[f].group /\ rjobs'[f].label = rjobs[f].label
<1>1. StoreTypeOK /\ CtlTypeOK
  BY DEF TypeInv, TypeOK
<1> DEFINE Kept(r, o) == r.group = o.group /\ r.label = o.label
<1>2. ASSUME NEW g, NEW r, PatchRJob(g, r), rjobs[g] \in RJob => Kept(r, rjobs[g])
      PROVE  rjobs[f] # NoObject /\ Kept(rjobs'[f], rjobs[f])
  BY <1>1, <1>2 DEF PatchRJob, StoreTypeOK
<1>3. CASE CtlRecordPR \/ CtlSetCompletedAt \/ CtlStamp \/ CtlInitPhase \/ CtlAdopt
  <2>1. PICK x : \/ PatchRJob(Key, [rjobs[Key] EXCEPT !.recorded = x])
                 \/ PatchRJob(Key, [rjobs[Key] EXCEPT !.completedAt = x])
                 \/ PatchRJob(Key, [rjobs[Key] EXCEPT !.phase = x])
    BY <1>3, Zenon DEF CtlRecordPR, CtlSetCompletedAt, CtlStamp, CtlInitPhase, CtlAdopt, Live, Key
  <2>2. rjobs[Key] \in RJob =>
          /\ Kept([rjobs[Key] EXCEPT !.recorded = x], rjobs[Key])
          /\ Kept([rjobs[Key] EXCEPT !.completedAt = x], rjobs[Key])
          /\ Kept([rjobs[Key] EXCEPT !.phase = x], rjobs[Key])
    BY DEF RJob
  <2> HIDE DEF Kept
  <2>3. rjobs[f] # NoObject /\ Kept(rjobs'[f], rjobs[f])
    BY <1>2, <2>1, <2>2, Zenon
  <2> QED BY <2>3 DEF Kept
<1>4. CASE CtlRefuse \/ CtlDispatched
  <2>1. PICK x, y : PatchRJob(Key, [rjobs[Key] EXCEPT !.phase = x, !.recorded = y])
    BY <1>4, Zenon DEF CtlRefuse, CtlDispatched, Live, Key
  <2>2. rjobs[Key] \in RJob =>
          Kept([rjobs[Key] EXCEPT !.phase = x, !.recorded = y], rjobs[Key])
    BY DEF RJob
  <2> HIDE DEF Kept
  <2>3. rjobs[f] # NoObject /\ Kept(rjobs'[f], rjobs[f])
    BY <1>2, <2>1, <2>2, Zenon
  <2> QED BY <2>3 DEF Kept
<1>5. CASE CtlSync
  <2>1. PICK x, b, c, d, e :
          PatchRJob(Key, [rjobs[Key] EXCEPT !.phase = x, !.retry = b, !.completedAt = c,
                                            !.message = d, !.recorded = e])
    BY <1>5, Zenon DEF CtlSync, Live, Key
  <2>2. rjobs[Key] \in RJob =>
          Kept([rjobs[Key] EXCEPT !.phase = x, !.retry = b, !.completedAt = c,
                                  !.message = d, !.recorded = e], rjobs[Key])
    BY DEF RJob
  <2> HIDE DEF Kept
  <2>3. rjobs[f] # NoObject /\ Kept(rjobs'[f], rjobs[f])
    BY <1>2, <2>1, <2>2, Zenon
  <2> QED BY <2>3 DEF Kept
<1>6. CASE CtlExpire
  BY <1>1, <1>6 DEF CtlExpire, DeleteRJob, StoreTypeOK
<1>7. CASE \/ CtlRecordPRFails \/ CtlReadJob \/ CtlFetchReport
           \/ CtlAwaitPrimary(Alive) \/ CtlSoloFallback \/ CtlLead(Alive) \/ CtlNoGroup(Alive)
           \/ CtlRecover \/ CtlGate \/ CtlCreateJob \/ CtlFindJob \/ CtlReturn
  <2>1. rjobs' = rjobs
    BY Zenon, <1>7 DEF CtlRecordPRFails, CtlReadJob, CtlFetchReport, CtlAwaitPrimary,
       CtlSoloFallback, CtlLead, CtlNoGroup, CtlRecover, CtlGate, CtlCreateJob, CtlFindJob,
       CtlReturn, store
  <2> QED BY <2>1
<1> QED
  BY <1>3, <1>4, <1>5, <1>6, <1>7 DEF CtlStep, Grouping

(* So does every step of anyone else. *)
LEMMA GroupsBy ==
  ASSUME TypeInv, [Next]_vars
  PROVE  SameGroups \/ (Step /\ Grouping)
<1>1. CASE Step
  BY <1>1, CtlGroups DEF Step, SameGroups
<1>2. ASSUME ~Step, NEW f \in FP, rjobs'[f] # NoObject, rjobs[f] = NoObject
      PROVE  rjobs'[f].phase = "New" /\ rjobs'[f].group = NoGroup /\ rjobs'[f].label = NoGroup
  <2>1. PICK p \in Provider : rjobs'[f] = NewRJob(nextUid, prv[p].src)
    BY <1>2, Incarnations
  <2> QED BY <2>1 DEF NewRJob
<1>3. CASE ~Step
  BY <1>2, <1>3, StatusBy DEF SameGroups
<1> QED BY <1>1, <1>3

(* No step makes a settled investigation unsettled, or ends a suppression. *)
LEMMA PhaseBack ==
  ASSUME ReadsCurrent, LifeInv, [Next]_vars, NEW f \in FP, rjobs[f] # NoObject, rjobs'[f] # NoObject
  PROVE  /\ rjobs'[f].phase \in Unsettled => rjobs[f].phase \in Unsettled
         /\ rjobs[f].phase = "Suppressed" => rjobs'[f].phase = "Suppressed"
<1>1. LifeInv' /\ [Abstract!Next]_Life /\ rjobs[f].phase \in Phase /\ rjobs'[f].phase \in Phase
  BY NextRefines DEF LifeInv, TypeInv, TypeOK, StoreTypeOK, RJob
<1>2. /\ Life[f] = rjobs[f].phase /\ Life'[f] = rjobs'[f].phase
      /\ Life[f] # "absent" /\ Life'[f] # "absent"
  BY <1>1, LifeOf DEF Phase
<1>3. rjobs'[f].phase \in Unsettled => rjobs[f].phase \in Unsettled
  BY <1>1, <1>2, LeavesPending DEF Unsettled
<1>4. rjobs[f].phase = "Suppressed" => rjobs'[f].phase = "Suppressed"
  BY <1>1, <1>2, EndedLife
<1> QED BY <1>3, <1>4

(* A step that neither suppresses nor creates a Job keeps what is carried. *)
LEMMA CarriedKeeps ==
  ASSUME ReadsCurrent, ToldInv, SuppressedIsCarried, [Next]_vars, SameGroups,
         ~(Step /\ \E p \in FP : CtlSuppressPeer(p)), ~(Step /\ CtlCreateJob)
  PROVE  SuppressedIsCarried'
<1>1. SUFFICES ASSUME NEW f \in FP, NEW g \in FP,
                      rjobs'[f] # NoObject, rjobs'[f].phase = "Suppressed",
                      rjobs'[g] # NoObject, rjobs'[g].phase # "Suppressed",
                      rjobs'[g].group = rjobs'[f].group, OwnJob(g)'
               PROVE  f \in jobs'[g].findings
  BY DEF SuppressedIsCarried, OwnJob
<1>2. LifeInv
  BY DEF ToldInv
<1>3. OwnJob(g) /\ jobs'[g].findings = jobs[g].findings
  BY <1>1, OwnJobOrigin
<1>4. rjobs[g] # NoObject /\ rjobs'[g].group = rjobs[g].group /\ rjobs[g].phase # "Suppressed"
  BY <1>1, <1>2, <1>3, PhaseBack DEF OwnJob, SameGroups
<1>5. rjobs[f] # NoObject /\ rjobs'[f].group = rjobs[f].group
  BY <1>1 DEF SameGroups
<1>6. rjobs[f].phase = "Suppressed"
  BY <1>1, <1>2, <1>5, SuppressedBy
<1> QED BY <1>1, <1>3, <1>4, <1>5, <1>6, Zenon DEF SuppressedIsCarried, OwnJob

(* A step that groups nothing keeps Named, if the reconcile that leads a   *)
(* group leads on.                                                         *)
LEMMA NamedKeeps ==
  ASSUME ReadsCurrent, LifeInv, Named, [Next]_vars, SameGroups,
         ~(Step /\ \E p \in FP : CtlSuppressPeer(p)),
         nextGroup' \in {nextGroup, nextGroup + 1},
         ctl.pc \in {"label", "create", "dispatched"} /\ rjobs[ctl.key] # NoObject
           /\ rjobs'[ctl.key] # NoObject /\ rjobs'[ctl.key].phase \in Unsettled
           => /\ ctl'.key = ctl.key /\ ctl'.gid = ctl.gid
              /\ ctl'.pc \in {"label", "create", "dispatched"}
              /\ ctl'.pc = "label" => ctl.pc = "label"
  PROVE  Named'
<1>1. SUFFICES ASSUME NEW f \in FP, rjobs'[f] # NoObject
               PROVE  /\ rjobs'[f].group < nextGroup'
                      /\ rjobs'[f].phase = "Suppressed" => rjobs'[f].group # NoGroup
                      /\ rjobs'[f].phase \in Unsettled /\ rjobs'[f].group # NoGroup =>
                           /\ ctl'.key = f /\ ctl'.pc \in {"label", "create", "dispatched"}
                           /\ rjobs'[f].group = ctl'.gid
                      /\ rjobs'[f].phase \in Unsettled /\ rjobs'[f].label # NoGroup =>
                           ctl'.key = f /\ ctl'.pc \in {"create", "dispatched"}
  BY DEF Named
<1>2. nextGroup \in Nat \ {0} /\ (rjobs[f] # NoObject => rjobs[f].group \in Nat)
  BY DEF LifeInv, TypeInv, TypeOK, CtlTypeOK, StoreTypeOK, RJob
<1>3. CASE rjobs[f] = NoObject
  <2>1. rjobs'[f].phase = "New" /\ rjobs'[f].group = NoGroup /\ rjobs'[f].label = NoGroup
    BY <1>1, <1>3 DEF SameGroups
  <2> QED BY <1>2, <2>1 DEF NoGroup
<1>4. CASE rjobs[f] # NoObject
  <2>1. /\ rjobs'[f].group = rjobs[f].group /\ rjobs'[f].label = rjobs[f].label
        /\ rjobs'[f].phase \in Unsettled => rjobs[f].phase \in Unsettled
    BY <1>1, <1>4, PhaseBack DEF SameGroups
  <2>2. rjobs'[f].group < nextGroup'
    BY <1>2, <1>4, <2>1 DEF Named
  <2>3. ASSUME rjobs'[f].phase = "Suppressed"
        PROVE  rjobs'[f].group # NoGroup
    <3>1. rjobs[f].phase = "Suppressed"
      BY <1>1, <1>4, <2>3, SuppressedBy
    <3> QED BY <1>4, <2>1, <3>1 DEF Named
  <2>4. ASSUME rjobs'[f].phase \in Unsettled
        PROVE  /\ rjobs[f].group # NoGroup =>
                    /\ ctl.key = f /\ ctl.pc \in {"label", "create", "dispatched"}
                    /\ rjobs[f].group = ctl.gid
               /\ rjobs[f].label # NoGroup => ctl.key = f /\ ctl.pc \in {"create", "dispatched"}
    BY <1>4, <2>1, <2>4 DEF Named
  <2> QED BY <1>1, <1>4, <2>1, <2>2, <2>3, <2>4
<1> QED BY <1>3, <1>4

(* A step of anyone else leaves the reconcile what it knows of its group. *)
LEMMA LeadsKeeps ==
  ASSUME ReadsCurrent, LifeInv, Leads, [Next]_vars, SameGroups, ~Step, ctl' = ctl,
         nextGroup' = nextGroup
  PROVE  Leads'
<1>1. TypeInv /\ (ctl.pc # "idle" => ctl.key \in FP)
  BY DEF LifeInv, TypeInv, TypeOK, CtlTypeOK
<1>2. \A f \in FP : jobs[f] = NoObject => jobs'[f] = NoObject
  BY <1>1, JobOrigin
<1>3. Gathered => Gathered'
  <2>1. ASSUME NEW f \in FP, rjobs'[f] # NoObject, rjobs'[f].group # NoGroup
        PROVE  /\ rjobs[f] # NoObject /\ rjobs'[f].group = rjobs[f].group
               /\ rjobs[f].phase = "Suppressed" => rjobs'[f].phase = "Suppressed"
    BY <2>1, PhaseBack DEF SameGroups
  <2> QED BY <2>1 DEF Gathered
<1> QED BY <1>1, <1>2, <1>3 DEF Leads

JobsCurrent == "jobs" \notin Lagging

(* A reconcile that leads a group does so until it has dispatched. *)
LEMMA LeadsOn ==
  ASSUME ReadsCurrent, LifeInv, Leads, Step, ~Grouping,
         ctl.pc \in {"label", "create", "dispatched"}, rjobs'[ctl.key].phase \in Unsettled
  PROVE  /\ ctl'.key = ctl.key /\ ctl'.gid = ctl.gid
         /\ ctl'.pc \in {"label", "create", "dispatched"}
         /\ ctl'.pc = "label" => ctl.pc = "label"
<1>1. StoreTypeOK /\ TypeInv /\ ctl \in CtlState /\ ctl.key \in FP /\ [Next]_vars
  BY DEF LifeInv, TypeInv, TypeOK, CtlTypeOK, Next
<1>2. Life[ctl.key] = "Pending"
  BY DEF LifeInv, CtlAgrees, Dispatching, Open, Key
<1>3. rjobs[ctl.key] # NoObject
  BY <1>1, <1>2, LifeOf
<1>4. CASE ctl.pc = "dispatched"
  <2>1. ~Fault
    BY <1>1 DEF Fault, Step, TypeInv, TypeOK
  <2>2. rjobs'[ctl.key].phase = "Dispatched"
    BY <1>1, <1>3, <1>4, <2>1, AtDispatched
  <2> QED BY <2>2 DEF Unsettled
<1>5. CASE ctl.pc = "label"
  <2>1. CtlReturn
    BY <1>5, Zenon DEF Step, CtlStep, Grouping, At, CtlRecordPR, CtlRecordPRFails, CtlInitPhase,
       CtlSetCompletedAt, CtlExpire, CtlStamp, CtlReadJob, CtlFetchReport, CtlSync,
       CtlAwaitPrimary, CtlSoloFallback, CtlLead, CtlNoGroup, CtlRecover, CtlGate, CtlRefuse,
       CtlCreateJob, CtlFindJob, CtlAdopt, CtlDispatched, Undispatched
  <2> QED BY <1>3, <1>5, <2>1, Zenon DEF CtlReturn, At, Undispatched, Live
<1>6. CASE ctl.pc = "create"
  <2>1. CtlRefuse \/ CtlCreateJob \/ CtlFindJob \/ CtlReturn
    BY <1>6, Zenon DEF Step, CtlStep, Grouping, At, CtlRecordPR, CtlRecordPRFails, CtlInitPhase,
       CtlSetCompletedAt, CtlExpire, CtlStamp, CtlReadJob, CtlFetchReport, CtlSync,
       CtlAwaitPrimary, CtlSoloFallback, CtlLead, CtlNoGroup, CtlRecover, CtlGate,
       CtlAdopt, CtlDispatched, Undispatched
  <2>2. CASE CtlRefuse
    <3>1. PICK y : PatchRJob(ctl.key, [rjobs[ctl.key] EXCEPT !.phase = "PermanentlyFailed",
                                                             !.recorded = y])
      BY <2>2, Zenon DEF CtlRefuse, Key, Live
    <3>2. rjobs[ctl.key] \in RJob =>
            [rjobs[ctl.key] EXCEPT !.phase = "PermanentlyFailed",
                                   !.recorded = y].phase = "PermanentlyFailed"
      BY DEF RJob
    <3>3. rjobs'[ctl.key].phase = "PermanentlyFailed"
      BY <1>1, <1>3, <3>1, <3>2 DEF PatchRJob, StoreTypeOK
    <3> QED BY <3>3 DEF Unsettled
  <2>3. CASE CtlCreateJob
    BY <1>1, <2>3 DEF CtlCreateJob, Goto, CtlState
  <2>4. jobs[ctl.key] = NoObject
    BY <1>6 DEF Leads
  <2>5. ~CtlFindJob
    BY <2>4 DEF CtlFindJob, Key
  <2>6. ~CtlReturn
    BY <1>6, <2>4, Zenon DEF CtlReturn, At, Undispatched, Key
  <2> QED BY <2>1, <2>2, <2>3, <2>5, <2>6
<1> QED BY <1>4, <1>5, <1>6

(* A reconcile begins without a group. *)
LEMMA GetLeads ==
  ASSUME ReadsCurrent, LifeInv, Named, NEW f \in FP, Get(f)
  PROVE  Leads' /\ rjobs' = rjobs /\ jobs' = jobs /\ nextGroup' = nextGroup /\ ctl.pc = "idle"
<1>1. /\ ctl.pc = "idle" /\ rjobs' = rjobs /\ jobs' = jobs /\ nextGroup' = nextGroup
      /\ rjobs[f] # NoObject
  BY DEF Get, CtlGet, At, store, RJobView, ReadsCurrent
<1>2. PICK x \in {"record", "decide"} :
        ctl' = [Resting EXCEPT !.pc = x, !.key = f, !.obj = rjobs[f]]
  BY Zenon DEF Get, CtlGet, RJobView, ReadsCurrent
<1>3. ctl'.pc = x /\ ctl'.obj = rjobs[f] /\ ctl'.gid = NoGroup
  BY <1>2 DEF Resting
<1>4. rjobs[f].phase \in Unsettled => rjobs[f].group = NoGroup /\ rjobs[f].label = NoGroup
  BY <1>1 DEF Named
<1> QED BY <1>1, <1>2, <1>3, <1>4 DEF Leads

(* A reconcile that joins no group keeps what it knows, and one that leads *)
(* a group draws an ID that nothing carries.                               *)
LEMMA StepLeads ==
  ASSUME ReadsCurrent, JobsCurrent, LifeInv, Named, Leads, Step, ~Grouping
  PROVE  Leads' /\ nextGroup' \in {nextGroup, nextGroup + 1}
<1>1. StoreTypeOK /\ CtlTypeOK /\ ctl \in CtlState /\ nextGroup \in Nat \ {0}
  BY DEF LifeInv, TypeInv, TypeOK, CtlTypeOK
<1>2. ASSUME ctl'.pc \in {"idle", "stamp", "report", "sync", "adopt", "dispatched"}
      PROVE  Leads'
  BY <1>2 DEF Leads
<1>3. CASE \/ CtlInitPhase \/ CtlSetCompletedAt \/ CtlStamp \/ CtlSync \/ CtlRefuse \/ CtlAdopt
           \/ CtlDispatched \/ CtlReturn
  <2>1. Return /\ nextGroup' = nextGroup
    BY <1>3, Zenon DEF CtlInitPhase, CtlSetCompletedAt, CtlStamp, CtlSync, CtlRefuse, CtlAdopt,
       CtlDispatched, CtlReturn
  <2> QED BY <1>2, <2>1 DEF Return, Resting
<1>4. CASE CtlExpire \/ CtlCreateJob
  BY <1>1, <1>2, <1>4 DEF CtlExpire, CtlCreateJob, Goto, CtlState
<1>5. CASE CtlReadJob \/ CtlFetchReport \/ CtlFindJob
  <2>1. PICK x \in {"report", "sync", "adopt"} : \E y :
          ctl' = [ctl EXCEPT !.pc = x, !.job = y] \/ ctl' = [ctl EXCEPT !.pc = x, !.message = y]
    BY <1>5, Zenon DEF CtlReadJob, CtlFetchReport, CtlFindJob
  <2>2. ctl'.pc = x
    <3>1. \A y : /\ [ctl EXCEPT !.pc = x, !.job = y].pc = x
                 /\ [ctl EXCEPT !.pc = x, !.message = y].pc = x
      BY <1>1 DEF CtlState
    <3> QED BY <2>1, <3>1, Zenon
  <2>3. nextGroup' = nextGroup
    BY <1>5 DEF CtlReadJob, CtlFetchReport, CtlFindJob
  <2> QED BY <1>2, <2>1, <2>2, <2>3
<1>6. CASE CtlRecordPR
  <2>1. PICK r : /\ r = [rjobs[ctl.key] EXCEPT !.recorded = TRUE]
                 /\ ctl' = [ctl EXCEPT !.pc = "decide", !.obj = r]
    BY <1>6, Zenon DEF CtlRecordPR, Live
  <2>2. /\ ctl.pc = "record" /\ rjobs[ctl.key] # NoObject /\ nextGroup' = nextGroup
        /\ ctl.key \in FP /\ rjobs[ctl.key] \in RJob
    BY <1>1, <1>6 DEF CtlRecordPR, At, Live, CtlTypeOK, StoreTypeOK
  <2>3. /\ r.phase = rjobs[ctl.key].phase /\ r.group = rjobs[ctl.key].group
        /\ r.label = rjobs[ctl.key].label
    BY <2>1, <2>2 DEF RJob
  <2>4. r.phase \in Unsettled => r.group = NoGroup /\ r.label = NoGroup
    BY <2>2, <2>3 DEF Named
  <2>5. ctl'.pc = "decide" /\ ctl'.obj = r /\ ctl'.gid = ctl.gid
    BY <1>1, <2>1 DEF CtlState
  <2> QED BY <2>2, <2>4, <2>5 DEF Leads
<1>7. CASE CtlRecordPRFails
  <2>1. /\ ctl.pc = "record" /\ nextGroup' = nextGroup /\ ctl.obj \in RJob
        /\ ctl' = [ctl EXCEPT !.pc = "decide", !.obj.recorded = TRUE]
    BY <1>1, <1>7 DEF CtlRecordPRFails, At, CtlTypeOK
  <2>2. /\ ctl'.pc = "decide" /\ ctl'.gid = ctl.gid /\ ctl'.obj.phase = ctl.obj.phase
        /\ ctl'.obj.group = ctl.obj.group /\ ctl'.obj.label = ctl.obj.label
    BY <1>1, <2>1 DEF CtlState, RJob
  <2> QED BY <2>1, <2>2 DEF Leads
<1>8. ASSUME Undispatched
      PROVE  /\ jobs[ctl.key] = NoObject /\ ctl.pc = "decide" /\ ctl.gid = NoGroup
             /\ ctl.obj.phase = "Pending"
             /\ ctl.obj.group = NoGroup /\ ctl.obj.label = NoGroup
  BY <1>8 DEF Undispatched, At, Obj, Key, OwnedJob, JobView, JobsCurrent, Leads, Unsettled
<1>9. CASE CtlAwaitPrimary(Alive) \/ CtlNoGroup(Alive)
  <2>1. PICK y : ctl' = [ctl EXCEPT !.pc = "await", !.gid = y] \/ ctl' = [ctl EXCEPT !.pc = "recover"]
    BY <1>9, Zenon DEF CtlAwaitPrimary, CtlNoGroup, Goto
  <2>2. /\ ctl'.key = ctl.key /\ ctl'.obj = ctl.obj
        /\ ctl'.pc = "await" \/ (ctl'.pc = "recover" /\ ctl'.gid = ctl.gid)
    <3>1. CASE ctl' = [ctl EXCEPT !.pc = "await", !.gid = y]
      BY <1>1, <3>1 DEF CtlState
    <3>2. CASE ctl' = [ctl EXCEPT !.pc = "recover"]
      BY <1>1, <3>2 DEF CtlState
    <3> QED BY <2>1, <3>1, <3>2
  <2>3. Undispatched /\ jobs' = jobs /\ nextGroup' = nextGroup
    BY <1>9, Zenon DEF CtlAwaitPrimary, CtlNoGroup, store
  <2> QED BY <1>8, <2>2, <2>3 DEF Leads
<1>10. CASE CtlSoloFallback \/ CtlRecover \/ CtlGate
  <2>1. ctl.pc \in {"await", "recover", "gate"} /\ jobs' = jobs /\ nextGroup' = nextGroup
    BY <1>10, Zenon DEF CtlSoloFallback, CtlRecover, CtlGate, At, store
  <2>2. ctl.obj.phase = "Pending"
    BY <2>1 DEF LifeInv, CtlAgrees, Dispatching, Obj
  <2>3. /\ ctl.obj.group = NoGroup /\ ctl.obj.label = NoGroup /\ jobs[ctl.key] = NoObject
        /\ ctl.pc # "await" => ctl.gid = NoGroup
    BY <2>1, <2>2 DEF Leads, Unsettled
  <2>4. CASE CtlSoloFallback
    BY <1>1, <2>1, <2>3, <2>4 DEF CtlSoloFallback, CtlState, Leads
  <2>5. CASE CtlRecover
    <3>1. ~Recovering
      BY <2>3 DEF Recovering, Obj
    <3>2. PICK y : ctl' = [ctl EXCEPT !.pc = "gate", !.findings = y]
      BY <2>5, <3>1, Zenon DEF CtlRecover
    <3>3. ctl'.pc = "gate" /\ ctl'.key = ctl.key /\ ctl'.obj = ctl.obj /\ ctl'.gid = ctl.gid
      BY <1>1, <3>2 DEF CtlState
    <3>4. ctl.pc = "recover"
      BY <2>5 DEF CtlRecover, At
    <3> QED BY <2>1, <2>3, <3>3, <3>4 DEF Leads
  <2>6. CASE CtlGate
    <3>1. ctl' = [ctl EXCEPT !.pc = "create"] /\ ctl.pc = "gate"
      BY <2>6 DEF CtlGate, Goto, At
    <3>2. ctl'.pc = "create" /\ ctl'.key = ctl.key /\ ctl'.gid = NoGroup
      BY <1>1, <2>3, <3>1 DEF CtlState
    <3>3. Gathered'
      BY <1>1, <2>1, <3>2 DEF Gathered, NoGroup
    <3> QED BY <2>1, <2>3, <3>2, <3>3 DEF Leads
  <2> QED BY <1>10, <2>4, <2>5, <2>6
<1>11. CASE CtlLead(Alive)
  <2>1. Undispatched /\ jobs' = jobs /\ rjobs' = rjobs
    BY <1>11 DEF CtlLead, store
  <2>2. ctl.obj.group = NoGroup /\ ctl.obj.label = NoGroup /\ jobs[ctl.key] = NoObject
    BY <1>8, <2>1
  <2>3. PICK x : ctl' = [ctl EXCEPT !.pc = "suppress", !.peers = x, !.findings = x,
                                    !.gid = nextGroup]
    BY <1>11, <2>2, Zenon DEF CtlLead, Obj
  <2>4. nextGroup' = nextGroup + 1
    BY <1>11, <2>2, Zenon DEF CtlLead, Obj
  <2>5. /\ ctl'.pc = "suppress" /\ ctl'.key = ctl.key /\ ctl'.obj = ctl.obj
        /\ ctl'.gid = nextGroup /\ ctl'.peers = x /\ ctl'.findings = x
    BY <1>1, <2>3 DEF CtlState
  <2>6. \A f \in FP : rjobs[f] # NoObject => rjobs[f].group # nextGroup
    BY <1>1 DEF Named, StoreTypeOK, RJob
  <2>7. Gathered'
    BY <1>1, <2>1, <2>4, <2>5, <2>6 DEF Gathered
  <2> QED BY <1>1, <2>1, <2>2, <2>4, <2>5, <2>7 DEF Leads, NoGroup
<1> QED
  BY <1>3, <1>4, <1>5, <1>6, <1>7, <1>9, <1>10, <1>11 DEF Step, CtlStep, Grouping

(* transitionSuppressed: the peer joins the group that is being gathered,  *)
(* which has no Job yet.                                                   *)
LEMMA SuppressKeeps ==
  ASSUME CarriedInv, Named, Leads, SuppressedIsCarried, Step, NEW p \in FP, CtlSuppressPeer(p)
  PROVE  Named' /\ Leads' /\ SuppressedIsCarried'
<1>1. StoreTypeOK /\ CtlTypeOK /\ ctl \in CtlState /\ nextGroup \in Nat \ {0}
  BY DEF CarriedInv, ToldInv, LifeInv, TypeInv, TypeOK, CtlTypeOK
<1>2. /\ ctl.pc = "suppress" /\ p \in ctl.peers /\ rjobs[p] # NoObject
      /\ jobs' = jobs /\ nextGroup' = nextGroup
  BY DEF CtlSuppressPeer, At, OnlyRJobs
<1>3. PICK x : ctl' = [ctl EXCEPT !.peers = x] /\ x \subseteq ctl.peers
  BY Zenon DEF CtlSuppressPeer
<1>4. /\ ctl'.pc = ctl.pc /\ ctl'.key = ctl.key /\ ctl'.obj = ctl.obj /\ ctl'.gid = ctl.gid
      /\ ctl'.findings = ctl.findings /\ ctl'.peers \subseteq ctl.peers
  BY <1>1, <1>3 DEF CtlState
<1>5. PICK r : /\ r = [rjobs[p] EXCEPT !.phase = "Suppressed", !.group = ctl.gid, !.label = ctl.gid]
               /\ PatchRJob(p, r)
  BY Zenon DEF CtlSuppressPeer
<1>6. rjobs[p] \in RJob /\ r.phase = "Suppressed" /\ r.group = ctl.gid
  BY <1>1, <1>2, <1>5 DEF RJob, StoreTypeOK
<1>7. rjobs'[p] = r /\ \A g \in FP \ {p} : rjobs'[g] = rjobs[g]
  BY <1>1, <1>2, <1>5 DEF PatchRJob, StoreTypeOK
<1>8. ctl.gid # NoGroup /\ ctl.peers \subseteq ctl.findings /\ Gathered
  BY <1>2 DEF Leads
<1>9. Named'
  <2>1. SUFFICES ASSUME NEW f \in FP, rjobs'[f] # NoObject
                 PROVE  /\ rjobs'[f].group < nextGroup
                        /\ rjobs'[f].phase = "Suppressed" => rjobs'[f].group # NoGroup
                        /\ rjobs'[f].phase \in Unsettled =>
                             rjobs'[f].group = NoGroup /\ rjobs'[f].label = NoGroup
    BY <1>2 DEF Named
  <2>2. CASE f = p
    BY <1>6, <1>7, <1>8, <2>2 DEF Gathered, Unsettled
  <2>3. CASE f # p
    BY <1>2, <1>7, <2>1, <2>3 DEF Named
  <2> QED BY <2>2, <2>3
<1>10. Gathered'
  BY <1>1, <1>2, <1>4, <1>6, <1>7, <1>8 DEF Gathered
<1>11. Leads'
  BY <1>2, <1>4, <1>8, <1>10 DEF Leads
<1>12. SuppressedIsCarried'
  <2>1. SUFFICES ASSUME NEW f \in FP, NEW g \in FP,
                        rjobs'[f] # NoObject, rjobs'[f].phase = "Suppressed",
                        rjobs'[g] # NoObject, rjobs'[g].phase # "Suppressed",
                        rjobs'[g].group = rjobs'[f].group,
                        jobs[g] # NoObject, jobs[g].owner = rjobs'[g].uid
                 PROVE  f \in jobs[g].findings
    BY <1>2 DEF SuppressedIsCarried
  <2>2. g # p /\ rjobs'[g] = rjobs[g]
    BY <1>6, <1>7, <2>1
  <2>3. CASE f = p
    <3>1. rjobs[g].group = ctl.gid
      BY <1>6, <1>7, <2>1, <2>2, <2>3
    <3> QED BY <1>2, <1>8, <2>1, <2>2, <3>1 DEF Gathered
  <2>4. CASE f # p
    BY <1>7, <2>1, <2>2, <2>4, Zenon DEF SuppressedIsCarried
  <2> QED BY <2>3, <2>4
<1> QED BY <1>9, <1>11, <1>12

(* The primary takes the group's ID, and then its label. *)
LEMMA PrimaryKeeps ==
  ASSUME CarriedInv, Named, Leads, SuppressedIsCarried, Step, CtlSetGroup \/ CtlSetLabel
  PROVE  Named' /\ Leads' /\ SuppressedIsCarried'
<1>1. StoreTypeOK /\ CtlTypeOK /\ ctl \in CtlState /\ nextGroup \in Nat \ {0} /\ LifeInv
  BY DEF CarriedInv, ToldInv, LifeInv, TypeInv, TypeOK, CtlTypeOK
<1>2. /\ ctl.pc \in {"suppress", "label"} /\ ctl.key \in FP
      /\ rjobs[ctl.key] # NoObject /\ rjobs[ctl.key] \in RJob
      /\ jobs' = jobs /\ nextGroup' = nextGroup
  BY <1>1 DEF CtlSetGroup, CtlSetLabel, At, Live, OnlyRJobs, StoreTypeOK, CtlTypeOK
<1>3. ctl.obj.phase = "Pending" /\ rjobs[ctl.key].phase = "Pending"
  <2>1. Obj.phase = "Pending" /\ Life[ctl.key] = "Pending"
    BY <1>1, <1>2 DEF LifeInv, CtlAgrees, Dispatching, Open, Key
  <2> QED BY <1>2, <2>1, LifeOf DEF Obj
<1>4. jobs[ctl.key] = NoObject /\ ctl.gid # NoGroup /\ Gathered
  BY <1>2 DEF Leads
<1>5. PICK r : /\ PatchRJob(ctl.key, r)
               /\ r.phase = "Pending" /\ r.group \in {NoGroup, ctl.gid}
               /\ \/ /\ ctl' = [ctl EXCEPT !.pc = "label", !.obj = r]
                     /\ ctl.pc = "suppress" /\ r.label = NoGroup
                  \/ ctl' = [ctl EXCEPT !.pc = "create", !.obj = r]
  <2>1. CASE CtlSetGroup
    <3>1. ctl.pc = "suppress" /\ ctl.obj.group = NoGroup /\ rjobs[ctl.key].label = NoGroup
      BY <1>2, <1>3, <2>1 DEF CtlSetGroup, At, Leads, Named, Unsettled
    <3>2. Merged(Obj.group, ctl.gid, Live.group) = ctl.gid
      BY <1>4, <3>1 DEF Merged, Obj
    <3>3. PICK r : /\ r = [rjobs[ctl.key] EXCEPT !.group = ctl.gid]
                   /\ PatchRJob(ctl.key, r)
                   /\ ctl' = [ctl EXCEPT !.pc = "label", !.obj = r]
      BY <2>1, <3>2, Zenon DEF CtlSetGroup, Key, Live
    <3>4. r.phase = "Pending" /\ r.group \in {NoGroup, ctl.gid} /\ r.label = NoGroup
      BY <1>2, <1>3, <3>1, <3>3 DEF RJob
    <3> QED BY <3>1, <3>3, <3>4, Zenon
  <2>2. CASE CtlSetLabel
    <3>1. ctl.pc = "label"
      BY <2>2 DEF CtlSetLabel, At
    <3>2. rjobs[ctl.key].group \in {NoGroup, ctl.gid}
      BY <1>2, <1>3 DEF Named, Unsettled
    <3>3. PICK x, r : /\ r = [rjobs[ctl.key] EXCEPT !.label = x]
                      /\ PatchRJob(ctl.key, r)
                      /\ ctl' = [ctl EXCEPT !.pc = "create", !.obj = r]
      BY <2>2, Zenon DEF CtlSetLabel, Key, Live
    <3>4. r.phase = "Pending" /\ r.group \in {NoGroup, ctl.gid}
      BY <1>2, <1>3, <3>2, <3>3 DEF RJob
    <3> QED BY <3>3, <3>4, Zenon
  <2> QED BY <2>1, <2>2, Zenon
<1>6. /\ ctl'.key = ctl.key /\ ctl'.gid = ctl.gid /\ ctl'.findings = ctl.findings
      /\ \/ ctl'.pc = "label" /\ ctl.pc = "suppress" /\ r.label = NoGroup
         \/ ctl'.pc = "create"
  <2>1. CASE ctl' = [ctl EXCEPT !.pc = "label", !.obj = r] /\ ctl.pc = "suppress" /\ r.label = NoGroup
    BY <1>1, <2>1 DEF CtlState
  <2>2. CASE ctl' = [ctl EXCEPT !.pc = "create", !.obj = r]
    BY <1>1, <2>2 DEF CtlState
  <2> QED BY <1>5, <2>1, <2>2
<1>7. rjobs'[ctl.key] = r /\ \A g \in FP \ {ctl.key} : rjobs'[g] = rjobs[g]
  BY <1>1, <1>2, <1>5 DEF PatchRJob, StoreTypeOK
<1>8. Named'
  <2>1. SUFFICES ASSUME NEW f \in FP, rjobs'[f] # NoObject
                 PROVE  /\ rjobs'[f].group < nextGroup
                        /\ rjobs'[f].phase = "Suppressed" => rjobs'[f].group # NoGroup
                        /\ rjobs'[f].phase \in Unsettled /\ rjobs'[f].group # NoGroup =>
                             ctl.key = f /\ rjobs'[f].group = ctl.gid
                        /\ rjobs'[f].phase \in Unsettled /\ rjobs'[f].label # NoGroup =>
                             ctl.key = f /\ ctl'.pc = "create"
    BY <1>2, <1>6 DEF Named
  <2>2. CASE f = ctl.key
    BY <1>1, <1>4, <1>5, <1>6, <1>7, <2>2 DEF Gathered, NoGroup
  <2>3. CASE f # ctl.key
    BY <1>2, <1>7, <2>1, <2>3 DEF Named
  <2> QED BY <2>2, <2>3
<1>9. Gathered'
  BY <1>2, <1>4, <1>6, <1>7 DEF Gathered
<1>10. Leads'
  BY <1>2, <1>4, <1>6, <1>9 DEF Leads
<1>11. SuppressedIsCarried'
  <2>1. SUFFICES ASSUME NEW f \in FP, NEW g \in FP,
                        rjobs'[f] # NoObject, rjobs'[f].phase = "Suppressed",
                        rjobs'[g] # NoObject, rjobs'[g].phase # "Suppressed",
                        rjobs'[g].group = rjobs'[f].group,
                        jobs[g] # NoObject, jobs[g].owner = rjobs'[g].uid
                 PROVE  f \in jobs[g].findings
    BY <1>2 DEF SuppressedIsCarried
  <2>2. f # ctl.key /\ g # ctl.key
    BY <1>4, <1>5, <1>7, <2>1
  <2> QED BY <1>7, <2>1, <2>2, Zenon DEF SuppressedIsCarried
<1> QED BY <1>8, <1>10, <1>11

(* dispatch: the Job is given every finding that carries the group's ID. *)
LEMMA CreateCarries ==
  ASSUME LifeInv, Named, Leads, SuppressedIsCarried, Step, CtlCreateJob
  PROVE  SuppressedIsCarried'
<1>1. /\ rjobs' = rjobs /\ ctl.key \in FP /\ rjobs[ctl.key] # NoObject
      /\ rjobs[ctl.key].phase = "Pending" /\ ctl.findings \subseteq jobs'[ctl.key].findings
      /\ \A g \in FP \ {ctl.key} : jobs'[g] = jobs[g]
  BY CreateTells
<1>2. Gathered
  BY DEF CtlCreateJob, At, Leads
<1>3. SUFFICES ASSUME NEW f \in FP, NEW g \in FP,
                      rjobs[f] # NoObject, rjobs[f].phase = "Suppressed",
                      rjobs[g] # NoObject, rjobs[g].phase # "Suppressed",
                      rjobs[g].group = rjobs[f].group,
                      jobs'[g] # NoObject, jobs'[g].owner = rjobs[g].uid
               PROVE  f \in jobs'[g].findings
  BY <1>1 DEF SuppressedIsCarried
<1>4. CASE g # ctl.key
  BY <1>1, <1>3, <1>4, Zenon DEF SuppressedIsCarried
<1>5. CASE g = ctl.key
  <2>1. rjobs[f].group # NoGroup /\ f # ctl.key
    BY <1>1, <1>3 DEF Named
  <2>2. rjobs[f].group = ctl.gid
    BY <1>1, <1>3, <1>5, <2>1 DEF Named, Unsettled
  <2> QED BY <1>1, <1>2, <1>3, <1>5, <2>1, <2>2 DEF Gathered
<1> QED BY <1>4, <1>5

(* Every step that is not a fault keeps the groups together. *)
LEMMA NextCarried ==
  ASSUME ReadsCurrent, JobsCurrent, CarriedInv, Named, Leads, SuppressedIsCarried,
         [Next]_vars, ~Fault
  PROVE  Named' /\ Leads' /\ SuppressedIsCarried'
<1>1. ToldInv /\ LifeInv /\ TypeInv
  BY DEF CarriedInv, ToldInv, LifeInv
<1>2. CASE Step /\ Grouping
  <2>1. ~CtlRelabel
    BY DEF CtlRelabel, At, Leads
  <2> QED BY <1>2, <2>1, SuppressKeeps, PrimaryKeeps DEF Grouping
<1>3. CASE Step /\ ~Grouping
  <2>1. SameGroups
    BY <1>1, <1>3, GroupsBy
  <2>2. Leads' /\ nextGroup' \in {nextGroup, nextGroup + 1}
    BY <1>1, <1>3, StepLeads
  <2>3. ~(Step /\ \E p \in FP : CtlSuppressPeer(p))
    BY <1>3 DEF Grouping
  <2>4. Named'
    BY <1>1, <1>3, <2>1, <2>2, <2>3, NamedKeeps, LeadsOn
  <2>5. SuppressedIsCarried'
    BY <1>1, <1>3, <2>1, <2>3, CarriedKeeps, CreateCarries
  <2> QED BY <2>2, <2>4, <2>5
<1>4. CASE ~Step
  <2>1. SameGroups
    BY <1>1, <1>4, GroupsBy
  <2>2. SuppressedIsCarried'
    BY <1>1, <1>4, <2>1, CarriedKeeps
  <2>3. CASE \E f \in FP : Get(f)
    <3>1. Leads' /\ nextGroup' = nextGroup /\ ctl.pc = "idle"
      BY <1>1, <2>3, GetLeads
    <3>2. Named'
      BY <1>1, <1>4, <2>1, <3>1, NamedKeeps
    <3> QED BY <2>2, <3>1, <3>2
  <2>4. CASE ~\E f \in FP : Get(f)
    <3>1. ctl' = ctl /\ nextGroup' = nextGroup
      BY <1>4, <2>4, Zenon DEF Next, Cluster, Sources, Look, Work, vars, ctlVars
    <3>2. Named'
      BY <1>1, <1>4, <2>1, <3>1, NamedKeeps
    <3>3. Leads'
      BY <1>1, <1>4, <2>1, <3>1, LeadsKeeps
    <3> QED BY <2>2, <3>2, <3>3
  <2> QED BY <2>3, <2>4
<1> QED BY <1>2, <1>3, <1>4

(* The Job of a group's primary is given every finding that was suppressed *)
(* into that group, for any number of findings and groups, as long as no   *)
(* API call fails, both caches are current and no watched object is        *)
(* deleted.  The recovery path, for a reconcile that was cut short, is     *)
(* left to the Correlation run.                                            *)
THEOREM CarriedBeforeFaults ==
  ASSUME ReadsCurrent, JobsCurrent
  PROVE  Spec => [](faults = MaxFaults => SuppressedIsCarried)
<1>1. Init => CarriedInv
  <2>1. SUFFICES ASSUME Init
                 PROVE  CarriedInv
    OBVIOUS
  <2>2. rjobs = [f \in FP |-> NoObject] /\ ctl.pc = "idle"
    BY <2>1 DEF Init, InitStore, InitCtl, Resting
  <2>3. Named /\ Leads /\ SuppressedIsCarried
    BY <2>2 DEF Named, Leads, SuppressedIsCarried
  <2> QED BY <2>1, <2>3, InitTold DEF CarriedInv
<1>2. CarriedInv /\ [Next]_vars => CarriedInv'
  <2>1. SUFFICES ASSUME CarriedInv, [Next]_vars
                 PROVE  CarriedInv'
    OBVIOUS
  <2>2. ToldInv' /\ (faults' = MaxFaults => faults = MaxFaults /\ ~Fault)
    BY <2>1, NextToldInv, NoFaultYet DEF CarriedInv, ToldInv, LifeInv
  <2>3. faults' = MaxFaults => Named' /\ Leads' /\ SuppressedIsCarried'
    BY <2>1, <2>2, NextCarried DEF CarriedInv
  <2> QED BY <2>2, <2>3 DEF CarriedInv
<1>3. CarriedInv => (faults = MaxFaults => SuppressedIsCarried)
  BY DEF CarriedInv
<1> QED BY <1>1, <1>2, <1>3, PTL DEF Spec

-----------------------------------------------------------------------------
(***************************************************************************)
(* ConcurrencyBound for every value of the constants, where the gate is    *)
(* all there is: correlation disabled, Jobs read without lag, and no Job   *)
(* that first starts after it was written off as stale.  Each of the three *)
(* is needed: the runs show the bound broken without them.                 *)
(*                                                                         *)
(* concurrencyGate and Create are two API calls, but only the one          *)
(* controller goroutine creates Jobs, and nothing makes an inactive Job    *)
(* active again; so from the gate to the Create the number of active Jobs  *)
(* can only fall (GateInv).                                                *)
(***************************************************************************)

Correlating == {"await", "suppress", "label"}

GateInv ==
  /\ TypeInv
  /\ ctl.pc \notin Correlating
  /\ ConcurrencyBound
  /\ MaxConcurrentJobs # 0 /\ ctl.pc = "create"
       => Cardinality(ActiveJobs(jobs)) < MaxConcurrentJobs

(* With correlation disabled every path to Create leads through the gate. *)
LEMMA CreateFollowsGate ==
  ASSUME TypeInv, ctl.pc \notin Correlating, ~Correlate,
         (\E f \in FP : CtlGet(f)) \/ CtlStep(Alive) \/ CtlAbort \/ CtlRecordPRFails
         \/ CtlFetchReportFails
  PROVE  ctl'.pc \notin Correlating /\ (ctl'.pc = "create" => CtlGate)
<1> USE DEF Correlating
<1>1. ctl \in CtlState
  BY DEF TypeInv, TypeOK, CtlTypeOK
<1>2. ASSUME NEW pc, ctl'.pc = pc, pc \notin Correlating, pc # "create"
      PROVE  ctl'.pc \notin Correlating /\ (ctl'.pc = "create" => CtlGate)
  BY <1>2
<1>3. CASE \E f \in FP : CtlGet(f)
  <2>1. PICK f \in FP, pc \in {"record", "decide"} :
          ctl' = [Resting EXCEPT !.pc = pc, !.key = f, !.obj = RJobView[f]]
    BY Zenon, <1>3 DEF CtlGet
  <2>2. ctl'.pc = pc
    BY <2>1 DEF Resting
  <2> QED BY <1>2, <2>2
<1>4. CASE Return
  BY <1>4 DEF Return, Resting
<1>5. CASE \/ CtlInitPhase \/ CtlSetCompletedAt \/ CtlStamp \/ CtlSync \/ CtlRefuse
           \/ CtlAdopt \/ CtlDispatched \/ CtlReturn \/ CtlAbort
  BY <1>4, <1>5 DEF CtlInitPhase, CtlSetCompletedAt, CtlStamp, CtlSync, CtlRefuse, CtlAdopt,
     CtlDispatched, CtlReturn, CtlAbort
<1>6. CASE CtlExpire \/ CtlNoGroup(Alive) \/ CtlCreateJob
  <2>1. PICK pc \in {"stamp", "recover", "dispatched"} : ctl' = [ctl EXCEPT !.pc = pc]
    BY <1>6 DEF CtlExpire, CtlNoGroup, CtlCreateJob, Goto
  <2>2. ctl'.pc = pc
    BY <1>1, <2>1 DEF CtlState
  <2> QED BY <1>2, <2>2
<1>7. CASE CtlReadJob \/ CtlFindJob
  <2>1. PICK pc \in {"report", "sync", "adopt"} : ctl' = [ctl EXCEPT !.pc = pc, !.job = OwnedJob]
    BY Zenon, <1>7 DEF CtlReadJob, CtlFindJob
  <2>2. ctl'.pc = pc
    BY <1>1, <2>1 DEF CtlState
  <2> QED BY <1>2, <2>2
<1>8. CASE CtlFetchReport \/ CtlFetchReportFails
  <2>1. PICK m : ctl' = [ctl EXCEPT !.pc = "sync", !.message = m]
    BY Zenon, <1>8 DEF CtlFetchReport, CtlFetchReportFails
  <2> QED BY <1>1, <1>2, <2>1 DEF CtlState
<1>9. CASE CtlAwaitPrimary(Alive) \/ CtlLead(Alive)
  <2>1. Group(Alive).matched = FALSE
    BY DEF Group, NoMatch
  <2> QED BY Zenon, <1>9, <2>1 DEF CtlAwaitPrimary, CtlLead
<1>10. CASE CtlSoloFallback \/ (\E p \in FP : CtlSuppressPeer(p)) \/ CtlSetGroup \/ CtlSetLabel
  BY Zenon, <1>10 DEF CtlSoloFallback, CtlSuppressPeer, CtlSetGroup, CtlSetLabel, At
<1>11. CASE CtlRecover
  <2>1. PICK fs, pc : pc \in {"relabel", "gate"} /\ ctl' = [ctl EXCEPT !.pc = pc, !.findings = fs]
    <3>1. PICK pc \in {"relabel", "gate"} :
            pc = IF Recovering /\ Obj.label = NoGroup THEN "relabel" ELSE "gate"
      OBVIOUS
    <3> QED BY <1>11, <3>1, Zenon DEF CtlRecover
  <2>2. ctl'.pc = pc
    BY <1>1, <2>1 DEF CtlState
  <2> QED BY <1>2, <2>1, <2>2
<1>12. CASE CtlRecordPR
  <2>1. PICK r : ctl' = [ctl EXCEPT !.pc = "decide", !.obj = r]
    BY Zenon, <1>12 DEF CtlRecordPR
  <2>2. ctl'.pc = "decide"
    BY <1>1, <2>1 DEF CtlState
  <2> QED BY <1>2, <2>2
<1>13. CASE CtlRelabel
  <2>1. PICK r : ctl' = [ctl EXCEPT !.pc = "gate", !.obj = r]
    BY Zenon, <1>13 DEF CtlRelabel
  <2>2. ctl'.pc = "gate"
    BY <1>1, <2>1 DEF CtlState
  <2> QED BY <1>2, <2>2
<1>14. CASE CtlRecordPRFails
  <2>1. ctl'.pc = "decide"
    BY <1>1, <1>14 DEF CtlRecordPRFails, CtlState
  <2> QED BY <1>2, <2>1
<1>15. CASE CtlGate
  <2>1. ctl'.pc = "create"
    BY <1>1, <1>15 DEF CtlGate, Goto, CtlState
  <2> QED BY <1>15, <2>1
<1> QED
  BY <1>3, <1>5, <1>6, <1>7, <1>8, <1>9, <1>10, <1>11, <1>12, <1>13, <1>14, <1>15 DEF CtlStep

(* The Job controller, the garbage collector and the clock make no Job     *)
(* active that was not: a Job that was written off as stale does not start *)
(* any more, and a finished one does not run again.                        *)
LEMMA ActiveOnlyFalls ==
  ASSUME TypeInv, TypeInv', Cluster, ~LateStart
  PROVE  ActiveJobs(jobs)' \subseteq ActiveJobs(jobs)
<1> USE DEF BackoffLimit
<1>1. /\ jobs \in [FP -> Job \cup {NoObject}] /\ now \in Nat
      /\ StalenessTimeout \in Nat
  BY NumberAssumption DEF TypeInv, TypeOK, StoreTypeOK
<1>2. SUFFICES ASSUME NEW f \in FP, jobs'[f] # NoObject, IsJobActive(jobs[f])'
               PROVE  jobs[f] # NoObject /\ IsJobActive(jobs[f])
  BY DEF ActiveJobs
<1>3. CASE Tick \/ SyncRJobs \/ SyncJobs
  <2>1. jobs' = jobs /\ (now' = now \/ now' = now + 1)
    BY <1>3 DEF Tick, SyncRJobs, SyncJobs
  <2>2. jobs[f] \in Job
    BY <1>1, <1>2, <2>1
  <2> QED BY <1>1, <1>2, <2>1, <2>2 DEF IsJobActive, Job
<1>4. CASE \E g \in FP : AgentReportsPR(g)
  BY <1>2, <1>4 DEF AgentReportsPR, IsJobActive
<1>5. ASSUME NEW g \in FP, NEW j, SetJob(g, j), f # g \/ j = NoObject
      PROVE  jobs[f] # NoObject /\ IsJobActive(jobs[f])
  <2>1. f # g /\ jobs'[f] = jobs[f] /\ now' = now
    BY <1>1, <1>2, <1>5 DEF SetJob
  <2> QED BY <1>2, <2>1 DEF IsJobActive
<1>6. CASE \E g \in FP : JobExpire(g) \/ JobCollect(g)
  BY <1>5, <1>6 DEF JobExpire, JobCollect
<1>7. ASSUME NEW g \in FP, PodStart(g) \/ PodFail(g) \/ PodSucceed(g) \/ DeadlineExceeded(g)
      PROVE  jobs[f] # NoObject /\ IsJobActive(jobs[f])
  <2>1. CASE f # g
    BY <1>5, <1>7, <2>1 DEF PodStart, PodFail, PodSucceed, DeadlineExceeded
  <2>2. CASE f = g
    <3>1. jobs[f] \in Job /\ jobs[f] # NoObject /\ now' = now
      BY <1>1, <1>7, <2>2 DEF PodStart, PodFail, PodSucceed, DeadlineExceeded, Unfinished, SetJob
    <3> SUFFICES IsJobActive(jobs[f])
      BY <3>1
    <3>2. /\ jobs[f].failed \in 0..2 /\ jobs[f].active \in 0..1
          /\ jobs[f].succeeded \in 0..1 /\ jobs[f].created \in Nat
      BY <3>1 DEF Job
    <3>3. /\ jobs'[f].succeeded = 0 /\ jobs'[f].failed < 2
          /\ jobs'[f].active = 0 /\ jobs'[f].failed = 0
               => now' - jobs'[f].created <= StalenessTimeout
      BY <1>2 DEF IsJobActive
    <3>4. CASE PodStart(f)
      <4>1. jobs'[f] = [jobs[f] EXCEPT !.active = 1]
        BY <1>1, <3>4 DEF PodStart, SetJob
      <4>2. jobs'[f].succeeded = jobs[f].succeeded /\ jobs'[f].failed = jobs[f].failed
        BY <3>1, <4>1 DEF Job
      <4>3. jobs[f].failed > 0 \/ now - jobs[f].created <= StalenessTimeout
        BY <3>4 DEF PodStart
      <4> QED BY <3>2, <3>3, <4>2, <4>3 DEF IsJobActive
    <3>5. CASE PodFail(f)
      <4>1. PICK t : jobs'[f] = [jobs[f] EXCEPT !.active = 0, !.failed = jobs[f].failed + 1,
                                                !.finishedAt = t]
        BY <1>1, <3>5, Zenon DEF PodFail, SetJob
      <4>2. jobs'[f].succeeded = jobs[f].succeeded /\ jobs'[f].failed = jobs[f].failed + 1
        BY <3>1, <4>1 DEF Job
      <4>3. jobs[f].active = 1
        BY <3>5 DEF PodFail
      <4> QED BY <3>2, <3>3, <4>2, <4>3 DEF IsJobActive
    <3>6. CASE PodSucceed(f)
      <4>1. jobs'[f] = [jobs[f] EXCEPT !.active = 0, !.succeeded = 1, !.finishedAt = now]
        BY <1>1, <3>6 DEF PodSucceed, SetJob
      <4>2. jobs'[f].succeeded = 1
        BY <3>1, <4>1 DEF Job
      <4> QED BY <3>3, <4>2
    <3>7. CASE DeadlineExceeded(f)
      <4>1. jobs'[f] = [jobs[f] EXCEPT !.active = 0, !.failed = jobs[f].failed + jobs[f].active,
                                       !.finishedAt = now]
        BY <1>1, <3>7 DEF DeadlineExceeded, SetJob
      <4>2. /\ jobs'[f].succeeded = jobs[f].succeeded /\ jobs'[f].active = 0
            /\ jobs'[f].failed = jobs[f].failed + jobs[f].active
            /\ jobs'[f].created = jobs[f].created
        BY <3>1, <4>1 DEF Job
      <4>3. CASE jobs[f].active = 0 /\ jobs[f].failed = 0
        BY <1>1, <3>1, <3>2, <3>3, <4>2, <4>3 DEF IsJobActive
      <4>4. CASE jobs[f].active # 0 \/ jobs[f].failed # 0
        BY <3>2, <3>3, <4>2, <4>4 DEF IsJobActive
      <4> QED BY <4>3, <4>4
    <3> QED BY <1>7, <2>2, <3>4, <3>5, <3>6, <3>7
  <2> QED BY <2>1, <2>2
<1> QED BY <1>3, <1>4, <1>6, <1>7 DEF Cluster

(* A set of active Jobs that only lost members is no larger. *)
LEMMA FewerActive ==
  ASSUME IsFiniteSet(FP), ActiveJobs(jobs)' \subseteq ActiveJobs(jobs)
  PROVE  /\ Cardinality(ActiveJobs(jobs)) \in Nat /\ Cardinality(ActiveJobs(jobs)') \in Nat
         /\ Cardinality(ActiveJobs(jobs)') <= Cardinality(ActiveJobs(jobs))
<1>1. IsFiniteSet(ActiveJobs(jobs))
  BY FS_Subset DEF ActiveJobs
<1> QED BY <1>1, FS_Subset, FS_CardinalityType

(* Every step keeps the invariant of the gate. *)
LEMMA NextGate ==
  ASSUME IsFiniteSet(FP), ~Correlate, ~LateStart, "jobs" \notin Lagging, GateInv, [Next]_vars
  PROVE  GateInv'
<1>1. TypeInv /\ TypeInv' /\ MaxConcurrentJobs \in Nat
  BY NextType, NumberAssumption DEF GateInv
<1>2. ASSUME ActiveJobs(jobs)' \subseteq ActiveJobs(jobs), ctl'.pc \notin Correlating,
             ctl'.pc = "create" => ctl.pc = "create" \/ ~Limited
      PROVE  GateInv'
  <2>1. JobView = jobs
    BY DEF JobView
  <2>2. Cardinality(ActiveJobs(jobs))' = Cardinality(ActiveJobs(jobs)')
    OBVIOUS
  <2> QED BY <1>1, <1>2, <2>1, <2>2, FewerActive DEF GateInv, ConcurrencyBound, Limited
<1>3. ASSUME UNCHANGED <<jobs, now>>
      PROVE  ActiveJobs(jobs)' \subseteq ActiveJobs(jobs)
  BY <1>3 DEF ActiveJobs, IsJobActive
<1>4. CASE Cluster
  <2>1. ctl' = ctl
    BY <1>4 DEF Cluster, ctlVars
  <2> QED BY <1>1, <1>2, <1>4, <2>1, ActiveOnlyFalls DEF GateInv
<1>5. ASSUME UNCHANGED <<jobs, now, ctl>>
      PROVE  GateInv'
  BY SMTT(30), <1>2, <1>3, <1>5 DEF GateInv
<1>6. CASE Sources
  BY <1>5, <1>6 DEF Sources, SourceChange, ctlVars, store
<1>7. ASSUME (\E f \in FP : CtlGet(f)) \/ CtlStep(Alive) \/ CtlAbort \/ CtlRecordPRFails
             \/ CtlFetchReportFails
      PROVE  GateInv'
  <2>1. ctl'.pc \notin Correlating /\ (ctl'.pc = "create" => CtlGate)
    BY <1>1, <1>7, CreateFollowsGate DEF GateInv
  <2>2. CASE CtlCreateJob
    <3> DEFINE A == ActiveJobs(jobs)
    <3>1. Key \in FP /\ now' = now /\ \A f \in FP \ {Key} : jobs'[f] = jobs[f]
      <4>1. Key \in FP /\ DOMAIN jobs = FP
        BY <1>1, <2>2 DEF CtlCreateJob, At, Key, TypeInv, TypeOK, CtlTypeOK, StoreTypeOK
      <4>2. now' = now /\ \E j : jobs' = [jobs EXCEPT ![Key] = j]
        BY <2>2, Zenon DEF CtlCreateJob
      <4> QED BY <4>1, <4>2, Zenon
    <3>2. ActiveJobs(jobs)' \subseteq A \cup {Key}
      BY <3>1 DEF ActiveJobs, IsJobActive
    <3>3. IsFiniteSet(A) /\ IsFiniteSet(A \cup {Key})
      BY FS_Subset, FS_AddElement DEF ActiveJobs
    <3>4. Cardinality(A) \in Nat /\ Cardinality(A \cup {Key}) <= Cardinality(A) + 1
      BY <3>3, FS_AddElement, FS_CardinalityType
    <3>5. /\ Cardinality(ActiveJobs(jobs)') \in Nat
          /\ Cardinality(ActiveJobs(jobs)') <= Cardinality(A \cup {Key})
          /\ Cardinality(A \cup {Key}) \in Nat
      BY <3>2, <3>3, FS_Subset, FS_CardinalityType
    <3>6. ctl.pc = "create" /\ ctl'.pc # "create"
      BY <1>1, <2>2 DEF CtlCreateJob, At, Goto, TypeInv, TypeOK, CtlTypeOK, CtlState
    <3>7. MaxConcurrentJobs # 0 => Cardinality(ActiveJobs(jobs)') <= MaxConcurrentJobs
      BY <1>1, <3>4, <3>5, <3>6 DEF GateInv
    <3> QED BY SMTT(30), <1>1, <2>1, <3>6, <3>7 DEF GateInv, ConcurrencyBound
  <2>3. CASE ~CtlCreateJob
    <3>1. UNCHANGED <<jobs, now>>
      BY Zenon, <1>7, <2>3 DEF CtlStep, CtlRecordPR, CtlRecordPRFails, CtlInitPhase, CtlSetCompletedAt,
         CtlExpire, CtlStamp, CtlReadJob, CtlFetchReport, CtlFetchReportFails, CtlSync,
         CtlAwaitPrimary, CtlSoloFallback, CtlLead, CtlSuppressPeer, CtlSetGroup, CtlSetLabel, CtlNoGroup,
         CtlRecover, CtlRelabel, CtlGate, CtlRefuse, CtlFindJob, CtlAdopt, CtlDispatched,
         CtlReturn, CtlAbort, CtlGet, OnlyRJobs, store
    <3> QED BY <1>2, <1>3, <2>1, <3>1 DEF CtlGate
  <2> QED BY <2>2, <2>3
<1>8. CASE (\E f \in FP : Get(f)) \/ Step
  BY <1>7, <1>8 DEF Get, Step
<1>9. ASSUME NEW p \in Provider, UNCHANGED ctlVars,
             \/ \E s \in Src : PrvGone(p, s) \/ PrvFinding(p, s)
             \/ PrvStep(p) \/ PrvAbort(p) \/ \E f \in FP : PrvCancelFails(p, f)
      PROVE  GateInv'
  <2>1. UNCHANGED <<jobs, now>>
    BY Zenon, <1>9 DEF PrvGone, PrvFinding, PrvStep, PrvCancel, PrvCancelDelete, PrvDeleteFailed,
       PrvMerged, PrvDeleteTombstone, PrvPass, PrvCreate, PrvSuppress, PrvAbort, PrvCancelFails,
       PrvOnlyRJobs, store
  <2> QED BY <1>5, <1>9, <2>1 DEF ctlVars
<1>10. CASE \E p \in Provider : (\E s \in Src : Look(p, s)) \/ Work(p)
  BY <1>9, <1>10 DEF Look, Work
<1>11. CASE Fault
  BY <1>7, <1>9, <1>11 DEF Fault
<1>12. CASE UNCHANGED vars
  BY <1>5, <1>12 DEF vars, store, ctlVars
<1> QED
  BY <1>4, <1>6, <1>8, <1>10, <1>11, <1>12 DEF Next

(* MaxConcurrentJobs is respected, for any number of findings, sources and *)
(* providers and any failures, when correlation is disabled, Jobs are read *)
(* without lag and pods start within jobStalenessTimeout or not at all.    *)
THEOREM GateHolds ==
  ASSUME IsFiniteSet(FP), ~Correlate, ~LateStart, "jobs" \notin Lagging
  PROVE  Spec => []ConcurrencyBound
<1>1. Init => GateInv
  <2>1. SUFFICES ASSUME Init
                 PROVE  GateInv
    OBVIOUS
  <2>2. ActiveJobs(jobs) = {}
    BY <2>1 DEF Init, InitStore, ActiveJobs
  <2>3. ctl.pc = "idle"
    BY <2>1 DEF Init, InitCtl, Resting
  <2>4. Cardinality({}) = 0
    BY FS_EmptySet
  <2>5. ConcurrencyBound
    BY <2>2, <2>4, NumberAssumption DEF ConcurrencyBound
  <2> QED BY <2>1, <2>3, <2>5, InitType DEF GateInv, Correlating
<1>2. GateInv /\ [Next]_vars => GateInv'
  BY NextGate
<1>3. GateInv => ConcurrencyBound
  BY DEF GateInv
<1> QED BY <1>1, <1>2, <1>3, PTL DEF Spec
=============================================================================
