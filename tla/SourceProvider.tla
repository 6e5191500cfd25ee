--------------------------- MODULE SourceProvider ---------------------------
(***************************************************************************)
(* internal/provider: SourceProviderReconciler, one goroutine per source   *)
(* provider.  prv[p] is provider p's goroutine: it reads a source object,  *)
(* and then cancels the investigations of a deleted one, or deduplicates   *)
(* the finding of a failing one and creates a RemediationJob for it.       *)
(* The gates before deduplication (filters, circuit breaker, stabilisation *)
(* window) and the readiness gate only delay a finding: PrvFinding and     *)
(* PrvPass are taken when they are open.  Closing a pull request changes   *)
(* no object of the cluster and is left out.                               *)
(***************************************************************************)
EXTENDS AgentNamespace

CONSTANTS
  Provider,     \* the source providers
  SrcProvider,  \* [Src -> Provider]
  SrcRef,       \* [Src -> name]: SourceResultRef has no kind, so two sources may share it
  SrcFindings,  \* [Src -> SUBSET FP]: the findings a source object can show
  Vanish,       \* TRUE: source objects may be deleted
  MaxUid        \* bound on the number of RemediationJobs ever created

VARIABLES
  source,   \* [Src -> "gone", "healthy" or the finding it shows]
  prv,      \* [Provider -> worker]
  nextUid   \* the UID of the next RemediationJob

Waiting == [pc |-> "idle", src |-> NoObject, key |-> NoObject, obj |-> NoObject, todo |-> {}]

InitPrv ==
  /\ source = [s \in Src |-> "healthy"]
  /\ prv = [p \in Provider |-> Waiting]
  /\ nextUid = 1

PrvAt(p, pc) == prv[p].pc = pc
PrvGoto(p, pc) == prv' = [prv EXCEPT ![p].pc = pc]
PrvReturn(p) == prv' = [prv EXCEPT ![p] = Waiting]

PrvOnlyRJobs ==
  UNCHANGED <<jobs, rjCache, jobCache, reports, now, spawned, source, nextUid>>

(* The findings whose source object can still be read from the cluster. *)
Alive == {f \in FP : RJobView[f] # NoObject /\ source[RJobView[f].src] # "gone"}

(* The cluster: a source object starts to fail, recovers, is deleted or    *)
(* is created again.                                                       *)
SourceChange(s, v) ==
  /\ v \in {"healthy"} \cup SrcFindings[s] \cup (IF Vanish THEN {"gone"} ELSE {})
  /\ source[s] # v
  /\ source' = [source EXCEPT ![s] = v]
  /\ UNCHANGED <<store, prv, nextUid>>

-----------------------------------------------------------------------------
Cancellable == {"New", "Pending", "Dispatched", "Running", "Suppressed"}

(* Faulty variant: the source reference is not compared. *)
CreatedFromAny(s) ==
  {f \in FP : RJobView[f] # NoObject /\ RJobView[f].phase \in Cancellable}

CreatedFrom(s) ==
  {f \in FP : /\ RJobView[f] # NoObject
              /\ SrcRef[RJobView[f].src] = SrcRef[s]
              /\ RJobView[f].phase \in Cancellable}

PrvGone(p, s) ==
  /\ PrvAt(p, "idle")
  /\ SrcProvider[s] = p
  /\ source[s] = "gone"
  /\ CreatedFrom(s) # {}
  /\ prv' = [prv EXCEPT ![p] = [Waiting EXCEPT !.pc = "cancel", !.src = s,
                                               !.todo = CreatedFrom(s)]]
  /\ UNCHANGED <<store, source, nextUid>>

PrvCancel(p, f) ==
  /\ PrvAt(p, "cancel")
  /\ f \in prv[p].todo
  /\ PatchRJob(f, [rjobs[f] EXCEPT !.phase = "Cancelled"])
  /\ prv' = [prv EXCEPT ![p].pc = "cancelDelete", ![p].key = f,
                        ![p].todo = @ \ {f}]
  /\ PrvOnlyRJobs

PrvCancelDelete(p) ==
  /\ PrvAt(p, "cancelDelete")
  /\ DeleteRJob(prv[p].key)
  /\ IF prv[p].todo = {} THEN PrvReturn(p) ELSE PrvGoto(p, "cancel")
  /\ PrvOnlyRJobs

(* A patch or a delete failed: the error is kept for the end, and the loop *)
(* goes on with the next RemediationJob.                                   *)
PrvCancelFails(p, f) ==
  /\ \/ PrvAt(p, "cancel") /\ f \in prv[p].todo
     \/ PrvAt(p, "cancelDelete") /\ f = prv[p].key
  /\ LET rest == prv[p].todo \ {f}
     IN  IF rest = {} THEN PrvReturn(p)
         ELSE prv' = [prv EXCEPT ![p].pc = "cancel", ![p].todo = rest]
  /\ UNCHANGED <<store, source, nextUid>>

-----------------------------------------------------------------------------

(* Deduplication by fingerprint: the phases that do not simply suppress. *)
PrvFinding(p, s) ==
  /\ PrvAt(p, "idle")
  /\ SrcProvider[s] = p
  /\ source[s] \in FP
  /\ LET f == source[s]
         o == RJobView[f]
         next(pc) == prv' = [prv EXCEPT ![p] =
                       [Waiting EXCEPT !.pc = pc, !.src = s, !.key = f, !.obj = o]]
     IN  \/ o = NoObject /\ next("hierarchy")
         \/ o # NoObject /\ o.phase = "Failed" /\ next("deleteFailed")
         \/ o # NoObject /\ o.phase = "Succeeded" /\ ~o.merged /\ next("tombstone")
  /\ UNCHANGED <<store, source, nextUid>>

PrvDeleteFailed(p) ==
  /\ PrvAt(p, "deleteFailed")
  /\ DeleteRJob(prv[p].key)
  /\ PrvGoto(p, "hierarchy")
  /\ PrvOnlyRJobs

(* IsMerged answered yes; an error, or no, falls through to the short TTL. *)
PrvMerged(p) ==
  /\ PrvAt(p, "tombstone")
  /\ prv[p].obj.sink
  /\ PatchRJob(prv[p].key, [rjobs[prv[p].key] EXCEPT !.merged = TRUE, !.mergedAt = now])
  /\ PrvReturn(p)
  /\ PrvOnlyRJobs

WithinShortTTL(o) == o.completedAt # NoTime /\ now - o.completedAt < ShortTTL

PrvDeleteTombstone(p) ==
  /\ PrvAt(p, "tombstone")
  /\ ~WithinShortTTL(prv[p].obj)
  /\ DeleteRJob(prv[p].key)
  /\ PrvReturn(p)
  /\ PrvOnlyRJobs

(* A RemediationJob of a higher kind for the same parent, in any phase. *)
Superseded(f) ==
  /\ Finding[f].parent # <<>>
  /\ \E g \in FP : /\ RJobView[g] # NoObject
                   /\ Finding[g].ns = Finding[f].ns
                   /\ Finding[g].parent = Finding[f].parent
                   /\ Rank(g) > Rank(f)

PrvPass(p) ==
  /\ PrvAt(p, "hierarchy")
  /\ ~Superseded(prv[p].key)
  /\ PrvGoto(p, "create")
  /\ UNCHANGED <<store, source, nextUid>>

PrvCreate(p) ==
  /\ PrvAt(p, "create")
  /\ rjobs[prv[p].key] = NoObject
  /\ nextUid <= MaxUid
  /\ rjobs' = [rjobs EXCEPT ![prv[p].key] = NewRJob(nextUid, prv[p].src)]
  /\ nextUid' = nextUid + 1
  /\ PrvReturn(p)
  /\ UNCHANGED <<jobs, rjCache, jobCache, reports, now, spawned, source>>

(* Suppressed by a tombstone, by a parent's RemediationJob, by the         *)
(* readiness gate, or because the name is already taken (AlreadyExists).   *)
PrvSuppress(p) ==
  /\ \/ PrvAt(p, "tombstone") /\ WithinShortTTL(prv[p].obj)
     \/ PrvAt(p, "hierarchy")
     \/ PrvAt(p, "create") /\ (rjobs[prv[p].key] # NoObject \/ nextUid > MaxUid)
  /\ PrvReturn(p)
  /\ UNCHANGED <<store, source, nextUid>>

(* A failed API call or a watcher crash ends the reconcile. *)
PrvAbort(p) ==
  /\ ~PrvAt(p, "idle")
  /\ PrvReturn(p)
  /\ UNCHANGED <<store, source, nextUid>>

PrvStep(p) ==
  \/ \E f \in FP : PrvCancel(p, f)
  \/ PrvCancelDelete(p) \/ PrvDeleteFailed(p)
  \/ PrvMerged(p) \/ PrvDeleteTombstone(p)
  \/ PrvPass(p) \/ PrvCreate(p) \/ PrvSuppress(p)
=============================================================================
