# TLA+ model of the k8s-mechanic watcher

The watcher turns findings about failing Kubernetes objects into
investigations by an agent. This directory models what it does to the cluster:
TLA+ modules, TLC configurations for small instances, and TLAPS proofs for all
instances. `PROJECT.json` maps every definition to the lines it models.

## 1. The system

### Components and their state

| Part | State | Operations |
|---|---|---|
| RemediationJob controller (`internal/controller`) | one reconcile in flight; everything else is in the API server | `Reconcile`: tombstone expiry, PR recording, status sync from the Job, correlation, concurrency gate, `dispatch` |
| Source providers (`internal/provider`) | one goroutine per kind; a `BoundedMap` of first sightings | `Reconcile`: cancel, gates, deduplicate, create |
| Circuit breaker (`internal/circuitbreaker`) | time of the last grant, shared by all providers, in memory | `ShouldAllow` |
| Readiness checkers (`internal/readiness`) | a cached result per dependency, shared by all providers | `Check`: cached, or probe and store |
| Native providers (`internal/provider/native`) | none | `ExtractFinding`: the finding of an object, its parent and its depth in a cascade |
| Correlator (`internal/correlator`) | none | three rules, first match wins |
| Job builder (`internal/jobbuilder`) | none | `Build` |
| API server and informers (external) | RemediationJobs, Jobs, ConfigMaps; a cache per kind | reads from the cache, writes directly |
| Job controller, garbage collector, agent (external) | pods of a Job, report ConfigMap, PR reference | start, fail, succeed, exceed deadline, expire, collect |
| Sink closer, token provider, configuration, metrics, text filters | see section 7 | |

### How they interact

A provider that sees a failing object creates a RemediationJob named after the
finding's fingerprint. The controller dispatches it: it creates a Job, also
named after the fingerprint and owned by the RemediationJob, and follows the
Job until it ends. The provider removes failed, expired or merged
RemediationJobs before it creates new ones, and cancels those whose object is
deleted. Nothing locks: all coordination goes through object names, phases
and caches that lag behind.

The agents are Jobs with Pods in a watched namespace, so when an agent fails
the providers find that as well, and an agent is sent to investigate an agent.

### What is hard here

- Every write is a separate call, and the process may stop between any two.
- Reads come from caches; a decision may rest on an object that has changed,
  or been replaced by another of the same name.
- Deletes and status patches are by name, without a version.
- Two controllers write the same status.
- A counter in an object is lost when the object is deleted and re-created.
- Several timers (window, cooldown, map expiry, readiness TTL) restart each
  other.
- Probes of one dependency overlap, and the last to finish wins.

`PROJECT.json` lists these as hazards, each at its line and with its
properties.

## 2. Modules

| Module | Models | Remarks |
|---|---|---|
| `Findings` | the facts of a finding that decisions read | parent names are sequences of dash-separated parts, so that prefix tests are exact |
| `AgentNamespace` | the stored objects, the caches, the clock; the Job controller, garbage collector and agent | the external part |
| `Correlator` | the correlation rules | pure operators |
| `Snapshots` | what the rules are asked about: any set of Pending RemediationJobs, with pods deleted meanwhile | the cluster is external; `Waits` is the controller's reading of a verdict |
| `RemediationJobController` | `RemediationJobReconciler` | `ctl` is its goroutine; one action per API write |
| `SourceProvider` | `SourceProviderReconciler` from deduplication on, and cancellation | `prv[p]` is the goroutine of provider `p` |
| `Mechanic` | all of the above together, with faults | the properties of the watcher |
| `FindingGates` | the gates before deduplication: filters, breaker, window, `BoundedMap` | time is explicit |
| `SelfRemediation` | the cascade of investigations of the watcher's own agents: the Job and Pod providers, the depth gate, deletion and re-creation | a finding is named by the chain of findings that led to it |
| `Readiness` | `CachedChecker`, `All`, the two Secret checkers and the gate that requeues | time is explicit |
| `Investigation` | what the watcher promises about one finding: the phases of its life | abstract |
| `Refinement` | `Mechanic` implements `Investigation` | a finding's life is the phase of the object under its name |
| `MCMechanic`, `MCCorrelator`, `MCFindingGates`, `MCReadiness` | small instances | |
| `MechanicTypes` | type correctness of the watcher | proofs |
| `DispatchProofs` | dispatch: one Job per incarnation, the dry-run report | proofs |
| `InvestigationProofs` | the refinement, what follows from it, and cancellation | proofs |
| `ControllerProofs` | what correlation promises of a suppressed finding, and the limit on active Jobs | proofs |
| `CorrelatorProofs` | the verdicts of the rules | proofs |
| `GateProofs`, `CascadeProofs`, `ReadinessProofs` | the gates, the cascade and the readiness cache | proofs |

**Objects.** A RemediationJob and its Job are records under the fingerprint
that names both, or `NoObject`. `uid` tells incarnations apart and is never
reused; a Job's `owner` is the UID of the incarnation it was made for.
Fingerprint prefixes are taken to be distinct.

**Caches.** For a kind in `Lagging`, reads return an older snapshot that
`SyncRJobs` or `SyncJobs` brings up to date at any time; otherwise reads are
current. Writes always reach the stored object.

**Reconciles.** A reconcile reads (`CtlGet`, `PrvGone`, `PrvFinding`), decides,
and then performs its writes one step at a time, with everything else in the
cluster free to act in between. The in-memory object is carried along, and a
merge patch changes only the fields the code changed. `CtlAbort` and
`PrvAbort` end a reconcile at any point: a failed call that returns an error,
or a crash. Errors that the code logs and survives have actions of their own
(`CtlRecordPRFails`, `CtlFetchReportFails`, `PrvCancelFails`).

**Time.** In `Mechanic` the clock advances at any moment up to `MaxNow`. In
`FindingGates` and `Readiness` a timestamp is its age in ticks, capped where no
comparison tells ages apart. In `FindingGates` the queue is served before time
passes; in `Readiness` time passes during a check, up to `MaxCheck`.

**Chains.** In `SelfRemediation` the user's finding is the empty chain, and a
finding about an agent is the chain of the finding that the agent was sent for
plus one link. A link holds what `FindingFingerprint` hashes: the kind, the
parent that `getParent` found, and what varies in the error texts. Equal
chains are therefore equal fingerprints, and one chain names a RemediationJob
and its Job.

**Lifecycle.** `Investigation` has one variable, the life of each finding, and
seven steps: begin, accept, suppress, work, finish, forget and withdraw. It
says that a suppressed or permanently failed investigation is never taken up
or removed again, that nothing is accepted or suppressed after it was
dispatched, and that only ended investigations are deleted, with one exception
that the code has: the deletion of an expired tombstone may hit its successor
before that was accepted (`remediationjob_controller.go:143`).

Definitions called "Faulty variant" in the modules are not part of the model;
each is a plausible mistake that must violate the property `PROJECT.json`
names with it, which shows that the property depends on that code.

## 3. Runs

`tlc -workers 2 -config <Run>.cfg <module>`; the module of each run is in
`PROJECT.json`.

### What holds

| Run | Property | Shows |
|---|---|---|
| `Lifecycle` | `ConcurrencyBound`, `ImplementsInvestigation` | two findings, one slot, no correlation, current caches, no fault: the limit holds, and every write is a step of the abstract lifecycle |
| `Correlation` | `SuppressedNeverDispatched`, `SuppressedIsCarried`, `TerminalIsStable`, `ReportNotLost`, `ImplementsInvestigation` | two findings around the window, with late, failing, expiring and deadline-exceeded Jobs and one fault: the group's Job carries the suppressed finding, a finished investigation keeps its phase, until a call fails a suppressed finding has no Job of its own and no report is lost, and the lifecycle holds |
| `Cancellation` | `CancelsOwn` | deleting a source cancels only its own investigations, when no two sources share a name |
| `Settles` | `NoDoubleDispatch`, `EventuallySettled`, `TypeOK` | both caches lagging, one fault: no incarnation gets a second Job, and every investigation ends, with neither deadlines nor deletions |
| `CorrelationRules` | `NoWaitCycle` | over all snapshots of seven findings, no ring of candidates waits for itself |
| `Gates` | `TypeOK`, `MapBounded`, `StableBeforeCreated` | a full map, a restart, changing objects: nothing is created before its window |
| `GatesOpen` | `PersistentFindingCreated` | a cooldown no longer than the window, a map that is large enough, and objects that come to rest: every persistent finding gets through |
| `SelfRemediation` | `TypeOK`, `JobChainBounded` | Job findings follow one another at most to the depth limit, while investigations are deleted and created again, unless a failed Job is seen without its RemediationJob |
| `Readiness` | `AnswersRecent`, `RefusedEventuallyPasses` | two providers and two dependencies: the gate goes by what was true less than the TTL and two checks ago, and a refused finding gets through once the Secrets stay complete |

### Where code and documentation disagree

Three runs violate a property that the API type or another document states;
`PROJECT.json` quotes the lines under "findings".

| Run | Property | What happens |
|---|---|---|
| `DeadlineNotSeen` | `EventuallySettled` | a Job past its deadline is not recognised as failed, and its RemediationJob stays open for ever |
| `RetriesUnbounded` | `RetriesBounded` | the retry counter is deleted with its object, so the limit is never reached unless it is one |
| `ChainUnbounded` | `ChainBounded` | a failing Pod of an agent is a finding of depth zero, so agents investigate agents without a limit |

The conditions of the passing runs are needed. Changing one configuration as
follows, TLC finds the property violated:

| Property | Change | What happens |
|---|---|---|
| `ConcurrencyBound` | `Lifecycle`: three findings, sources `s1`-`s3`, `MaxUid = 3`, `Correlate = TRUE` | a correlated primary is dispatched without the gate |
| `ConcurrencyBound` | `Lifecycle`: `Lagging = {"jobs"}` | the gate does not see the Job just created |
| `ConcurrencyBound` | `Lifecycle`: `LateStart = TRUE`, `StalenessTimeout = 0` | a Job written off as stale starts after all |
| `ImplementsInvestigation` | `Lifecycle`: `Lagging = {"rjobs"}` | a write on the strength of a stale object moves its successor |
| `SuppressedIsCarried` | `Correlation`: three findings, sources `s1`-`s3`, `MaxUid = 3`, `Window = 0` | a fault between two suppressions loses the first one |
| `TerminalIsStable` | `Correlation`: `Lagging = {"rjobs"}` | a status patch carries no version |
| `CancelsOwn` | `Cancellation`: `Provider = {p1, p2}`, `SrcProvider <- MCSrcProvider`, `SrcRef <- MCSharedRef` | the source reference has no kind |
| `EventuallySettled` | `Settles`: `Lagging = {}`, `MaxUid = 2`, `Vanish = TRUE` | an adopted Job is collected with its former owner |
| `EventuallySettled` | `Settles`: `MaxUid = 2` | a reconcile of a stale Pending object creates a Job for the dead incarnation and marks the new one Dispatched |
| `PersistentFindingCreated` | `GatesOpen`: `Cooldown = 5` | the breaker is asked before the window, and its cooldown (300 s by default) outlasts the memory of the map (240 s) |
| `PersistentFindingCreated` | `GatesOpen`: `Chatty = {b}` | healthy neighbours restart the window |
| `PersistentFindingCreated` | `GatesOpen`: `MapSize = 1` | more findings than entries: none completes its window |

Other statements that the modelled code does not keep, for which no property
is kept:

- A phase moves back from Running to Dispatched between two pods of a Job
  (`syncPhaseFromJob`; `docs/DESIGN/lld/CONTROLLER_LLD.md:328`).
- The peers of a failed primary stay Suppressed when the provider re-creates
  the primary outside its group (`provider.go:437`;
  `api/v1alpha1/remediationjob_types.go:78`).
- A peer whose Dispatched patch was lost is suppressed although its Job runs
  (`remediationjob_controller.go:732`).
- The patch after a tombstone's Delete gives its successor a completion time
  (`remediationjob_controller.go:162`).
- `MultiPodSameNodeRule` holds a pod of a second qualifying node for a group it
  is not in (`rules.go:391`; the comment at `rules.go:304`).
- Two claims of one pod both lead an investigation (`rules.go:279`; the comment
  at `rules.go:190`).
- The breaker's last grant is lost on restart (`docs/circuit-breaker.md:5`).
- A dry-run report is deleted before the patch that stores it; the patch may
  fail (`remediationjob_controller.go:542`).
- The readiness cache is not "always expired before the next reconcile fires"
  (`provider.go:58`): another provider may have refreshed it. `Readiness` shows
  that the finding gets through all the same.
- A failure whose text alternates has several fingerprints, and each its own
  investigation (`domain/provider.go:53`; `README.md:21`).
- A close that failed after its comment is repeated with another comment
  (`closer.go:79`; the comment at `closer.go:34`).

### Bounds

- One finding where the question is about one object's life; two where
  findings compete or correlate.
- `MaxUid`, the RemediationJobs ever created, is 2 or 3: an object, its
  successor, and one more to pass a retry limit of 2. `Settles` has 1, because
  re-creation under a lagging RemediationJob cache is the counterexample above;
  it also passes with `Lagging = {"jobs"}`, `MaxUid = 3` and `MaxFaults = 2`.
- `MaxNow` is 0 where no timer matters; otherwise it passes every time limit
  the run is about.
- `MaxFaults` is 1: most hazards need one interrupted reconcile. In `Lifecycle`
  it is 0, because time, two providers and two findings already fill the run;
  it passes with 1 as well (966,792 states). The theorems
  of section 5 have no such bound.
- `Gates` has three objects, two providers and a map with one entry, so that
  the limit is met; `MaxChanges` 3 lets a finding appear, vanish and return.
- `SelfRemediation` creates three RemediationJobs with a depth limit of 1: the
  user's finding, one agent's failure, and one more that would be too many or
  is the re-creation of an earlier one.
- `Readiness` has two callers, two dependencies, a TTL of 2 and checks that
  take up to 1: an entry can be hit at another time than it was stored at, and
  a probe can span a change of its Secret.
- `Times` of `CorrelationRules` is two creation times, so that any two
  findings can be tied or ordered either way. Its findings form one pod with two claims, a second pod with
  one of them, the first pod's Deployment, and two pods on a second node, so
  that each pair of rules can compete for a candidate.

No run uses symmetry: findings differ in kind, name and order.

## 4. Fairness

Only `Settles`, `GatesOpen`, `Readiness` and `DeadlineNotSeen` use it.

- `FairSpec` of `Mechanic`: a work queue serves every object that changed or
  was requeued, so `Get` and `Look` are strongly fair (the single worker may be
  busy with another object again and again); a reconcile that began goes on
  (weak fairness of `Step` and `Work`); pods start and end, the garbage
  collector and the watches make progress, and time passes. Sources need not
  change, faults need not happen, and Jobs need not exceed their deadline.
- `FairSpec` of `FindingGates`: queued objects are served and time passes.
- `FairSpec` of `Readiness`: time passes, a check that began goes on, and an
  expired requeue is served. Events and changes of Secrets need not come, and
  may come for ever.

## 5. Proofs

`tlapm <Module>.tla`. The assumptions are those named in `Mechanic`,
`Correlator`, `Snapshots`, `FindingGates`, `SelfRemediation` and `Readiness`
(constants have their types, names are ordered and distinct, the TTL of the
readiness cache is not zero, no checker is listed twice) and in the modules
they extend; TLC evaluates them in the runs. Every safety property that a
passing run checks has a theorem. What a theorem assumes beyond that is listed
here, and where section 3 has a counterexample without it.

| Theorem | States | Assumes |
|---|---|---|
| `TypeCorrect` (`MechanicTypes`) | `Spec => []TypeOK` | nothing |
| `DispatchedOnce` (`DispatchProofs`) | `Spec => NoDoubleDispatch` | nothing |
| `ReportsArrive` (`DispatchProofs`) | `Spec => ReportNotLost` | nothing |
| `Implements` (`InvestigationProofs`) | `Spec => ImplementsInvestigation` | `ReadsCurrent` |
| `TerminalHolds` (`InvestigationProofs`) | `Spec => TerminalIsStable` | `ReadsCurrent` |
| `CancelsOnlyOwn` (`InvestigationProofs`) | `Spec => CancelsOwn` | `FingerprintsApart`, `RefsDistinct`, `ListsOwn` |
| `NeverDispatchedWhenSuppressed` (`ControllerProofs`) | `Spec => []SuppressedNeverDispatched` | `ReadsCurrent` |
| `CarriedBeforeFaults` (`ControllerProofs`) | `Spec => [](faults = MaxFaults => SuppressedIsCarried)` | `ReadsCurrent`, current Job cache |
| `GateHolds` (`ControllerProofs`) | `Spec => []ConcurrencyBound` | finitely many findings, no correlation, no late starts, current Job cache |
| `NobodyWaitsInARing` (`CorrelatorProofs`) | `Spec => []NoWaitCycle` | nothing |
| `GatesTyped`, `WindowHolds`, `MapHolds` (`GateProofs`) | `[]TypeOK`, `StableBeforeCreated`, `[]MapBounded` | nothing |
| `CascadeTyped`, `CascadeBounded` (`CascadeProofs`) | `[]TypeOK`, `[](TypeOK /\ JobChainBounded)` | nothing |
| `AnswersBounded` (`ReadinessProofs`) | `Spec => []AnswersRecent` | nothing |

`ReadsCurrent` says that the RemediationJob cache is current, that no source
object is deleted, and that no two providers share a fingerprint
(`FingerprintsApart`: the kind is hashed). The number of faults is bounded by
no theorem; `faults = MaxFaults` says that none has happened yet.

**`TypeCorrect`.** Each program point of a goroutine holds what that point
reads. `TypeOK` is not inductive: a pod failure raises a Job's failed count,
which stays in range only because a Job that reached the limit has finished.
`TypeInv` adds that (`JobsEnd`).

**`DispatchedOnce`**, with any lag, any number of faults, deletions and
re-creations. The invariant adds to `TypeInv` that every UID stored, cached,
held by the controller or ever dispatched is smaller than the next one
(`FreshUids`), and that an incarnation which was given a Job still has it
(`Dispatched`): the name is then taken, and a second Create is refused. It
relies on the garbage collector sparing Jobs whose owner lives. A Job that
expires (`JobExpire`, its TTL after finishing) is taken out of the history
`spawned`, so the theorem is about Jobs that have not expired.

**`ReportsArrive`**, with any lag and deletions. The property itself excuses
what happens after a fault. The invariant (`ReportDue`) says where a report is:
if a succeeded Job of the living incarnation is in the store, in the cache or
in the hands of the reconcile at work, and the message is not written yet,
then the report is in the cluster, or that reconcile has just read it. A cached
Job may be long gone, but then it belongs to an earlier incarnation, because
UIDs are never reused (`OwnersKnown`).

**`Implements`**, with and without correlation, for any Job-cache lag and
faults. The invariant says that what a goroutine read is still true where it
writes: only the controller moves an open investigation (`CtlAgrees`), only the
provider that owns a finding begins it or forgets a failed one (`PrvAgrees`);
both may delete a tombstone, which is why a deletion may hit a successor that
is still new. The step lemma then shows that every action moves at most one
life, along an edge of `Investigation`. **`TerminalHolds`** follows: the
abstract lifecycle has no edge out of an ended life but its deletion
(`EndedLife`). Section 3 has the counterexample for a lagging cache.

**`CancelsOnlyOwn`**, with any faults and however late the patches come after
the list. Besides `FingerprintsApart` it assumes that `SourceResultRef` tells
the source objects apart (`RefsDistinct`; section 3 has the counterexample),
and that the list is current or no two objects share a fingerprint
(`ListsOwn`): a stale list may name a RemediationJob that another object has
since re-created. The invariant (`Rooted`) says that a RemediationJob's
fingerprint is among its source's findings, in the store, in the cache and in
what a provider is about to create, and that whatever is on a provider's list
of cancellations was created from the object that is gone, or is gone itself.

**`NeverDispatchedWhenSuppressed`**, with any Job-cache lag; the property
itself excuses what happens after a fault. The invariant (`JobsTold`) says that
an incarnation with a Job is past Pending, except while the one reconcile that
created the Job is about to say so. Peers are suppressed only while Pending, as
they still are when the reconcile gets to them (`CtlAgrees`), and by another
reconcile than that one.

**`CarriedBeforeFaults`.** A group's ID is drawn by the reconcile that leads
the group. Until it has dispatched, the objects that carry the ID are the peers
it has suppressed, all of which its Job will be given, and in the end its own
(`Gathered`). An object that is not dispatched carries an ID only while its
reconcile leads (`Named`), since no reconcile is cut short; so the Job that is
created for an object carries everything suppressed into its group. The
condition is needed: with three findings, a fault loses a suppression (section
3). The recovery path, which only a fault leads to, is model-checked with two
findings.

**`GateHolds`.** The invariant adds that at the program point before Create
fewer Jobs than the limit are active: this goroutine alone creates Jobs, and
nothing else makes an inactive Job active. Section 3 has a counterexample for
each of the last three assumptions.

**`NobodyWaitsInARing`**, for any findings, names, nodes, times and threshold
and whatever is pending. Rules of different kinds may match the members of
one group, so a ring could mix them. Take candidates that all wait for one of
themselves. None is decided by `PVCPodRule`, where a pod waits for a claim and
the claim leads (`ClaimsLead`). Not all are decided by `MultiPodSameNodeRule`,
which names the same primary to everyone. Of those that
`SameNamespaceParentRule` decides, each waits for another of them that is
better by rank, then age, then name (`PrimaryOfParents`); but this order is
strict (`BetterStrict`) and every nonempty set has a best member (`BestExists`,
by the well-foundedness of the naturals).

**`WindowHolds`.** The invariant says that an entry of a map is never older than
the unbroken series of reconciles that saw its object failing. **`MapHolds`**
adds that a map's domain is finite, so that removing one entry and adding one
can be counted.

**`CascadeBounded`**, for any depth limit and any number of RemediationJobs. The
depth is a number stored in an object; the invariant says what it counts: it is
at least the number of Job links that the object's chain ends in, both for what
is stored and for what a provider is about to create. It holds until a failed
Job is seen without its RemediationJob, when the code starts the count at one.

**`AnswersBounded`**, for any callers, dependencies, TTL and duration of a check.
The invariant follows a result: a probe's result was true since the check began
(`ProbeRecent`); a stored one is at most one check older than its time stamp,
whoever stored it (`CacheRecent`); a collected one is younger than the TTL and
two checks (`CollectedRecent`).

Only model-checked: all liveness (fairness and ENABLED are outside the prover's
reach), the three disagreements of section 3, and `SuppressedIsCarried` after a
fault.

## 6. Abstractions

- Gates before deduplication, and readiness, only delay a finding in
  `SourceProvider`: the provider may take a finding up at any time it is
  shown. `FindingGates` and `Readiness` model the gates themselves, and there
  a finding that has a RemediationJob keeps it.
- In `SelfRemediation` a reconcile of the controller is one step, an open
  RemediationJob is one that has not ended, failed ones are always retried, and
  filters, breaker, window and readiness only delay (`GiveUp`). Cancellation and
  the expiry of finished Jobs are left out: they only delete.
- In `Readiness` a Secret that cannot be read counts as incomplete, one
  provider is one goroutine with one finding at the gate, and a cancelled
  context (the process is stopping) is left out.
- `transitionSuppressed` makes two patches of one object; they are one step.
- A suppressed peer's other conditions are taken from the stored object, and
  the list of peers leaves out a new incarnation of the candidate itself.
- A cache is a snapshot of a whole kind, never older than what it showed
  before.
- The answer of `IsMerged`, and whether an agent opens a pull request, are
  nondeterministic. Closing pull requests changes no object and is left out.
- A provider may look at a deleted source at any time; that the delete event
  is delivered once, and lost with a crash, is not modelled.
- Prompts, messages, metrics, events and log lines are left out; the dry-run
  report is one of three values (none, the report, or its absence noted).

## 7. Not modelled

- Lost delete events: a provider may look at a deleted source at any time in
  the model, whereas the work queue delivers the deletion once and loses it
  with the process, after which nothing cancels the source's investigations
  (`provider.go:84`-`:164`). A faithful model needs the work queue and the
  informers' first list as state, for every object; `Mechanic` with that is
  beyond what TLC finishes.
- Closing pull requests (`autoCloseSucceededSinks`, `closer.go`) and asking
  whether one was merged (`merge_checker.go`): sequences of HTTP calls on
  objects outside the cluster. The only answer that the watcher decides by,
  `IsMerged`, is nondeterministic.
- The token provider (`internal/github/token.go`) holds its mutex for the
  whole of its HTTP call, so that its callers cannot interleave.
- The other native providers, severity and annotation filters: functions of
  one object without state, which unit tests reach; their verdicts are inputs.
- `Investigation` has no cancellation: a cancellation acts on the phase it
  listed, so with deleted sources the watcher keeps no lifecycle that is worth
  stating beyond `CancelsOwn`.
- Configuration parsing, metrics and logging, redaction and injection patterns
  (regular expressions over text), generated deep-copy code, the pod
  specification that `Build` assembles, the agent itself and the Helm chart.
