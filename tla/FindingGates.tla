---------------------------- MODULE FindingGates ----------------------------
(***************************************************************************)
(* internal/provider and internal/circuitbreaker: the gates that a finding *)
(* passes before deduplication.  Each provider keeps a BoundedMap of when  *)
(* it first saw each finding (the stabilisation window), and all providers *)
(* share one CircuitBreaker for findings about the watcher's own agents.   *)
(*                                                                         *)
(* A timestamp is modelled by its age, in ticks, capped at Old, beyond     *)
(* which no comparison of the code tells ages apart.  The work queue is    *)
(* served before time moves on: a reconcile takes milliseconds, a tick     *)
(* stands for the tens of seconds of the windows.                          *)
(***************************************************************************)
EXTENDS Integers, FiniteSets, Functions

CONSTANTS
  Object,        \* watched objects; each can show one finding
  Provider,      \* the source providers
  ProviderOf,    \* [Object -> Provider]
  Filtered,      \* objects whose finding the filters reject
  Deep,          \* objects whose finding has a ChainDepth within the allowed depth
  Critical,      \* objects annotated with priority "critical"
  Stabilisation, \* StabilisationWindow
  Cooldown,      \* SelfRemediationCooldown
  MapSize,       \* entries a BoundedMap may hold
  Chatty,        \* objects that are updated again and again without changing health
  MaxChanges,    \* bound on changes of health; -1 for none
  MaxRestarts    \* bound on restarts of the watcher

ASSUME GateAssumption ==
  /\ ProviderOf \in [Object -> Provider]
  /\ {Stabilisation, Cooldown, MapSize, MaxRestarts} \subseteq Nat
  /\ MaxChanges \in Nat \cup {-1}

VARIABLES
  failing,       \* the objects that show their finding
  created,       \* the objects whose finding has a RemediationJob
  queue,         \* the objects queued for a reconcile
  timer,         \* [objects to be queued later -> ticks until then]
  firstSeen,     \* [Provider -> [objects in its BoundedMap -> age]]
  sinceCleanup,  \* [Provider -> age of the map's lastCleanup]
  sinceAllowed,  \* age of the breaker's lastAllowed, or Never
  observed,      \* history: [objects seen failing by every reconcile since -> age]
  changes,
  restarts

vars == <<failing, created, queue, timer, firstSeen, sinceCleanup, sinceAllowed,
          observed, changes, restarts>>

Never == -1
SeenTTL == 2 * Stabilisation  \* with no window the map is never filled
CleanupInterval == SeenTTL \div 2
Old == SeenTTL + Cooldown + 1
Age == 0..Old

Empty == [o \in {} |-> 0]
With(m, o, v) == [x \in DOMAIN m \cup {o} |-> IF x = o THEN v ELSE m[x]]

Init ==
  /\ failing = {}
  /\ created = {}
  /\ queue = {}
  /\ timer = Empty
  /\ firstSeen = [p \in Provider |-> Empty]
  /\ sinceCleanup = [p \in Provider |-> 0]
  /\ sinceAllowed = Never
  /\ observed = Empty
  /\ changes = 0
  /\ restarts = 0

-----------------------------------------------------------------------------
(* BoundedMap *)

NeedsCleanup(p) == sinceCleanup[p] > CleanupInterval

Seen(p, o) ==
  /\ o \in DOMAIN firstSeen[p]
  /\ NeedsCleanup(p) => firstSeen[p][o] <= SeenTTL

Kept(p) ==
  IF NeedsCleanup(p)
  THEN Restrict(firstSeen[p], {o \in DOMAIN firstSeen[p] : firstSeen[p][o] <= SeenTTL})
  ELSE firstSeen[p]

(* Faulty variant: off by one in the capacity. *)
EvictedTooLate(m, o) ==
  IF MapSize > 0 /\ Cardinality(DOMAIN m) > MapSize /\ o \notin DOMAIN m
  THEN {Restrict(m, DOMAIN m \ {x}) :
          x \in {y \in DOMAIN m : \A z \in DOMAIN m : m[z] <= m[y]}}
  ELSE {m}

(* The maps that Set may leave: at capacity an oldest entry makes room. *)
Evicted(m, o) ==
  IF MapSize > 0 /\ Cardinality(DOMAIN m) >= MapSize /\ o \notin DOMAIN m
  THEN {Restrict(m, DOMAIN m \ {x}) :
          x \in {y \in DOMAIN m : \A z \in DOMAIN m : m[z] <= m[y]}}
  ELSE {m}

SetSeen(p, o) ==
  /\ \E m \in Evicted(Kept(p), o) : firstSeen' = [firstSeen EXCEPT ![p] = With(m, o, 0)]
  /\ sinceCleanup' = [sinceCleanup EXCEPT ![p] = IF NeedsCleanup(p) THEN 0 ELSE @]

(* Faulty variant: a cleared finding stays in the map. *)
ClearSeenKeeps(p) ==
  /\ sinceCleanup' = [sinceCleanup EXCEPT ![p] = 0]
  /\ UNCHANGED firstSeen

ClearSeen(p) ==
  /\ firstSeen' = [firstSeen EXCEPT ![p] = Empty]
  /\ sinceCleanup' = [sinceCleanup EXCEPT ![p] = 0]

-----------------------------------------------------------------------------
(* Faulty variant: at the end of the cooldown no time remains, and still it refuses. *)
AllowedStrictly == sinceAllowed = Never \/ sinceAllowed > Cooldown

(* ShouldAllow *)
Allowed == sinceAllowed = Never \/ sinceAllowed >= Cooldown

(* RequeueAfter: a delay that is already pending is only ever shortened. *)
Requeued(o, delay) ==
  With(timer, o, IF o \in DOMAIN timer /\ timer[o] <= delay THEN timer[o] ELSE delay)

Gated(o) == Cooldown > 0 /\ o \in Deep
Windowed(o) == o \notin Critical /\ Stabilisation # 0

(* The breaker is consulted, and its cooldown begun, before the window and *)
(* deduplication have decided whether there is anything to create.         *)
PassBreaker(o) ==
  /\ Gated(o) => Allowed
  /\ sinceAllowed' = IF Gated(o) THEN 0 ELSE sinceAllowed

Observe(o) == observed' = IF o \in DOMAIN observed THEN observed ELSE With(observed, o, 0)

Dequeue(o) ==
  /\ o \in queue
  /\ queue' = queue \ {o}
  /\ UNCHANGED <<failing, changes, restarts>>

(* No finding, or no such object: every entry of the provider is dropped. *)
SeesHealthy(o) ==
  /\ Dequeue(o)
  /\ o \notin failing
  /\ ClearSeen(ProviderOf[o])
  /\ observed' = Restrict(observed, DOMAIN observed \ {o})
  /\ UNCHANGED <<created, timer, sinceAllowed>>

Filters(o) ==
  /\ Dequeue(o)
  /\ o \in failing \cap Filtered
  /\ Observe(o)
  /\ UNCHANGED <<created, timer, firstSeen, sinceCleanup, sinceAllowed>>

Refuses(o) ==
  /\ Dequeue(o)
  /\ o \in failing \ Filtered
  /\ Gated(o)
  /\ ~Allowed
  /\ timer' = Requeued(o, Cooldown - sinceAllowed)
  /\ Observe(o)
  /\ UNCHANGED <<created, firstSeen, sinceCleanup, sinceAllowed>>

FirstSees(o) ==
  /\ Dequeue(o)
  /\ o \in failing \ Filtered
  /\ PassBreaker(o)
  /\ Windowed(o)
  /\ ~Seen(ProviderOf[o], o)
  /\ SetSeen(ProviderOf[o], o)
  /\ timer' = Requeued(o, Stabilisation)
  /\ Observe(o)
  /\ UNCHANGED created

(* Faulty variant: no requeue for the rest of the window. *)
WaitsForEvent(o) ==
  /\ Dequeue(o)
  /\ o \in failing \ Filtered
  /\ PassBreaker(o)
  /\ Windowed(o)
  /\ Seen(ProviderOf[o], o)
  /\ firstSeen[ProviderOf[o]][o] < Stabilisation
  /\ Observe(o)
  /\ UNCHANGED <<created, timer, firstSeen, sinceCleanup>>

Waits(o) ==
  /\ Dequeue(o)
  /\ o \in failing \ Filtered
  /\ PassBreaker(o)
  /\ Windowed(o)
  /\ Seen(ProviderOf[o], o)
  /\ firstSeen[ProviderOf[o]][o] < Stabilisation
  /\ timer' = Requeued(o, Stabilisation - firstSeen[ProviderOf[o]][o])
  /\ Observe(o)
  /\ UNCHANGED <<created, firstSeen, sinceCleanup>>

(* Deduplication and Create: nothing to do when there is a RemediationJob. *)
Creates(o) ==
  /\ Dequeue(o)
  /\ o \in failing \ Filtered
  /\ PassBreaker(o)
  /\ Windowed(o) => /\ Seen(ProviderOf[o], o)
                    /\ firstSeen[ProviderOf[o]][o] >= Stabilisation
  /\ created' = created \cup {o}
  /\ Observe(o)
  /\ UNCHANGED <<timer, firstSeen, sinceCleanup>>

Reconcile(o) ==
  SeesHealthy(o) \/ Filters(o) \/ Refuses(o) \/ FirstSees(o) \/ Waits(o) \/ Creates(o)

-----------------------------------------------------------------------------
(* The cluster: an update of the object queues a reconcile. *)
Change(o) ==
  /\ changes # MaxChanges
  /\ failing' = IF o \in failing THEN failing \ {o} ELSE failing \cup {o}
  /\ changes' = IF MaxChanges = -1 THEN changes ELSE changes + 1
  /\ queue' = queue \cup {o}
  /\ UNCHANGED <<created, timer, firstSeen, sinceCleanup, sinceAllowed, observed, restarts>>

Touch(o) ==
  /\ o \in Chatty \ queue
  /\ queue' = queue \cup {o}
  /\ UNCHANGED <<failing, created, timer, firstSeen, sinceCleanup, sinceAllowed, observed,
                 changes, restarts>>

Older(a) == IF a = Never \/ a = Old THEN a ELSE a + 1

Aged(m) == [o \in DOMAIN m |-> Older(m[o])]

Tick ==
  /\ queue = {}
  /\ firstSeen' = [p \in Provider |-> Aged(firstSeen[p])]
  /\ sinceCleanup' = Aged(sinceCleanup)
  /\ sinceAllowed' = Older(sinceAllowed)
  /\ observed' = Aged(observed)
  /\ queue' = {o \in DOMAIN timer : timer[o] = 1}
  /\ timer' = [o \in {x \in DOMAIN timer : timer[x] > 1} |-> timer[o] - 1]
  /\ UNCHANGED <<failing, created, changes, restarts>>

(* A new process: the maps and the breaker are in memory, and the first    *)
(* list of the informers queues every object.                              *)
Restart ==
  /\ restarts < MaxRestarts
  /\ restarts' = restarts + 1
  /\ firstSeen' = [p \in Provider |-> Empty]
  /\ sinceCleanup' = [p \in Provider |-> 0]
  /\ sinceAllowed' = Never
  /\ queue' = Object
  /\ timer' = Empty
  /\ observed' = Empty
  /\ UNCHANGED <<failing, created, changes>>

Next ==
  \/ \E o \in Object : Reconcile(o) \/ Change(o) \/ Touch(o)
  \/ Tick
  \/ Restart

Spec == Init /\ [][Next]_vars

(* Workers serve their queue and time passes. *)
FairSpec == Spec /\ WF_vars(Tick) /\ \A o \in Object : WF_vars(Reconcile(o))

-----------------------------------------------------------------------------
Timed(m, S, T) == DOMAIN m \subseteq S /\ \A o \in DOMAIN m : m[o] \in T

(* The types of the variables; each provider's map only holds its own      *)
(* objects, and no reconcile asks for a requeue after zero time, which     *)
(* controller-runtime takes for no requeue at all.                         *)
TypeOK ==
  /\ failing \subseteq Object /\ created \subseteq Object /\ queue \subseteq Object
  /\ Timed(timer, Object, Nat \ {0})
  /\ DOMAIN firstSeen = Provider
  /\ \A p \in Provider : Timed(firstSeen[p], {o \in Object : ProviderOf[o] = p}, Age)
  /\ sinceCleanup \in [Provider -> Age]
  /\ sinceAllowed \in Age \cup {Never}
  /\ Timed(observed, Object, Age)
  /\ changes \in Nat /\ restarts \in Nat

(* The stabilisation window: a RemediationJob is created only for a        *)
(* finding that this process has seen for at least the window, with no     *)
(* reconcile in between that saw the object healthy or deleted, whatever   *)
(* the map evicted, expired or cleared meanwhile.                          *)
StableBeforeCreated ==
  [][\A o \in created' \ created : Windowed(o) =>
       o \in DOMAIN observed /\ observed[o] >= Stabilisation]_vars

(* BoundedMap: no provider's map outgrows its limit. *)
MapBounded ==
  MapSize > 0 => \A p \in Provider : Cardinality(DOMAIN firstSeen[p]) <= MapSize

(* A finding that persists, and that no filter rejects, gets its           *)
(* RemediationJob.                                                         *)
PersistentFindingCreated ==
  \A o \in Object \ Filtered : (o \in failing) ~> (o \in created \/ o \notin failing)
=============================================================================
