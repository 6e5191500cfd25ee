----------------------------- MODULE GateProofs -----------------------------
(***************************************************************************)
(* The stabilisation window, and the bound of its maps, for every value of *)
(* the constants.                                                          *)
(*                                                                         *)
(* An entry of a BoundedMap is never older than the unbroken series of     *)
(* reconciles that saw its object failing (Window): an entry is set by     *)
(* such a reconcile, expiry and eviction only remove entries, and a        *)
(* reconcile that sees the object healthy clears its provider's whole map. *)
(***************************************************************************)
EXTENDS FindingGates, FiniteSetTheorems, TLAPS

Window ==
  /\ firstSeen = [p \in Provider |-> firstSeen[p]]
  /\ DOMAIN observed \subseteq Object
  /\ \A o \in DOMAIN observed : observed[o] \in 0..Old
  /\ \A p \in Provider : \A o \in DOMAIN firstSeen[p] :
       /\ ProviderOf[o] = p
       /\ firstSeen[p][o] \in 0..Old
       /\ o \in DOMAIN observed
       /\ firstSeen[p][o] <= observed[o]

(* The constants that bound an age are numbers. *)
LEMMA OldIsNat == Old \in Nat /\ Stabilisation \in Nat /\ ProviderOf \in [Object -> Provider]
BY GateAssumption DEF Old, SeenTTL

(* BoundedMap.Set: what is left of the old map is part of it, age by age. *)
LEMMA SetKeepsAges ==
  ASSUME NEW p \in Provider, NEW o, NEW m \in Evicted(Kept(p), o)
  PROVE  DOMAIN m \subseteq DOMAIN firstSeen[p] /\ \A x \in DOMAIN m : m[x] = firstSeen[p][x]
<1>1. /\ DOMAIN Kept(p) \subseteq DOMAIN firstSeen[p]
      /\ \A x \in DOMAIN Kept(p) : Kept(p)[x] = firstSeen[p][x]
  BY DEF Kept, Restrict
<1> DEFINE k == Kept(p)
<1>2. DOMAIN m \subseteq DOMAIN k /\ \A x \in DOMAIN m : m[x] = k[x]
  <2> HIDE DEF k
  <2>1. m \in Evicted(k, o)
    BY DEF k
  <2> QED BY Zenon, <2>1 DEF Evicted, Restrict
<1> QED BY <1>1, <1>2

(* Observing a failing object begins its series or leaves it as it is. *)
LEMMA ObserveKeeps ==
  ASSUME Window, NEW o \in Object, Observe(o)
  PROVE  /\ o \in DOMAIN observed' /\ DOMAIN observed \subseteq DOMAIN observed'
         /\ DOMAIN observed' \subseteq Object
         /\ \A x \in DOMAIN observed : observed'[x] = observed[x]
         /\ \A x \in DOMAIN observed' : observed'[x] \in 0..Old
<1>1. CASE o \in DOMAIN observed
  BY <1>1 DEF Observe, Window
<1>2. CASE o \notin DOMAIN observed
  <2>1. observed' = With(observed, o, 0)
    BY <1>2 DEF Observe
  <2>2. 0 \in 0..Old
    BY OldIsNat
  <2> QED BY <1>2, <2>1, <2>2 DEF Window, With
<1> QED BY <1>1, <1>2

(* Every step keeps the entries younger than their series. *)
LEMMA NextWindow ==
  ASSUME Window, [Next]_vars
  PROVE  Window'
<1> USE OldIsNat
<1>1. ASSUME NEW o \in Object, Observe(o), UNCHANGED firstSeen
      PROVE  Window'
  BY <1>1, ObserveKeeps DEF Window
<1>2. ASSUME NEW o \in Object, Filters(o) \/ Refuses(o) \/ Waits(o) \/ Creates(o)
      PROVE  Window'
  BY <1>1, <1>2 DEF Filters, Refuses, Waits, Creates
<1>3. ASSUME NEW o \in Object, SeesHealthy(o)
      PROVE  Window'
  <2> DEFINE q == ProviderOf[o]
  <2>1. q \in Provider /\ firstSeen' = [firstSeen EXCEPT ![q] = Empty]
    BY <1>3 DEF SeesHealthy, ClearSeen
  <2>2. /\ DOMAIN observed' = DOMAIN observed \ {o}
        /\ \A x \in DOMAIN observed' : observed'[x] = observed[x]
    BY <1>3 DEF SeesHealthy, Restrict
  <2>3. DOMAIN Empty = {}
    BY DEF Empty
  <2>4. \A p \in Provider : firstSeen'[p] = IF p = q THEN Empty ELSE firstSeen[p]
    BY <2>1 DEF Window
  <2>5. firstSeen' = [p \in Provider |-> firstSeen'[p]]
    BY <2>1 DEF Window
  <2>6. \A p \in Provider : \A x \in DOMAIN firstSeen'[p] :
          p # q /\ x \in DOMAIN firstSeen[p] /\ x # o /\ firstSeen'[p][x] = firstSeen[p][x]
    BY <2>3, <2>4 DEF Window
  <2> QED BY <2>2, <2>5, <2>6 DEF Window
<1>4. ASSUME NEW o \in Object, FirstSees(o)
      PROVE  Window'
  <2> DEFINE q == ProviderOf[o]
  <2>1. PICK m \in Evicted(Kept(q), o) : firstSeen' = [firstSeen EXCEPT ![q] = With(m, o, 0)]
    BY Zenon, <1>4 DEF FirstSees, SetSeen
  <2>2. q \in Provider /\ Observe(o)
    BY <1>4 DEF FirstSees
  <2>3. DOMAIN m \subseteq DOMAIN firstSeen[q] /\ \A x \in DOMAIN m : m[x] = firstSeen[q][x]
    BY <2>1, <2>2, SetKeepsAges
  <2>4. firstSeen' = [p \in Provider |-> firstSeen'[p]]
        /\ \A p \in Provider : firstSeen'[p] = IF p = q THEN With(m, o, 0) ELSE firstSeen[p]
    BY <2>1, <2>2 DEF Window
  <2>5. \A p \in Provider : \A x \in DOMAIN firstSeen'[p] :
          \/ x \in DOMAIN firstSeen[p] /\ firstSeen'[p][x] = firstSeen[p][x]
          \/ x = o /\ p = q /\ firstSeen'[p][x] = 0
    <3>1. SUFFICES ASSUME NEW p \in Provider, p = q, NEW x \in DOMAIN With(m, o, 0)
                   PROVE  \/ x \in DOMAIN firstSeen[q] /\ With(m, o, 0)[x] = firstSeen[q][x]
                          \/ x = o /\ With(m, o, 0)[x] = 0
      BY <2>4
    <3>2. CASE x = o
      BY <3>1, <3>2 DEF With
    <3>3. CASE x # o
      <4>1. x \in DOMAIN m /\ With(m, o, 0)[x] = m[x]
        BY <3>1, <3>3 DEF With
      <4> QED BY <2>3, <4>1
    <3> QED BY <3>2, <3>3
  <2>6. /\ o \in DOMAIN observed' /\ DOMAIN observed \subseteq DOMAIN observed'
        /\ DOMAIN observed' \subseteq Object
        /\ \A x \in DOMAIN observed : observed'[x] = observed[x]
        /\ \A x \in DOMAIN observed' : observed'[x] \in 0..Old
    BY <2>2, ObserveKeeps
  <2> QED BY <2>2, <2>4, <2>5, <2>6 DEF Window
<1>5. CASE Tick
  <2>1. /\ firstSeen' = [p \in Provider |-> Aged(firstSeen[p])]
        /\ observed' = Aged(observed)
    BY <1>5 DEF Tick
  <2>2. \A i \in 0..Old : Older(i) \in 0..Old
    BY DEF Older, Never
  <2>3. \A i, j \in 0..Old : i <= j => Older(i) <= Older(j)
    BY DEF Older, Never
  <2>4. DOMAIN observed' = DOMAIN observed /\ \A x \in DOMAIN observed : observed'[x] = Older(observed[x])
    BY <2>1 DEF Aged
  <2>5. \A p \in Provider : /\ DOMAIN firstSeen'[p] = DOMAIN firstSeen[p]
                            /\ \A x \in DOMAIN firstSeen[p] : firstSeen'[p][x] = Older(firstSeen[p][x])
    BY <2>1 DEF Aged
  <2>6. firstSeen' = [p \in Provider |-> firstSeen'[p]]
    BY <2>1
  <2> QED BY <2>2, <2>3, <2>4, <2>5, <2>6 DEF Window
<1>6. CASE Restart
  BY <1>6 DEF Restart, Window, Empty
<1>7. CASE \E o \in Object : Change(o) \/ Touch(o)
  BY <1>7 DEF Change, Touch, Window
<1>8. CASE UNCHANGED vars
  BY <1>8 DEF vars, Window
<1> QED BY <1>2, <1>3, <1>4, <1>5, <1>6, <1>7, <1>8 DEF Next, Reconcile

(* The stabilisation window holds a finding back for its whole length, for *)
(* any number of objects and providers, any sizes of window, cooldown and  *)
(* map, and any timing of changes, reconciles and restarts.                *)
THEOREM WindowHolds == Spec => StableBeforeCreated
<1>1. Init => Window
  BY DEF Init, Window, Empty
<1>2. Window /\ [Next]_vars => Window'
  BY NextWindow
<1>3. Window /\ [Next]_vars =>
        \A o \in created' \ created : Windowed(o) =>
          o \in DOMAIN observed /\ observed[o] >= Stabilisation
  <2>1. SUFFICES ASSUME Window, [Next]_vars, NEW o \in created' \ created, Windowed(o)
                 PROVE  o \in DOMAIN observed /\ observed[o] >= Stabilisation
    OBVIOUS
  <2>2. o \in Object /\ Creates(o)
    BY Zenon, <2>1 DEF Next, Reconcile, SeesHealthy, Filters, Refuses, FirstSees, Waits, Creates,
       Change, Touch, Tick, Restart, vars
  <2> DEFINE q == ProviderOf[o]
  <2>3. q \in Provider /\ o \in DOMAIN firstSeen[q] /\ firstSeen[q][o] >= Stabilisation
    BY <2>1, <2>2, OldIsNat DEF Creates, Seen
  <2> QED BY <2>1, <2>3, OldIsNat DEF Window
<1> QED BY <1>1, <1>2, <1>3, PTL DEF Spec, StableBeforeCreated

-----------------------------------------------------------------------------
(* A finite domain, and no more entries than the map may hold. *)
Holds(m) ==
  /\ IsFiniteSet(DOMAIN m)
  /\ MapSize > 0 => Cardinality(DOMAIN m) <= MapSize

Sized ==
  /\ firstSeen = [p \in Provider |-> firstSeen[p]]
  /\ \A p \in Provider : Holds(firstSeen[p])

(* A map with part of the entries of one within the limit is within it. *)
LEMMA PartHolds ==
  ASSUME NEW m, NEW k, Holds(m), DOMAIN k \subseteq DOMAIN m
  PROVE  Holds(k)
<1>1. /\ IsFiniteSet(DOMAIN k)
      /\ Cardinality(DOMAIN k) <= Cardinality(DOMAIN m)
  BY FS_Subset DEF Holds
<1>2. Cardinality(DOMAIN k) \in Nat /\ Cardinality(DOMAIN m) \in Nat /\ MapSize \in Nat
  BY <1>1, FS_CardinalityType, GateAssumption DEF Holds
<1> QED BY <1>1, <1>2 DEF Holds

(* BoundedMap.Set: room is made before the entry is added. *)
LEMMA SetHolds ==
  ASSUME NEW k, NEW o, Holds(k), NEW m \in Evicted(k, o)
  PROVE  Holds(With(m, o, 0))
<1>1. DOMAIN With(m, o, 0) = DOMAIN m \cup {o}
  BY DEF With
<1>2. MapSize \in Nat /\ Cardinality(DOMAIN k) \in Nat
  BY FS_CardinalityType, GateAssumption DEF Holds
<1>3. CASE MapSize > 0 /\ Cardinality(DOMAIN k) >= MapSize /\ o \notin DOMAIN k
  <2>1. PICK x \in DOMAIN k : m = Restrict(k, DOMAIN k \ {x})
    BY Zenon, <1>3 DEF Evicted
  <2>2. DOMAIN m = DOMAIN k \ {x}
    BY <2>1 DEF Restrict
  <2>3. IsFiniteSet(DOMAIN m) /\ Cardinality(DOMAIN m) = Cardinality(DOMAIN k) - 1
    BY <2>2, FS_RemoveElement DEF Holds
  <2>4. /\ IsFiniteSet(DOMAIN m \cup {o})
        /\ Cardinality(DOMAIN m \cup {o}) = Cardinality(DOMAIN m) + 1
    BY <1>3, <2>2, <2>3, FS_AddElement
  <2> QED BY <1>1, <1>2, <2>3, <2>4 DEF Holds
<1>4. CASE ~(MapSize > 0 /\ Cardinality(DOMAIN k) >= MapSize /\ o \notin DOMAIN k)
  <2>1. m = k
    BY Zenon, <1>4 DEF Evicted
  <2>2. /\ IsFiniteSet(DOMAIN k \cup {o})
        /\ Cardinality(DOMAIN k \cup {o}) =
             IF o \in DOMAIN k THEN Cardinality(DOMAIN k) ELSE Cardinality(DOMAIN k) + 1
    BY FS_AddElement DEF Holds
  <2> QED BY <1>1, <1>2, <1>4, <2>1, <2>2 DEF Holds
<1> QED BY <1>3, <1>4

(* Every step leaves every map within its limit. *)
LEMMA NextSized ==
  ASSUME Sized, [Next]_vars
  PROVE  Sized'
<1>1. DOMAIN Empty = {} /\ Holds(Empty)
  BY FS_EmptySet, GateAssumption DEF Holds, Empty
<1>2. ASSUME UNCHANGED firstSeen
      PROVE  Sized'
  BY <1>2 DEF Sized, Holds
<1>3. ASSUME NEW q \in Provider, NEW m, Holds(m), firstSeen' = [firstSeen EXCEPT ![q] = m]
      PROVE  Sized'
  <2>1. \A p \in Provider : firstSeen'[p] = IF p = q THEN m ELSE firstSeen[p]
    BY <1>3 DEF Sized
  <2>2. firstSeen' = [p \in Provider |-> firstSeen'[p]]
    BY <1>3 DEF Sized
  <2>3. \A p \in Provider : Holds(firstSeen'[p])
    BY Zenon, <1>3, <2>1 DEF Sized
  <2> QED BY <2>2, <2>3 DEF Sized, Holds
<1>4. ASSUME NEW o \in Object, SeesHealthy(o)
      PROVE  Sized'
  BY <1>1, <1>3, <1>4, OldIsNat DEF SeesHealthy, ClearSeen
<1>5. ASSUME NEW o \in Object, FirstSees(o)
      PROVE  Sized'
  <2> DEFINE q == ProviderOf[o]
  <2>1. PICK m \in Evicted(Kept(q), o) : firstSeen' = [firstSeen EXCEPT ![q] = With(m, o, 0)]
    BY Zenon, <1>5 DEF FirstSees, SetSeen
  <2>2. q \in Provider /\ Holds(firstSeen[q])
    BY OldIsNat DEF Sized
  <2>3. DOMAIN Kept(q) \subseteq DOMAIN firstSeen[q]
    BY DEF Kept, Restrict
  <2>4. Holds(With(m, o, 0))
    BY <2>1, <2>2, <2>3, PartHolds, SetHolds
  <2> QED BY <1>3, <2>1, <2>2, <2>4
<1>6. CASE Tick
  <2>1. firstSeen' = [p \in Provider |-> Aged(firstSeen[p])]
    BY <1>6 DEF Tick
  <2>2. \A p \in Provider : DOMAIN firstSeen'[p] = DOMAIN firstSeen[p]
    BY <2>1 DEF Aged
  <2> QED BY <2>1, <2>2 DEF Sized, Holds
<1>7. CASE Restart
  BY <1>1, <1>7 DEF Restart, Sized, Holds
<1>8. ASSUME NEW o \in Object, Filters(o) \/ Refuses(o) \/ Waits(o) \/ Creates(o) \/ Change(o) \/ Touch(o)
      PROVE  Sized'
  BY <1>2, <1>8 DEF Filters, Refuses, Waits, Creates, Change, Touch
<1>9. CASE UNCHANGED vars
  BY <1>2, <1>9 DEF vars
<1> QED BY <1>4, <1>5, <1>6, <1>7, <1>8, <1>9 DEF Next, Reconcile

(* No BoundedMap outgrows its limit, for any number of objects and any     *)
(* limit: eviction frees exactly the entry that Set is about to take.      *)
THEOREM MapHolds == Spec => []MapBounded
<1>1. Init => Sized
  BY FS_EmptySet, GateAssumption DEF Init, Sized, Holds, Empty
<1>2. Sized /\ [Next]_vars => Sized'
  BY NextSized
<1>3. Sized => MapBounded
  BY DEF Sized, Holds, MapBounded
<1> QED BY <1>1, <1>2, <1>3, PTL DEF Spec

-----------------------------------------------------------------------------
(* The sets, the timers and the other clocks: what TypeOK adds to Window. *)
Clocks ==
  /\ failing \subseteq Object /\ created \subseteq Object /\ queue \subseteq Object
  /\ Timed(timer, Object, Nat \ {0})
  /\ sinceCleanup \in [Provider -> Age]
  /\ sinceAllowed \in Age \cup {Never}
  /\ changes \in Nat /\ restarts \in Nat

(* RequeueAfter with a delay leaves every timer with time to run. *)
LEMMA RequeueTimed ==
  ASSUME NEW o \in Object, NEW d \in Nat \ {0}, Timed(timer, Object, Nat \ {0}),
         timer' = Requeued(o, d)
  PROVE  Timed(timer', Object, Nat \ {0})
<1>1. PICK v \in Nat \ {0} : timer' = With(timer, o, v)
  BY DEF Requeued, Timed
<1> QED BY <1>1 DEF With, Timed

(* The breaker forgets when it last allowed, or notes that it does now. *)
LEMMA BreakerTyped ==
  ASSUME NEW o, sinceAllowed \in Age \cup {Never}, PassBreaker(o)
  PROVE  sinceAllowed' \in Age \cup {Never}
BY OldIsNat DEF PassBreaker, Age

(* Every step keeps the clocks within their types: whoever is told to come *)
(* back is told to come back after some time.                              *)
LEMMA NextClocks ==
  ASSUME Window, Clocks, [Next]_vars
  PROVE  Clocks'
<1>1. Cooldown \in Nat /\ MaxChanges \in Nat \cup {-1} /\ 0 \in Age
  BY OldIsNat, GateAssumption DEF Age
<1>2. \A a \in Age \cup {Never} : Older(a) \in Age \cup {Never}
  BY <1>1, OldIsNat DEF Older, Age, Never
<1>3. \A a \in Age : Older(a) \in Age
  BY <1>1, OldIsNat DEF Older, Age, Never
<1>4. ASSUME NEW o \in Object, Dequeue(o)
      PROVE  /\ failing' \subseteq Object /\ queue' \subseteq Object
             /\ changes' \in Nat /\ restarts' \in Nat
  BY <1>4 DEF Dequeue, Clocks
<1>5. ASSUME NEW o \in Object, SeesHealthy(o)
      PROVE  Clocks'
  <2>1. sinceCleanup' \in [Provider -> Age]
    BY <1>1, <1>5 DEF SeesHealthy, ClearSeen, Clocks
  <2> QED BY <1>4, <1>5, <2>1 DEF SeesHealthy, Clocks, Timed
<1>6. ASSUME NEW o \in Object, Filters(o)
      PROVE  Clocks'
  BY <1>4, <1>6 DEF Filters, Clocks, Timed
<1>7. ASSUME NEW o \in Object, Refuses(o)
      PROVE  Clocks'
  <2>1. Cooldown - sinceAllowed \in Nat \ {0}
    BY <1>1, <1>7, OldIsNat DEF Refuses, Allowed, Clocks, Age, Never
  <2>2. Timed(timer', Object, Nat \ {0})
    BY <1>7, <2>1, RequeueTimed DEF Refuses, Clocks
  <2> QED BY <1>4, <1>7, <2>2 DEF Refuses, Clocks
<1>8. ASSUME NEW o \in Object, FirstSees(o)
      PROVE  Clocks'
  <2>1. Stabilisation \in Nat \ {0}
    BY <1>8, OldIsNat DEF FirstSees, Windowed
  <2>2. Timed(timer', Object, Nat \ {0})
    BY <1>8, <2>1, RequeueTimed DEF FirstSees, Clocks
  <2>3. sinceCleanup' \in [Provider -> Age]
    BY <1>1, <1>8 DEF FirstSees, SetSeen, Clocks
  <2>4. sinceAllowed' \in Age \cup {Never}
    BY <1>8, BreakerTyped DEF FirstSees, Clocks
  <2> QED BY <1>4, <1>8, <2>2, <2>3, <2>4 DEF FirstSees, Clocks
<1>9. ASSUME NEW o \in Object, Waits(o)
      PROVE  Clocks'
  <2> DEFINE age == firstSeen[ProviderOf[o]][o]
  <2>1. age \in 0..Old /\ age < Stabilisation
    BY <1>9, OldIsNat DEF Waits, Seen, Window
  <2>2. Stabilisation - age \in Nat \ {0}
    BY <2>1, OldIsNat
  <2>3. Timed(timer', Object, Nat \ {0})
    BY <1>9, <2>2, RequeueTimed DEF Waits, Clocks
  <2>4. sinceAllowed' \in Age \cup {Never}
    BY <1>9, BreakerTyped DEF Waits, Clocks
  <2> QED BY <1>4, <1>9, <2>3, <2>4 DEF Waits, Clocks
<1>10. ASSUME NEW o \in Object, Creates(o)
       PROVE  Clocks'
  <2>1. sinceAllowed' \in Age \cup {Never}
    BY <1>10, BreakerTyped DEF Creates, Clocks
  <2> QED BY <1>4, <1>10, <2>1 DEF Creates, Clocks, Timed
<1>11. ASSUME NEW o \in Object, Change(o)
       PROVE  Clocks'
  BY <1>1, <1>11 DEF Change, Clocks, Timed
<1>12. ASSUME NEW o \in Object, Touch(o)
       PROVE  Clocks'
  BY <1>12 DEF Touch, Clocks, Timed
<1>13. CASE Tick
  <2>1. sinceCleanup' \in [Provider -> Age]
    BY <1>3, <1>13 DEF Tick, Aged, Clocks
  <2>2. Timed(timer', Object, Nat \ {0})
    BY <1>13 DEF Tick, Clocks, Timed
  <2>3. queue' \subseteq Object
    BY <1>13 DEF Tick, Clocks, Timed
  <2> QED BY <1>2, <1>13, <2>1, <2>2, <2>3 DEF Tick, Clocks
<1>14. CASE Restart
  BY <1>1, <1>14 DEF Restart, Clocks, Timed, Empty
<1>15. CASE UNCHANGED vars
  BY <1>15 DEF vars, Clocks, Timed
<1> QED
  BY <1>5, <1>6, <1>7, <1>8, <1>9, <1>10, <1>11, <1>12, <1>13, <1>14, <1>15 DEF Next, Reconcile

(* TypeOK for every value of the constants.  Its point is the timers: no   *)
(* reconcile that holds a finding back asks to be requeued after zero      *)
(* time, which controller-runtime would take for no requeue at all.        *)
THEOREM GatesTyped == Spec => []TypeOK
<1>1. Init => Window /\ Clocks
  BY OldIsNat DEF Init, Window, Clocks, Empty, Timed, Age
<1>2. Window /\ Clocks /\ [Next]_vars => Window' /\ Clocks'
  BY NextWindow, NextClocks
<1>3. Window /\ Clocks => TypeOK
  BY OldIsNat DEF Window, Clocks, TypeOK, Timed, Age
<1> QED BY <1>1, <1>2, <1>3, PTL DEF Spec
=============================================================================
