--------------------------- MODULE ReadinessProofs ---------------------------
(***************************************************************************)
(* AnswersRecent for every number of providers and dependencies, every TTL *)
(* and every bound on the time a Check takes.                              *)
(*                                                                         *)
(* An answer is at most as old as the probe behind it.  The probe's result *)
(* is at most MaxCheck old when it is stored (ProbeRecent), whoever else   *)
(* stored in between; a stored result is served for less than TTL          *)
(* (CacheRecent); and it ages by at most MaxCheck more until the Check     *)
(* that was given it is over (CollectedRecent).                            *)
(***************************************************************************)
EXTENDS Readiness, TLAPS

Result == {"nil", "error"}

Typed ==
  /\ secret \in [Dep -> {"complete", "incomplete"}]
  /\ lastErr \in [Dep -> Result] /\ lastAge \in [Dep -> Nat]
  /\ pc \in [Caller -> {"idle", "check", "probe", "store", "refused"}]
  /\ at \in [Caller -> Nat] /\ res \in [Caller -> Result]
  /\ errs \in [Caller -> SUBSET Dep]
  /\ took \in [Caller -> Nat] /\ wait \in [Caller -> Nat]
  /\ upAge \in [Dep -> Nat] /\ downAge \in [Dep -> Nat]

(* The history is that of the Secrets. *)
HistoryRight ==
  \A d \in Dep : Held(d, Probe(d)) = 0

(* Where a caller is in its sequence of checkers. *)
InOrder ==
  \A c \in Caller :
    /\ pc[c] \in {"probe", "store"} => at[c] \in Place
    /\ ~Checking(c) => at[c] = 1 /\ took[c] = 0 /\ errs[c] = {}
    /\ took[c] <= MaxCheck
    /\ \A i \in Place : Checkers[i] \in errs[c] => i < at[c]

CacheRecent ==
  \A d \in Dep : Fresh(d) => Held(d, lastErr[d]) <= lastAge[d] + MaxCheck

ProbeRecent ==
  \A c \in Caller : pc[c] = "store" => Held(Turn(c), res[c]) <= took[c]

CollectedRecent ==
  \A c \in Caller : \A i \in Place :
    Checking(c) /\ i < at[c]
    => Held(Checkers[i], Err(c, Checkers[i])) <= took[c] + (TTL - 1) + MaxCheck

AgeInv == Typed /\ HistoryRight /\ InOrder /\ CacheRecent /\ ProbeRecent /\ CollectedRecent

-----------------------------------------------------------------------------
(* A place in the sequence holds a dependency. *)
LEMMA PlaceType ==
  /\ \A i \in Place : Checkers[i] \in Dep /\ i \in Nat \ {0}
  /\ 1 \in Nat /\ TTL \in Nat /\ TTL > 0 /\ MaxCheck \in Nat /\ Len(Checkers) \in Nat
BY CheckerAssumption DEF Place

(* Ages are numbers. *)
LEMMA HeldType ==
  ASSUME Typed, NEW d \in Dep, NEW e
  PROVE  Held(d, e) \in Nat
BY DEF Typed, Held

(* A Secret that changes was in both states just now. *)
LEMMA SecretChangeKeeps ==
  ASSUME AgeInv, NEW d \in Dep, SecretChange(d)
  PROVE  AgeInv'
<1> USE PlaceType
<1>1. Typed'
  BY DEF AgeInv, Typed, SecretChange, cacheVars, callVars
<1>2. \A e \in Dep, r \in Result : Held(e, r)' <= Held(e, r) /\ Held(e, r)' \in Nat /\ Held(e, r) \in Nat
  BY DEF AgeInv, Typed, SecretChange, Held
<1>3. \A r \in Result : Held(d, r)' = 0
  BY DEF AgeInv, Typed, SecretChange, Held
<1>4. HistoryRight'
  <2>1. ASSUME NEW e \in Dep PROVE Held(e, Probe(e))' = 0
    <3>1. CASE e = d
      BY <1>3, <3>1 DEF Probe, Result, Held
    <3>2. CASE e # d
      BY <3>2 DEF AgeInv, Typed, HistoryRight, SecretChange, Held, Probe
    <3> QED BY <3>1, <3>2
  <2> QED BY <2>1 DEF HistoryRight
<1>5. UNCHANGED <<lastErr, lastAge, pc, at, res, errs, took>>
  BY DEF SecretChange, cacheVars, callVars
<1>6. InOrder'
  BY <1>5 DEF AgeInv, InOrder, Checking
<1>7. CacheRecent'
  <2>1. ASSUME NEW e \in Dep, lastAge[e] < TTL PROVE Held(e, lastErr[e])' <= lastAge[e] + MaxCheck
    <3>1. lastErr[e] \in Result /\ lastAge[e] \in Nat /\ Held(e, lastErr[e]) <= lastAge[e] + MaxCheck
      BY <2>1 DEF AgeInv, Typed, CacheRecent, Fresh
    <3> QED BY <1>2, <1>5, <3>1 DEF Held, Result
  <2> QED BY <1>5, <2>1 DEF CacheRecent, Fresh
<1>8. ProbeRecent'
  <2>1. ASSUME NEW c \in Caller, pc[c] = "store" PROVE Held(Turn(c), res[c])' <= took[c]
    <3>1. Turn(c) \in Dep /\ res[c] \in Result /\ took[c] \in Nat /\ Held(Turn(c), res[c]) <= took[c]
      BY <2>1 DEF AgeInv, Typed, InOrder, ProbeRecent, Turn
    <3>2. Turn(c)' = Turn(c) /\ res'[c] = res[c]
      BY <1>5 DEF Turn
    <3>3. Held(Turn(c), res[c])' <= Held(Turn(c), res[c])
          /\ Held(Turn(c), res[c])' \in Nat /\ Held(Turn(c), res[c]) \in Nat
      BY <1>2, <3>1, <3>2 DEF Held
    <3> QED BY <3>1, <3>3
  <2> QED BY <1>5, <2>1 DEF ProbeRecent
<1>9. CollectedRecent'
  <2>1. ASSUME NEW c \in Caller, NEW i \in Place, Checking(c), i < at[c]
        PROVE  Held(Checkers[i], Err(c, Checkers[i]))' <= took[c] + (TTL - 1) + MaxCheck
    <3>1. Checkers[i] \in Dep /\ Err(c, Checkers[i]) \in Result /\ took[c] \in Nat
          /\ Held(Checkers[i], Err(c, Checkers[i])) <= took[c] + (TTL - 1) + MaxCheck
      BY <2>1 DEF AgeInv, Typed, CollectedRecent, Err, Result
    <3>2. Err(c, Checkers[i])' = Err(c, Checkers[i])
      BY <1>5 DEF Err
    <3>3. Held(Checkers[i], Err(c, Checkers[i]))' <= Held(Checkers[i], Err(c, Checkers[i]))
          /\ Held(Checkers[i], Err(c, Checkers[i]))' \in Nat
          /\ Held(Checkers[i], Err(c, Checkers[i])) \in Nat
      BY <1>2, <3>1, <3>2 DEF Held
    <3> QED BY <3>1, <3>3
  <2> QED BY <1>5, <2>1 DEF CollectedRecent, Checking
<1> QED BY <1>1, <1>4, <1>6, <1>7, <1>8, <1>9 DEF AgeInv

(* Everything ages together. *)
LEMMA TickKeeps ==
  ASSUME AgeInv, Tick
  PROVE  AgeInv'
<1> USE PlaceType
<1>1. Typed'
  <2>1. UNCHANGED <<secret, lastErr, pc, at, res, errs>>
    BY DEF Tick
  <2>2. lastAge' \in [Dep -> Nat]
    BY DEF AgeInv, Typed, Tick, Older
  <2>3. upAge' \in [Dep -> Nat] /\ downAge' \in [Dep -> Nat]
    BY DEF AgeInv, Typed, Tick, Older
  <2>4. took' \in [Caller -> Nat] /\ wait' \in [Caller -> Nat]
    BY DEF AgeInv, Typed, Tick
  <2> QED BY <2>1, <2>2, <2>3, <2>4 DEF AgeInv, Typed
<1>2. \A e \in Dep, r \in Result :
        Held(e, r)' <= Held(e, r) + 1 /\ Held(e, r)' \in Nat /\ Held(e, r) \in Nat
  BY <1>1 DEF AgeInv, Typed, Tick, Held, Older
<1>3. HistoryRight'
  BY DEF AgeInv, Typed, HistoryRight, Tick, Held, Probe
<1>4. UNCHANGED <<lastErr, pc, at, res, errs>>
  BY DEF Tick
<1>5. \A c \in Caller : Checking(c) => took'[c] = took[c] + 1 /\ took[c] < MaxCheck
  BY DEF Tick
<1>6. \A c \in Caller : ~Checking(c) => took'[c] = took[c]
  BY DEF Tick
<1>7. InOrder'
  BY <1>4, <1>5, <1>6 DEF AgeInv, Typed, InOrder, Checking
<1>8. CacheRecent'
  <2>1. ASSUME NEW e \in Dep, lastAge'[e] < TTL PROVE Held(e, lastErr[e])' <= lastAge'[e] + MaxCheck
    <3>1. lastAge[e] < TTL /\ lastAge'[e] = lastAge[e] + 1 /\ lastAge[e] \in Nat
      BY <2>1 DEF AgeInv, Typed, Tick, Older
    <3>2. lastErr[e] \in Result /\ Held(e, lastErr[e]) <= lastAge[e] + MaxCheck
      BY <3>1 DEF AgeInv, Typed, CacheRecent, Fresh
    <3>3. Held(e, lastErr[e])' <= Held(e, lastErr[e]) + 1
          /\ Held(e, lastErr[e])' \in Nat /\ Held(e, lastErr[e]) \in Nat
      BY <1>2, <1>4, <3>2 DEF Held, Result
    <3> QED BY <3>1, <3>2, <3>3
  <2> QED BY <1>4, <2>1 DEF CacheRecent, Fresh
<1>9. ProbeRecent'
  <2>1. ASSUME NEW c \in Caller, pc[c] = "store" PROVE Held(Turn(c), res[c])' <= took'[c]
    <3>1. Turn(c) \in Dep /\ res[c] \in Result /\ took[c] \in Nat /\ Held(Turn(c), res[c]) <= took[c]
      BY <2>1 DEF AgeInv, Typed, InOrder, ProbeRecent, Turn
    <3>2. took'[c] = took[c] + 1
      BY <1>5, <2>1 DEF Checking
    <3>3. Held(Turn(c), res[c])' <= Held(Turn(c), res[c]) + 1
          /\ Held(Turn(c), res[c])' \in Nat /\ Held(Turn(c), res[c]) \in Nat
      <4>1. Turn(c)' = Turn(c) /\ res'[c] = res[c]
        BY <1>4 DEF Turn
      <4> QED BY <1>2, <3>1, <4>1 DEF Held
    <3> QED BY <3>1, <3>2, <3>3
  <2> QED BY <1>4, <2>1 DEF ProbeRecent
<1>10. CollectedRecent'
  <2>1. ASSUME NEW c \in Caller, NEW i \in Place, Checking(c), i < at[c]
        PROVE  Held(Checkers[i], Err(c, Checkers[i]))' <= took'[c] + (TTL - 1) + MaxCheck
    <3>1. Checkers[i] \in Dep /\ Err(c, Checkers[i]) \in Result /\ took[c] \in Nat
          /\ Held(Checkers[i], Err(c, Checkers[i])) <= took[c] + (TTL - 1) + MaxCheck
      BY <2>1 DEF AgeInv, Typed, CollectedRecent, Err, Result
    <3>2. Held(Checkers[i], Err(c, Checkers[i]))' <= Held(Checkers[i], Err(c, Checkers[i])) + 1
          /\ Held(Checkers[i], Err(c, Checkers[i]))' \in Nat
          /\ Held(Checkers[i], Err(c, Checkers[i])) \in Nat
      BY <1>2, <1>4, <3>1 DEF Held, Err, Result
    <3>3. took'[c] = took[c] + 1
      BY <1>5, <2>1
    <3> QED BY <3>1, <3>2, <3>3
  <2> QED BY <1>4, <2>1 DEF CollectedRecent, Checking
<1> QED BY <1>1, <1>3, <1>7, <1>8, <1>9, <1>10 DEF AgeInv

(* The steps of a caller leave the history alone. *)
LEMMA SameAges ==
  ASSUME UNCHANGED <<secret, history>>, HistoryRight
  PROVE  HistoryRight' /\ \A d, e : Held(d, e)' = Held(d, e)
BY DEF history, HistoryRight, Held, Probe

(* A step of one caller c that is not at "store" afterwards and has        *)
(* collected nothing new.                                                  *)
LEMMA EnterKeeps ==
  ASSUME AgeInv, NEW c \in Caller, Event(c) \/ Requeue(c)
  PROVE  AgeInv'
<1> USE PlaceType
<1>1. /\ pc[c] \in {"idle", "refused"} /\ pc' = [pc EXCEPT ![c] = "check"]
      /\ wait' = [wait EXCEPT ![c] = 0]
      /\ UNCHANGED <<secret, lastErr, lastAge, at, res, errs, took, history>>
  BY DEF Event, Requeue, Enter, cacheVars
<1>2. HistoryRight' /\ \A d, e : Held(d, e)' = Held(d, e)
  BY <1>1, SameAges DEF AgeInv
<1>3. Typed'
  BY <1>1 DEF AgeInv, Typed, history
<1>4. InOrder'
  BY <1>1 DEF AgeInv, Typed, InOrder, Checking
<1>5. CacheRecent'
  BY <1>1, <1>2 DEF AgeInv, CacheRecent, Fresh, Held
<1>6. ProbeRecent'
  BY <1>1, <1>2 DEF AgeInv, Typed, ProbeRecent, Turn, Held
<1>7. at[c] = 1
  BY <1>1 DEF AgeInv, InOrder, Checking
<1>8. CollectedRecent'
  <2>1. ASSUME NEW b \in Caller, NEW i \in Place, pc'[b] \in {"check", "probe", "store"}, i < at[b]
        PROVE  Held(Checkers[i], Err(b, Checkers[i])) <= took[b] + (TTL - 1) + MaxCheck
    <3>1. b # c
      BY <1>7, <2>1
    <3>2. pc'[b] = pc[b]
      BY <1>1, <3>1 DEF AgeInv, Typed
    <3> QED BY <2>1, <3>2 DEF AgeInv, CollectedRecent, Checking
  <2> QED BY <1>1, <1>2, <2>1 DEF CollectedRecent, Checking, Err
<1> QED BY <1>2, <1>3, <1>4, <1>5, <1>6, <1>8 DEF AgeInv

(* A miss collects nothing. *)
LEMMA MissKeeps ==
  ASSUME AgeInv, NEW c \in Caller, Miss(c)
  PROVE  AgeInv'
<1> USE PlaceType
<1>1. /\ pc[c] = "check" /\ at[c] \in Place /\ pc' = [pc EXCEPT ![c] = "probe"]
      /\ UNCHANGED <<secret, lastErr, lastAge, at, res, errs, took, wait, history>>
  BY DEF Miss, cacheVars
<1>2. HistoryRight' /\ \A d, e : Held(d, e)' = Held(d, e)
  BY <1>1, SameAges DEF AgeInv
<1>3. Typed'
  BY <1>1 DEF AgeInv, Typed, history
<1>4. InOrder'
  BY <1>1 DEF AgeInv, Typed, InOrder, Checking
<1>5. CacheRecent'
  BY <1>1, <1>2 DEF AgeInv, CacheRecent, Fresh, Held
<1>6. ProbeRecent'
  BY <1>1, <1>2 DEF AgeInv, Typed, ProbeRecent, Turn, Held
<1>7. CollectedRecent'
  BY <1>1, <1>2 DEF AgeInv, Typed, CollectedRecent, Checking, Err, Held
<1> QED BY <1>2, <1>3, <1>4, <1>5, <1>6, <1>7 DEF AgeInv

(* A probe returns what is true of the Secret when it is read. *)
LEMMA ReadKeeps ==
  ASSUME AgeInv, NEW c \in Caller, Read(c)
  PROVE  AgeInv'
<1> USE PlaceType
<1>1. /\ pc[c] = "probe" /\ pc' = [pc EXCEPT ![c] = "store"]
      /\ res' = [res EXCEPT ![c] = Probe(Turn(c))]
      /\ UNCHANGED <<secret, lastErr, lastAge, at, errs, took, wait, history>>
  BY DEF Read, cacheVars
<1>2. HistoryRight' /\ \A d, e : Held(d, e)' = Held(d, e)
  BY <1>1, SameAges DEF AgeInv
<1>3. Typed'
  BY <1>1 DEF AgeInv, Typed, history, Probe, Result
<1>4. InOrder'
  BY <1>1 DEF AgeInv, Typed, InOrder, Checking
<1>5. CacheRecent'
  BY <1>1, <1>2 DEF AgeInv, CacheRecent, Fresh, Held
<1>6. at[c] \in Place /\ Turn(c) \in Dep /\ took[c] \in Nat /\ Held(Turn(c), Probe(Turn(c))) = 0
  BY <1>1 DEF AgeInv, Typed, InOrder, HistoryRight, Turn
<1>7. ProbeRecent'
  <2>1. ASSUME NEW b \in Caller, pc'[b] = "store" PROVE Held(Turn(b), res'[b]) <= took[b]
    <3>1. CASE b = c
      <4>1. res'[b] = Probe(Turn(c))
        BY <1>1, <3>1 DEF AgeInv, Typed
      <4> QED BY <1>6, <3>1, <4>1
    <3>2. CASE b # c
      BY <1>1, <2>1, <3>2 DEF AgeInv, Typed, ProbeRecent
    <3> QED BY <3>1, <3>2
  <2> QED BY <1>1, <1>2, <2>1 DEF ProbeRecent, Turn
<1>8. CollectedRecent'
  BY <1>1, <1>2 DEF AgeInv, Typed, CollectedRecent, Checking, Err, Held
<1> QED BY <1>2, <1>3, <1>4, <1>5, <1>7, <1>8 DEF AgeInv

(* A caller that collects a recent result has collected recent results. *)
LEMMA CollectKeeps ==
  ASSUME AgeInv, NEW c \in Caller, at[c] \in Place, NEW e \in Result, Collect(c, e), Checking(c),
         pc' = [pc EXCEPT ![c] = "check"], UNCHANGED <<secret, history, took>>,
         Held(Turn(c), e) <= took[c] + (TTL - 1) + MaxCheck
  PROVE  /\ at' \in [Caller -> Nat] /\ errs' \in [Caller -> SUBSET Dep]
         /\ InOrder' /\ CollectedRecent'
<1> USE PlaceType
<1>1. /\ at' = [at EXCEPT ![c] = at[c] + 1]
      /\ errs' = [errs EXCEPT ![c] = IF e = "error" THEN errs[c] \cup {Turn(c)} ELSE errs[c]]
  BY DEF Collect
<1>2. Turn(c) \in Dep /\ Turn(c) = Checkers[at[c]] /\ at[c] \in Nat
  BY DEF Turn
<1>3. at' \in [Caller -> Nat] /\ errs' \in [Caller -> SUBSET Dep]
  <2>1. at \in [Caller -> Nat] /\ errs \in [Caller -> SUBSET Dep]
    BY DEF AgeInv, Typed
  <2>2. at[c] + 1 \in Nat
    BY <1>2
  <2>3. (IF e = "error" THEN errs[c] \cup {Turn(c)} ELSE errs[c]) \in SUBSET Dep
    BY <1>2, <2>1
  <2>4. at' \in [Caller -> Nat]
    BY <1>1, <2>1, <2>2
  <2>5. errs' \in [Caller -> SUBSET Dep]
    BY <1>1, <2>1, <2>3
  <2> QED BY <2>4, <2>5
<1>4. \A b \in Caller : b # c => at'[b] = at[b] /\ errs'[b] = errs[b] /\ pc'[b] = pc[b]
  BY <1>1 DEF AgeInv, Typed
<1>5. /\ at'[c] = at[c] + 1 /\ pc'[c] = "check"
      /\ errs'[c] = IF e = "error" THEN errs[c] \cup {Turn(c)} ELSE errs[c]
  BY <1>1 DEF AgeInv, Typed
<1>6. \A i \in Place : Checkers[i] = Turn(c) => i = at[c]
  BY <1>2, CheckerAssumption
<1>7. Turn(c) \notin errs[c]
  BY <1>2 DEF AgeInv, InOrder
<1>8. InOrder'
  <2>1. ASSUME NEW b \in Caller
        PROVE  /\ pc'[b] \in {"probe", "store"} => at'[b] \in Place
               /\ pc'[b] \notin {"check", "probe", "store"} => at'[b] = 1 /\ took[b] = 0 /\ errs'[b] = {}
               /\ took[b] <= MaxCheck
               /\ \A i \in Place : Checkers[i] \in errs'[b] => i < at'[b]
    <3>1. CASE b # c
      BY <1>4, <3>1 DEF AgeInv, InOrder, Checking
    <3>2. CASE b = c
      <4>1. \A i \in Place : Checkers[i] \in errs[c] => i < at[c]
        BY DEF AgeInv, InOrder
      <4>2. \A i \in Place : Checkers[i] \in errs'[c] => i < at'[c]
        BY <1>2, <1>5, <1>6, <4>1
      <4> QED BY <1>5, <3>2, <4>2 DEF AgeInv, InOrder
    <3> QED BY <3>1, <3>2
  <2> QED BY <2>1 DEF InOrder, Checking
<1>9. \A d, r : Held(d, r)' = Held(d, r)
  BY SameAges DEF AgeInv
<1>10. CollectedRecent'
  <2>1. ASSUME NEW b \in Caller, NEW i \in Place, pc'[b] \in {"check", "probe", "store"}, i < at'[b]
        PROVE  Held(Checkers[i], IF Checkers[i] \in errs'[b] THEN "error" ELSE "nil")
               <= took[b] + (TTL - 1) + MaxCheck
    <3>1. CASE b # c
      BY <1>4, <2>1, <3>1 DEF AgeInv, CollectedRecent, Checking, Err
    <3>2. CASE b = c /\ i = at[c]
      <4>1. (IF Checkers[i] \in errs'[b] THEN "error" ELSE "nil") = e
        BY <1>2, <1>5, <1>7, <3>2 DEF Result
      <4> QED BY <1>2, <3>2, <4>1
    <3>3. CASE b = c /\ i # at[c]
      <4>1. i < at[c] /\ (Checkers[i] \in errs'[c] <=> Checkers[i] \in errs[c])
        BY <1>2, <1>5, <1>6, <2>1, <3>3
      <4> QED BY <3>3, <4>1 DEF AgeInv, CollectedRecent, Checking, Err
    <3> QED BY <3>1, <3>2, <3>3
  <2> QED BY <1>9, <2>1 DEF CollectedRecent, Checking, Err
<1> QED BY <1>3, <1>8, <1>10

(* A hit serves a cached result of less than TTL. *)
LEMMA HitKeeps ==
  ASSUME AgeInv, NEW c \in Caller, Hit(c)
  PROVE  AgeInv'
<1> USE PlaceType
<1>1. /\ pc[c] = "check" /\ at[c] \in Place /\ Fresh(Turn(c)) /\ Collect(c, lastErr[Turn(c)])
      /\ UNCHANGED <<secret, lastErr, lastAge, pc, res, took, wait, history>>
  BY DEF Hit, cacheVars
<1>2. HistoryRight' /\ \A d, e : Held(d, e)' = Held(d, e)
  BY <1>1, SameAges DEF AgeInv
<1>3. Turn(c) \in Dep /\ pc' = [pc EXCEPT ![c] = "check"] /\ took[c] \in Nat
  BY <1>1 DEF AgeInv, Typed, Turn
<1>4. lastErr[Turn(c)] \in Result /\ lastAge[Turn(c)] \in Nat /\ lastAge[Turn(c)] < TTL
      /\ Held(Turn(c), lastErr[Turn(c)]) <= lastAge[Turn(c)] + MaxCheck
  BY <1>1, <1>3 DEF AgeInv, Typed, CacheRecent, Fresh
<1>5. Held(Turn(c), lastErr[Turn(c)]) \in Nat
  BY <1>3, HeldType DEF AgeInv
<1>6. Held(Turn(c), lastErr[Turn(c)]) <= took[c] + (TTL - 1) + MaxCheck
  BY <1>3, <1>4, <1>5
<1>7. at' \in [Caller -> Nat] /\ errs' \in [Caller -> SUBSET Dep] /\ InOrder' /\ CollectedRecent'
  BY <1>1, <1>3, <1>4, <1>6, CollectKeeps DEF Checking
<1>8. Typed'
  BY <1>1, <1>7 DEF AgeInv, Typed, history
<1>9. CacheRecent'
  BY <1>1, <1>2 DEF AgeInv, CacheRecent, Fresh, Held
<1>10. ProbeRecent'
  <2>1. \A b \in Caller : b # c => at'[b] = at[b]
    BY <1>1 DEF Collect, AgeInv, Typed
  <2>2. pc \in [Caller -> {"idle", "refused", "check", "probe", "store"}]
    BY DEF AgeInv, Typed
  <2>3. ASSUME NEW b \in Caller, pc'[b] = "store"
        PROVE  Held(Turn(b), res[b])' <= took'[b]
    <3>1. b # c /\ pc[b] = "store"
      BY <1>3, <2>2, <2>3
    <3>2. Turn(b)' = Turn(b) /\ res'[b] = res[b] /\ took'[b] = took[b]
      BY <1>1, <2>1, <3>1 DEF Turn
    <3>3. Held(Turn(b), res[b]) <= took[b]
      BY <3>1 DEF AgeInv, ProbeRecent
    <3>4. Held(Turn(b), res[b])' = Held(Turn(b), res[b])
      BY <1>2, <3>2 DEF Held
    <3> QED BY <3>2, <3>3, <3>4
  <2> QED BY <2>3 DEF ProbeRecent
<1> QED BY <1>2, <1>7, <1>8, <1>9, <1>10 DEF AgeInv

(* A stored result is at most as old as the Check of the caller it is of,  *)
(* whatever it overwrites.                                                 *)
LEMMA StoreKeeps ==
  ASSUME AgeInv, NEW c \in Caller, Store(c)
  PROVE  AgeInv'
<1> USE PlaceType
<1>1. /\ pc[c] = "store" /\ Collect(c, res[c]) /\ pc' = [pc EXCEPT ![c] = "check"]
      /\ lastErr' = [lastErr EXCEPT ![Turn(c)] = res[c]]
      /\ lastAge' = [lastAge EXCEPT ![Turn(c)] = 0]
      /\ res' = [res EXCEPT ![c] = "nil"]
      /\ UNCHANGED <<secret, took, wait, history>>
  BY DEF Store
<1>2. HistoryRight' /\ \A d, e : Held(d, e)' = Held(d, e)
  BY <1>1, SameAges DEF AgeInv
<1>3. at[c] \in Place /\ Turn(c) \in Dep /\ took[c] \in Nat /\ took[c] <= MaxCheck
      /\ res[c] \in Result /\ Held(Turn(c), res[c]) <= took[c]
  BY <1>1 DEF AgeInv, Typed, InOrder, ProbeRecent, Turn
<1>4. Held(Turn(c), res[c]) \in Nat
  BY <1>3, HeldType DEF AgeInv
<1>5. Held(Turn(c), res[c]) <= took[c] + (TTL - 1) + MaxCheck
  BY <1>3, <1>4
<1>6. at' \in [Caller -> Nat] /\ errs' \in [Caller -> SUBSET Dep] /\ InOrder' /\ CollectedRecent'
  BY <1>1, <1>3, <1>5, CollectKeeps DEF Checking
<1>7. Typed'
  BY <1>1, <1>3, <1>6 DEF AgeInv, Typed, history, Result
<1>8. CacheRecent'
  <2>1. ASSUME NEW d \in Dep, lastAge'[d] < TTL PROVE Held(d, lastErr'[d]) <= lastAge'[d] + MaxCheck
    <3>1. CASE d = Turn(c)
      <4>1. lastErr'[d] = res[c] /\ lastAge'[d] = 0
        BY <1>1, <3>1 DEF AgeInv, Typed
      <4> QED BY <1>3, <1>4, <3>1, <4>1
    <3>2. CASE d # Turn(c)
      <4>1. lastErr'[d] = lastErr[d] /\ lastAge'[d] = lastAge[d]
        BY <1>1, <3>2 DEF AgeInv, Typed
      <4> QED BY <2>1, <4>1 DEF AgeInv, CacheRecent, Fresh
    <3> QED BY <3>1, <3>2
  <2> QED BY <1>2, <2>1 DEF CacheRecent, Fresh
<1>9. ProbeRecent'
  <2>1. \A b \in Caller : b # c => at'[b] = at[b] /\ res'[b] = res[b] /\ pc'[b] = pc[b]
    BY <1>1 DEF Collect, AgeInv, Typed
  <2>2. pc'[c] = "check"
    BY <1>1 DEF AgeInv, Typed
  <2> QED BY <1>1, <1>2, <2>1, <2>2 DEF AgeInv, ProbeRecent, Turn
<1> QED BY <1>2, <1>6, <1>7, <1>8, <1>9 DEF AgeInv

(* An answer ends the Check. *)
LEMMA AnswerKeeps ==
  ASSUME AgeInv, NEW c \in Caller, Answer(c)
  PROVE  AgeInv'
<1> USE PlaceType
<1>1. PICK q \in {"idle", "refused"}, w \in Nat :
        /\ pc' = [pc EXCEPT ![c] = q] /\ wait' = [wait EXCEPT ![c] = w]
        /\ at' = [at EXCEPT ![c] = 1] /\ errs' = [errs EXCEPT ![c] = {}]
        /\ took' = [took EXCEPT ![c] = 0]
        /\ UNCHANGED <<secret, lastErr, lastAge, res, history>>
  <2>1. CASE errs[c] = {}
    BY <2>1 DEF Answer, cacheVars
  <2>2. CASE errs[c] # {}
    BY <2>2 DEF Answer, cacheVars
  <2> QED BY <2>1, <2>2
<1>2. HistoryRight' /\ \A d, e : Held(d, e)' = Held(d, e)
  BY <1>1, SameAges DEF AgeInv
<1>3. Typed'
  BY <1>1 DEF AgeInv, Typed, history
<1>4. \A b \in Caller :
        IF b = c THEN pc'[b] = q /\ at'[b] = 1 /\ errs'[b] = {} /\ took'[b] = 0
        ELSE pc'[b] = pc[b] /\ at'[b] = at[b] /\ errs'[b] = errs[b] /\ took'[b] = took[b]
  BY <1>1 DEF AgeInv, Typed
<1>5. InOrder'
  BY <1>1, <1>4 DEF AgeInv, Typed, InOrder, Checking
<1>6. CacheRecent'
  BY <1>1, <1>2 DEF AgeInv, CacheRecent, Fresh, Held
<1>7. ProbeRecent'
  <2>1. ASSUME NEW b \in Caller, pc'[b] = "store"
        PROVE  Held(Turn(b), res[b])' <= took'[b]
    <3>1. b # c /\ pc[b] = "store"
      BY <1>4, <2>1
    <3>2. Turn(b)' = Turn(b) /\ res'[b] = res[b] /\ took'[b] = took[b]
      BY <1>1, <1>4, <3>1 DEF Turn
    <3>3. Held(Turn(b), res[b]) <= took[b]
      BY <3>1 DEF AgeInv, ProbeRecent
    <3>4. Held(Turn(b), res[b])' = Held(Turn(b), res[b])
      BY <1>2, <3>2 DEF Held
    <3> QED BY <3>2, <3>3, <3>4
  <2> QED BY <2>1 DEF ProbeRecent
<1>8. CollectedRecent'
  <2>1. ASSUME NEW b \in Caller, NEW i \in Place, Checking(b)', i < at'[b]
        PROVE  Held(Checkers[i], Err(b, Checkers[i]))' <= took'[b] + (TTL - 1) + MaxCheck
    <3>1. b # c
      BY <1>4, <2>1 DEF Checking
    <3>2. Checking(b) /\ i < at[b] /\ took'[b] = took[b] /\ errs'[b] = errs[b]
      BY <1>4, <2>1, <3>1 DEF Checking
    <3>3. Held(Checkers[i], Err(b, Checkers[i])) <= took[b] + (TTL - 1) + MaxCheck
      BY <3>2 DEF AgeInv, CollectedRecent
    <3>4. Held(Checkers[i], Err(b, Checkers[i]))' = Held(Checkers[i], Err(b, Checkers[i]))
      BY <1>2, <3>2 DEF Held, Err
    <3> QED BY <3>2, <3>3, <3>4
  <2> QED BY <2>1 DEF CollectedRecent
<1> QED BY <1>2, <1>3, <1>5, <1>6, <1>7, <1>8 DEF AgeInv

(* The readiness gate never goes by an answer that was last true TTL plus  *)
(* two Checks ago or more, whatever the number of providers that share the *)
(* cache and of dependencies that All checks.                              *)
THEOREM AnswersBounded == Spec => []AnswersRecent
<1>1. Init => AgeInv
  <2>1. SUFFICES ASSUME Init
                 PROVE  AgeInv
    OBVIOUS
  <2>2. Typed
    <3>1. Cap \in Nat
      BY PlaceType DEF Cap, Bound
    <3> QED BY <2>1, <3>1, PlaceType DEF Init, Typed, Result
  <2>3. HistoryRight
    BY <2>1 DEF Init, HistoryRight, Held, Probe
  <2>4. InOrder
    <3>1. \A c \in Caller : pc[c] = "idle" /\ at[c] = 1 /\ took[c] = 0 /\ errs[c] = {}
      BY <2>1 DEF Init
    <3>2. MaxCheck \in Nat
      BY PlaceType
    <3>3. ASSUME NEW c \in Caller
          PROVE  took[c] <= MaxCheck
      <4>1. took[c] = 0
        BY <3>1
      <4> QED BY <3>2, <4>1
    <3> QED BY <3>1, <3>3 DEF InOrder, Checking
  <2>5. CacheRecent
    BY <2>1, PlaceType DEF Init, CacheRecent, Fresh
  <2>6. ProbeRecent /\ CollectedRecent
    BY <2>1 DEF Init, ProbeRecent, CollectedRecent, Checking
  <2> QED BY <2>2, <2>3, <2>4, <2>5, <2>6 DEF AgeInv
<1>2. AgeInv /\ [Next]_vars => AgeInv'
  <2>1. SUFFICES ASSUME AgeInv, [Next]_vars
                 PROVE  AgeInv'
    OBVIOUS
  <2>2. CASE Next
    BY <2>1, <2>2, SecretChangeKeeps, TickKeeps, EnterKeeps, HitKeeps, MissKeeps, ReadKeeps,
       StoreKeeps, AnswerKeeps DEF Next, Check
  <2>3. CASE UNCHANGED vars
    <3>1. UNCHANGED <<secret, lastErr, lastAge, pc, at, res, errs, took, wait, upAge, downAge>>
      BY <2>3 DEF vars, cacheVars, callVars, history
    <3> QED BY <2>1, <3>1 DEF AgeInv, Typed, HistoryRight, InOrder, CacheRecent, ProbeRecent,
       CollectedRecent, Held, Probe, Checking, Fresh, Turn, Err
  <2> QED BY <2>1, <2>2, <2>3
<1>3. AgeInv => AnswersRecent
  <2>1. SUFFICES ASSUME AgeInv, NEW c \in Caller, NEW i \in Place, Checking(c), i < at[c]
                 PROVE  Held(Checkers[i], Err(c, Checkers[i])) <= Bound
    BY DEF AnswersRecent
  <2>2. Held(Checkers[i], Err(c, Checkers[i])) <= took[c] + (TTL - 1) + MaxCheck
    BY <2>1 DEF AgeInv, CollectedRecent
  <2>3. took[c] \in Nat /\ took[c] <= MaxCheck /\ Held(Checkers[i], Err(c, Checkers[i])) \in Nat
    BY <2>1, PlaceType, HeldType DEF AgeInv, Typed, InOrder
  <2> QED BY <2>2, <2>3, PlaceType DEF Bound
<1> QED BY <1>1, <1>2, <1>3, PTL DEF Spec
=============================================================================
