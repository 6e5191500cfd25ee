------------------------------ MODULE Readiness ------------------------------
(***************************************************************************)
(* internal/readiness, and the gate of the source providers that uses it.  *)
(* main builds one combined checker, All(sink, llm), whose CachedCheckers  *)
(* are shared by the goroutines of all providers; no lock is held while a  *)
(* probe reads its Secret, so probes overlap and the last one to finish    *)
(* overwrites the cache.                                                   *)
(*                                                                         *)
(* Time is kept as ages: lastAge saturates at TTL, where an entry has      *)
(* expired (or was never stored), and the history upAge and downAge at     *)
(* Cap.                                                                    *)
(***************************************************************************)
EXTENDS Naturals, Sequences

CONSTANTS
  Caller,    \* the provider goroutines
  Dep,       \* the dependencies: a Secret each
  Checkers,  \* the order in which All runs their checkers
  TTL,       \* ReadinessCacheTTL, the cache's TTL and the requeue delay
  MaxCheck   \* one combined Check takes at most this long

Place == 1..Len(Checkers)

ASSUME CheckerAssumption ==
  /\ Checkers \in Seq(Dep)
  /\ \A i, j \in Place : Checkers[i] = Checkers[j] => i = j
  /\ TTL \in Nat \ {0}
  /\ MaxCheck \in Nat

VARIABLES
  secret,    \* [Dep -> "complete" or "incomplete"]
  lastErr,   \* [Dep -> "nil" or "error"]: the cached result
  lastAge,   \* [Dep -> time since lastCheck]
  pc,        \* [Caller -> program point of its reconcile]
  at,        \* [Caller -> the checker whose turn it is]
  res,       \* [Caller -> what its probe returned]
  errs,      \* [Caller -> dependencies that have failed in this Check]
  took,      \* [Caller -> how long this Check has taken]
  wait,      \* [Caller -> time left until the requeue]
  upAge,     \* history: [Dep -> time since the Secret was last complete]
  downAge    \* history: [Dep -> time since it was last incomplete]

cacheVars == <<lastErr, lastAge>>
callVars == <<pc, at, res, errs, took, wait>>
history == <<upAge, downAge>>
vars == <<secret, cacheVars, callVars, history>>

Bound == TTL - 1 + 2 * MaxCheck
Cap == Bound + 1
Older(age, cap) == IF age < cap THEN age + 1 ELSE age

Init ==
  /\ secret \in [Dep -> {"complete", "incomplete"}]
  /\ lastErr = [d \in Dep |-> "nil"] /\ lastAge = [d \in Dep |-> TTL]
  /\ pc = [c \in Caller |-> "idle"] /\ at = [c \in Caller |-> 1]
  /\ res = [c \in Caller |-> "nil"] /\ errs = [c \in Caller |-> {}]
  /\ took = [c \in Caller |-> 0] /\ wait = [c \in Caller |-> 0]
  /\ upAge = [d \in Dep |-> IF secret[d] = "complete" THEN 0 ELSE Cap]
  /\ downAge = [d \in Dep |-> IF secret[d] = "complete" THEN Cap ELSE 0]

(* The Secret is there and every required key of it is set; or not, or the *)
(* API server does not answer.                                             *)
Probe(d) == IF secret[d] = "complete" THEN "nil" ELSE "error"

Checking(c) == pc[c] \in {"check", "probe", "store"}
Turn(c) == Checkers[at[c]]

-----------------------------------------------------------------------------
SecretChange(d) ==
  /\ secret' = [secret EXCEPT ![d] = IF @ = "complete" THEN "incomplete" ELSE "complete"]
  /\ upAge' = [upAge EXCEPT ![d] = 0]
  /\ downAge' = [downAge EXCEPT ![d] = 0]
  /\ UNCHANGED <<cacheVars, callVars>>

Tick ==
  /\ \A c \in Caller : Checking(c) => took[c] < MaxCheck
  /\ lastAge' = [d \in Dep |-> Older(lastAge[d], TTL)]
  /\ upAge' = [d \in Dep |-> IF secret[d] = "complete" THEN 0 ELSE Older(upAge[d], Cap)]
  /\ downAge' = [d \in Dep |-> IF secret[d] = "complete" THEN Older(downAge[d], Cap) ELSE 0]
  /\ took' = [c \in Caller |-> IF Checking(c) THEN took[c] + 1 ELSE took[c]]
  /\ wait' = [c \in Caller |-> IF wait[c] > 0 THEN wait[c] - 1 ELSE 0]
  /\ UNCHANGED <<secret, lastErr, pc, at, res, errs>>

(* A reconcile of the provider reaches the gate. *)
Enter(c) ==
  /\ pc' = [pc EXCEPT ![c] = "check"]
  /\ wait' = [wait EXCEPT ![c] = 0]
  /\ UNCHANGED <<secret, cacheVars, at, res, errs, took, history>>

(* For a finding that it has not seen, or because its object changed. *)
Event(c) == pc[c] \in {"idle", "refused"} /\ Enter(c)

(* Because the RequeueAfter of a refused finding has run out. *)
Requeue(c) == pc[c] = "refused" /\ wait[c] = 0 /\ Enter(c)

-----------------------------------------------------------------------------
(* CachedChecker.Check, for the checker whose turn it is. *)

Fresh(d) == lastAge[d] < TTL

Collect(c, err) ==
  /\ errs' = [errs EXCEPT ![c] = IF err = "error" THEN @ \cup {Turn(c)} ELSE @]
  /\ at' = [at EXCEPT ![c] = @ + 1]

(* Faulty variant: a hit renews the entry. *)
HitSlides(c) ==
  /\ pc[c] = "check" /\ at[c] \in Place
  /\ Fresh(Turn(c))
  /\ Collect(c, lastErr[Turn(c)])
  /\ lastAge' = [lastAge EXCEPT ![Turn(c)] = 0]
  /\ UNCHANGED <<secret, lastErr, pc, res, took, wait, history>>

(* The fast path, under the lock. *)
Hit(c) ==
  /\ pc[c] = "check" /\ at[c] \in Place
  /\ Fresh(Turn(c))
  /\ Collect(c, lastErr[Turn(c)])
  /\ UNCHANGED <<secret, cacheVars, pc, res, took, wait, history>>

(* The slow path: the lock is released, ... *)
Miss(c) ==
  /\ pc[c] = "check" /\ at[c] \in Place
  /\ ~Fresh(Turn(c))
  /\ pc' = [pc EXCEPT ![c] = "probe"]
  /\ UNCHANGED <<secret, cacheVars, at, res, errs, took, wait, history>>

(* ... the Secret is read, ... *)
Read(c) ==
  /\ pc[c] = "probe"
  /\ res' = [res EXCEPT ![c] = Probe(Turn(c))]
  /\ pc' = [pc EXCEPT ![c] = "store"]
  /\ UNCHANGED <<secret, cacheVars, at, errs, took, wait, history>>

(* Faulty variant: a result that another goroutine has stored meanwhile is *)
(* kept, and counted as checked now.                                       *)
StoreFirstWins(c) ==
  /\ pc[c] = "store"
  /\ lastErr' = [lastErr EXCEPT ![Turn(c)] = IF Fresh(Turn(c)) THEN @ ELSE res[c]]
  /\ lastAge' = [lastAge EXCEPT ![Turn(c)] = 0]
  /\ Collect(c, res[c])
  /\ pc' = [pc EXCEPT ![c] = "check"]
  /\ res' = [res EXCEPT ![c] = "nil"]
  /\ UNCHANGED <<secret, took, wait, history>>

(* ... and the result is stored, over whatever was stored meanwhile. *)
Store(c) ==
  /\ pc[c] = "store"
  /\ lastErr' = [lastErr EXCEPT ![Turn(c)] = res[c]]
  /\ lastAge' = [lastAge EXCEPT ![Turn(c)] = 0]
  /\ Collect(c, res[c])
  /\ pc' = [pc EXCEPT ![c] = "check"]
  /\ res' = [res EXCEPT ![c] = "nil"]
  /\ UNCHANGED <<secret, took, wait, history>>

(* All has asked every checker: the RemediationJob is created, or the      *)
(* finding is requeued.                                                    *)
Answer(c) ==
  /\ pc[c] = "check" /\ at[c] \notin Place
  /\ pc' = [pc EXCEPT ![c] = IF errs[c] = {} THEN "idle" ELSE "refused"]
  /\ wait' = [wait EXCEPT ![c] = IF errs[c] = {} THEN 0 ELSE TTL]
  /\ at' = [at EXCEPT ![c] = 1]
  /\ errs' = [errs EXCEPT ![c] = {}]
  /\ took' = [took EXCEPT ![c] = 0]
  /\ UNCHANGED <<secret, cacheVars, res, history>>

Check(c) == Hit(c) \/ Miss(c) \/ Read(c) \/ Store(c) \/ Answer(c)

Next ==
  \/ Tick
  \/ \E d \in Dep : SecretChange(d)
  \/ \E c \in Caller : Event(c) \/ Requeue(c) \/ Check(c)

Spec == Init /\ [][Next]_vars

(* Time passes, a reconcile runs to its end, and a requeue is served. *)
Fairness == WF_vars(Tick) /\ \A c \in Caller : WF_vars(Check(c)) /\ WF_vars(Requeue(c))

FairSpec == Spec /\ Fairness

-----------------------------------------------------------------------------
Held(d, err) == IF err = "nil" THEN upAge[d] ELSE downAge[d]
Err(c, d) == IF d \in errs[c] THEN "error" ELSE "nil"

(* CachedChecker.Check and All: what the gate goes by was true of the      *)
(* Secret less than TTL plus two Checks ago, although callers overwrite    *)
(* each other's results with probes that began earlier, and each of them   *)
(* restarts the TTL.                                                       *)
AnswersRecent ==
  \A c \in Caller : \A i \in Place :
    Checking(c) /\ i < at[c] => Held(Checkers[i], Err(c, Checkers[i])) <= Bound

(* The readiness gate: it cannot be that from some point on the Secrets    *)
(* are complete and a refused finding still does not get through, although *)
(* other providers refresh the shared cache at any time between retries.   *)
RefusedEventuallyPasses ==
  \A c \in Caller : []<>(pc[c] = "idle" \/ \E d \in Dep : secret[d] = "incomplete")
=============================================================================
