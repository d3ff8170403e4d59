--------------------------- MODULE TransportProofs ---------------------------
(* Theorems about Transport, for any keys, tasks, callers and limits.       *)
EXTENDS Transport, TLAPS

-----------------------------------------------------------------------------
(* Type correctness.  It needs the links between callers, tasks and cache: *)
(* what a caller awaits exists, and what has finished has an outcome.      *)

CacheType ==
    /\ cache \in [Keys -> Tasks \cup {None}]
    /\ age \in [Keys -> 0 .. CacheTtl + 1]
    /\ expiry \in [Keys -> Tasks \cup {None}]
    /\ timer \in [Tasks -> (0 .. CacheTtl) \cup {None}]

TaskType ==
    /\ stage \in [Tasks -> {"idle"} \cup Pending \cup Finished]
    /\ target \in [Tasks -> Keys \cup {None}]
    /\ outcome \in [Tasks -> Outcomes]
    /\ cancelling \in SUBSET Tasks
    /\ stale \in SUBSET Tasks
    /\ doneAge \in [Tasks -> 0 .. CacheTtl + 1]

CloseType ==
    /\ http \in BOOLEAN
    /\ closer \in {"open", "gather", "aclose", "closed"}
    /\ awaited \in SUBSET Tasks
    /\ reused \in BOOLEAN

CallerType ==
    /\ status \in [Callers -> Statuses]
    /\ joined \in [Callers -> Tasks \cup {None}]

TaskLinks ==
    /\ \A t \in Tasks : stage[t] # "idle" => target[t] \in Keys
    /\ \A t \in Tasks : stage[t] \in Finished => outcome[t] # "none"

CallerLinks ==
    \A c \in Callers : status[c] \in {"waiting", "ok"} =>
        joined[c] \in Tasks /\ stage[joined[c]] # "idle"

CacheLinks ==
    \A k \in Keys : cache[k] # None =>
        stage[cache[k]] # "idle" /\ target[cache[k]] = k

TypeInv ==
    /\ CacheType /\ TaskType /\ CloseType /\ CallerType
    /\ TaskLinks /\ CallerLinks /\ CacheLinks

\* _evict() forgets at most one entry and adds none.
LEMMA EvictType ==
    ASSUME CacheType, NEW k, NEW t \in Tasks, Evict(k, t)
    PROVE  /\ CacheType'
           /\ \A j \in Keys : cache'[j] \in {cache[j], None}
  BY LimitsAssumption DEF CacheType, Evict, Disarmed, cacheVars

\* A finished task answers its waiters and leaves the types alone.
LEMMA DeliverType ==
    ASSUME TypeInv, NEW c \in Callers, NEW t \in Tasks,
           stage[t] \in Finished, Deliver(c, t),
           UNCHANGED <<taskVars, closeVars>>
    PROVE  TypeInv'
<1>1. outcome[t] \in {"ok", "error", "raised", "cancelled"}
  BY DEF TypeInv, TaskType, TaskLinks, Outcomes
<1>2. Verdict[outcome[t]] \in {"ok", "failed", "cancelled"}
  BY <1>1 DEF Verdict
<1>3. CallerType'
  BY <1>2 DEF Deliver, TypeInv, CallerType, Statuses
<1>4. CacheType' /\ \A j \in Keys : cache'[j] \in {cache[j], None}
  <2>1. CASE outcome[t] = "error"
    BY <2>1, EvictType DEF Deliver, TypeInv
  <2>2. CASE outcome[t] # "error"
    BY <2>2 DEF Deliver, TypeInv, cacheVars, CacheType
  <2> QED
    BY <2>1, <2>2
<1>5. TaskType' /\ CloseType' /\ TaskLinks'
  BY DEF TypeInv, TaskType, CloseType, TaskLinks, taskVars, closeVars
<1>6. CallerLinks'
  BY <1>1, <1>2
  DEF Deliver, Verdict, TypeInv, CallerType, CallerLinks, Finished, taskVars
<1>7. CacheLinks'
  BY <1>4 DEF TypeInv, CacheType, CacheLinks, taskVars
<1> QED
  BY <1>3, <1>4, <1>5, <1>6, <1>7 DEF TypeInv

\* Every step keeps the types and the links between identities: a task in use
\* has a key, a waiting caller has a task, a cached task is not a free one.
LEMMA TypeInvNext ==
    ASSUME TypeInv, [Next]_vars
    PROVE  TypeInv'
<1> USE DEF TypeInv
<1>1. ASSUME NEW c \in Callers, NEW k \in Keys, Join(c, k)  PROVE TypeInv'
  BY <1>1 DEF Join, InFlight, cacheVars, taskVars, closeVars, CacheType, TaskType,
     CloseType, CallerType, TaskLinks, CallerLinks, CacheLinks, Statuses, Pending
<1>2. ASSUME NEW c \in Callers, NEW k \in Keys, Hit(c, k)  PROVE TypeInv'
  BY <1>2, DeliverType DEF Hit, Served, CacheType
<1>3. ASSUME NEW c \in Callers, NEW k \in Keys, Request(c, k)  PROVE TypeInv'
  BY <1>3, LimitsAssumption DEF Request, Disarmed, CacheType, TaskType, CloseType,
     CallerType, TaskLinks, CallerLinks, CacheLinks, Statuses, Pending, Finished
<1>4. ASSUME NEW c \in Callers, Wake(c)  PROVE TypeInv'
  BY <1>4, DeliverType DEF Wake, CallerLinks, Finished
<1>5. ASSUME NEW c \in Callers, Abandon(c)  PROVE TypeInv'
  BY <1>5 DEF Abandon, AfterAbandon, cacheVars, closeVars, CacheType, TaskType,
     CloseType, CallerType, TaskLinks, CallerLinks, CacheLinks, Statuses
<1>6. ASSUME NEW c \in Callers, InvalidateGet(c)  PROVE TypeInv'
  <2>1. CacheType' /\ \A j \in Keys : cache'[j] \in {cache[j], None}
    BY <1>6, EvictType DEF InvalidateGet, CallerLinks, TaskLinks, cacheVars, CacheType
  <2> QED
    BY <1>6, <2>1 DEF InvalidateGet, taskVars, closeVars, TaskType,
       CloseType, CallerType, TaskLinks, CallerLinks, CacheLinks, Statuses, CacheType
<1>7. ASSUME NEW t \in Tasks, Start(t) \/ AcquireGlobal(t) \/ AcquireHost(t)
      PROVE  TypeInv'
  <2>1. PICK to \in Pending : /\ stage[t] \in Pending
                              /\ stage' = [stage EXCEPT ![t] = to]
    BY <1>7 DEF Start, AcquireGlobal, AcquireHost, Step, Pending
  <2>2. UNCHANGED <<cacheVars, target, outcome, cancelling, stale, doneAge,
                    closer, awaited, reused, callerVars>> /\ http' \in {http, TRUE}
    BY <1>7 DEF Start, AcquireGlobal, AcquireHost, closeVars
  <2>3. TaskType' /\ TaskLinks' /\ CallerLinks' /\ CacheLinks'
    BY <2>1, <2>2 DEF cacheVars, callerVars, TaskType, TaskLinks, CallerLinks,
       CacheLinks, Pending, Finished
  <2> QED
    BY <2>2, <2>3 DEF cacheVars, callerVars, CacheType, CloseType, CallerType
<1>8. ASSUME NEW t \in Tasks, SendClosed(t) \/ Respond(t) \/ CancelTask(t)
      PROVE  TypeInv'
  <2>1. PICK o \in {"ok", "error", "raised", "cancelled"} :
          Finish(t, o) /\ stage[t] # "idle" /\ UNCHANGED stale
    BY <1>8 DEF SendClosed, Respond, CancelTask, Interruptible, Pending
  <2> QED
    BY <2>1, LimitsAssumption DEF Finish, cacheVars, closeVars, callerVars, CacheType,
       TaskType, CloseType, CallerType, TaskLinks, CallerLinks, CacheLinks, Outcomes,
       Finished
<1>9. ASSUME NEW t \in Tasks, Settle(t)  PROVE TypeInv'
  <2>1. CacheType' /\ \A j \in Keys : cache'[j] \in {cache[j], None}
    <3>1. CASE cache[target[t]] = t /\ Keeps(t)
      BY <1>9, <3>1, LimitsAssumption DEF Settle, Armed, CacheType
    <3>2. CASE ~(cache[target[t]] = t /\ Keeps(t))
      BY <1>9, <3>2, EvictType DEF Settle
    <3> QED
      BY <3>1, <3>2
  <2> QED
    BY <1>9, <2>1 DEF Settle, closeVars, callerVars, TaskType, CloseType, CallerType,
       TaskLinks, CallerLinks, CacheLinks, Finished, CacheType
<1>10. ASSUME NEW t \in Tasks, Expire(t)  PROVE TypeInv'
  <2>1. CacheType' /\ \A j \in Keys : cache'[j] \in {cache[j], None}
    <3>1. CASE Owns(target[t], t)
      BY <1>10, <3>1, EvictType DEF Expire
    <3>2. CASE ~Owns(target[t], t)
      BY <1>10, <3>2 DEF Expire, Disarmed, CacheType
    <3> QED
      BY <3>1, <3>2
  <2> QED
    BY <1>10, <2>1 DEF Expire, taskVars, closeVars, callerVars, TaskType, CloseType,
       CallerType, TaskLinks, CallerLinks, CacheLinks, CacheType
<1>11. ASSUME NEW t \in Tasks, Collect(t)  PROVE TypeInv'
  BY <1>11, LimitsAssumption DEF Collect, cacheVars, closeVars, callerVars, CacheType,
     TaskType, CloseType, CallerType, TaskLinks, CallerLinks, CacheLinks, Outcomes,
     Finished
<1>12. CASE Close
  <2>1. CacheType'
    BY <1>12, LimitsAssumption DEF Close, CacheType
  <2>2. TaskType' /\ CloseType'
    BY <1>12 DEF Close, TakeClient, Undone, TaskType, CloseType
  <2>3. TaskLinks' /\ CallerType' /\ CallerLinks' /\ CacheLinks'
    BY <1>12 DEF Close, callerVars, CallerType, TaskLinks, CallerLinks, CacheLinks
  <2> QED
    BY <2>1, <2>2, <2>3
<1>13. CASE CloseGathered
  BY <1>13 DEF CloseGathered, TakeClient, cacheVars, callerVars, CacheType,
     TaskType, CloseType, CallerType, TaskLinks, CallerLinks, CacheLinks
<1>14. CASE CloseDone
  BY <1>14 DEF CloseDone, cacheVars, taskVars, callerVars, CacheType,
     TaskType, CloseType, CallerType, TaskLinks, CallerLinks, CacheLinks
<1>15. CASE Tick
  <2>1. \A n \in 0 .. CacheTtl + 1 : Older(n) \in 0 .. CacheTtl + 1
    BY LimitsAssumption DEF Older
  <2>2. \A n \in (0 .. CacheTtl) \cup {None} : Sooner(n) \in (0 .. CacheTtl) \cup {None}
    BY LimitsAssumption DEF Sooner
  <2>3. CacheType'
    <3>1. age' \in [Keys -> 0 .. CacheTtl + 1]
      BY <1>15, <2>1, LimitsAssumption DEF Tick, CacheType
    <3>2. timer' \in [Tasks -> (0 .. CacheTtl) \cup {None}]
      BY <1>15, <2>2 DEF Tick, CacheType
    <3> QED
      BY <1>15, <3>1, <3>2 DEF Tick, CacheType
  <2>4. TaskType'
    BY <1>15, <2>1 DEF Tick, TaskType
  <2> QED
    BY <1>15, <2>3, <2>4 DEF Tick, closeVars, callerVars, CloseType, CallerType,
       TaskLinks, CallerLinks, CacheLinks
<1>16. CASE UNCHANGED vars
  BY <1>16 DEF vars, cacheVars, taskVars, closeVars, callerVars, CacheType,
     TaskType, CloseType, CallerType, TaskLinks, CallerLinks, CacheLinks
<1> QED
  BY <1>1, <1>2, <1>3, <1>4, <1>5, <1>6, <1>7, <1>8, <1>9, <1>10, <1>11, <1>12,
     <1>13, <1>14, <1>15, <1>16 DEF Next, CallerStep, TaskStep

\* Nothing is linked to anything before the first call.
LEMMA InitTypeInv == Init => TypeInv
<1> SUFFICES ASSUME Init PROVE TypeInv
  OBVIOUS
<1>1. CacheType
  BY LimitsAssumption DEF Init, CacheType
<1>2. TaskType
  BY LimitsAssumption DEF Init, TaskType, Outcomes
<1>3. CloseType /\ CallerType
  BY DEF Init, CloseType, CallerType, Statuses
<1>4. TaskLinks /\ CallerLinks /\ CacheLinks
  BY DEF Init, TaskLinks, CallerLinks, CacheLinks, Finished
<1> QED
  BY <1>1, <1>2, <1>3, <1>4 DEF TypeInv

\* Every variable keeps its type: ages and timers never leave their range,
\* whatever order calls, responses, timers and close() come in.
THEOREM TypeCorrect == Spec => []TypeOK
<1>1. Init => TypeInv
  BY InitTypeInv
<1>2. TypeInv /\ [Next]_vars => TypeInv'
  BY TypeInvNext
<1>3. TypeInv => TypeOK
  BY DEF TypeInv, TypeOK, CacheType, TaskType, CloseType, CallerType
<1> QED
  BY <1>1, <1>2, <1>3, PTL DEF Spec

-----------------------------------------------------------------------------
(* The cache: pending requests, timers and retention belong together.  A   *)
(* timer can only evict its own entry because it is disarmed with it, and  *)
(* an entry of a running request has no timer at all.                      *)

ExpiryLinks ==
    \A k \in Keys : expiry[k] # None => target[expiry[k]] = k

CacheInv ==
    PendingCached /\ TimerDiscipline /\ RetentionBounded /\ ExpiryLinks

\* Evicting the entry of a finished task preserves the discipline: the timer
\* that _evict() cancels is the only one the loop has for that key.
LEMMA EvictCacheInv ==
    ASSUME TypeInv, CacheInv, NEW t \in Tasks, stage[t] \in Finished,
           Evict(target[t], t), UNCHANGED <<stage, target, outcome, cancelling>>
    PROVE  CacheInv'
<1> DEFINE k == target[t]
<1>1. k \in Keys
  BY DEF TypeInv, TaskLinks, Finished
<1>2. CASE Owns(k, t)
  <2>1. /\ cache' = [cache EXCEPT ![k] = None]
        /\ expiry' = [expiry EXCEPT ![k] = None]
        /\ timer' = [x \in Tasks |-> IF x = expiry[k] THEN None ELSE timer[x]]
    BY <1>2 DEF Evict, Disarmed
  <2>2. PendingCached'
    BY <1>1, <1>2, <2>1
    DEF TypeInv, CacheType, TaskType, TaskLinks, CacheInv, PendingCached, Owns,
        Pending, Finished
  <2>3. TimerDiscipline' /\ ExpiryLinks'
    BY <1>1, <1>2, <2>1, IdentityAssumption
    DEF TypeInv, CacheType, CacheInv, TimerDiscipline, ExpiryLinks, Owns
  <2>4. RetentionBounded'
    BY <1>1, <1>2, <2>1, IdentityAssumption
    DEF TypeInv, CacheType, CacheInv, TimerDiscipline, RetentionBounded, ExpiryLinks,
        CacheLinks, Owns
  <2> QED
    BY <2>2, <2>3, <2>4 DEF CacheInv
<1>3. CASE ~Owns(k, t)
  BY <1>3 DEF Evict, cacheVars, CacheInv, PendingCached, TimerDiscipline,
     RetentionBounded, ExpiryLinks
<1> QED
  BY <1>2, <1>3

\* Answering a caller evicts at most the entry of the finished task it awaited,
\* so the cache discipline survives Hit and Wake.
LEMMA DeliverCacheInv ==
    ASSUME TypeInv, CacheInv, NEW c \in Callers, NEW t \in Tasks,
           stage[t] \in Finished, Deliver(c, t), UNCHANGED taskVars
    PROVE  CacheInv'
<1>1. CASE outcome[t] = "error"
  BY <1>1, EvictCacheInv DEF Deliver, taskVars
<1>2. CASE outcome[t] # "error"
  BY <1>2 DEF Deliver, cacheVars, taskVars, CacheInv, PendingCached,
     TimerDiscipline, RetentionBounded, ExpiryLinks
<1> QED
  BY <1>1, <1>2

\* Steps that leave the cache alone and let a task advance, short of settling.
LEMMA AdvanceCacheInv ==
    ASSUME TypeInv, CacheInv, NEW t \in Tasks, NEW to \in Pending \cup {"done"},
           stage[t] \in Pending, stage' = [stage EXCEPT ![t] = to],
           \A x \in Tasks : x # t => outcome'[x] = outcome[x],
           UNCHANGED <<cacheVars, target, cancelling>>
    PROVE  CacheInv'
  BY DEF TypeInv, TaskType, CacheType, CacheInv, PendingCached, TimerDiscipline,
     RetentionBounded, ExpiryLinks, Pending, Finished, cacheVars

\* The inductive step of the cache discipline: each action that touches the
\* cache, the timers or the stage of a task is looked at on its own.
LEMMA CacheInvNext ==
    ASSUME TypeInv, CacheInv, [Next]_vars
    PROVE  CacheInv'
<1>1. ASSUME NEW c \in Callers, NEW k \in Keys, Hit(c, k)  PROVE CacheInv'
  BY <1>1, DeliverCacheInv DEF Hit, Served, TypeInv, CacheType
<1>2. ASSUME NEW c \in Callers, NEW k \in Keys, Request(c, k)  PROVE CacheInv'
  <2>1. PICK t \in Tasks :
          /\ stage[t] = "idle"
          /\ stage' = [stage EXCEPT ![t] = "new"]
          /\ target' = [target EXCEPT ![t] = k]
          /\ cache' = [cache EXCEPT ![k] = t]
    BY <1>2 DEF Request
  <2>2. UNCHANGED <<outcome, cancelling>> /\ ~InFlight(k)
    BY <1>2 DEF Request
  <2>3. \A j \in Keys : cache[j] # t /\ expiry[j] # t
    BY <2>1, IdentityAssumption
    DEF TypeInv, CacheLinks, CacheType, CacheInv, TimerDiscipline
  <2>4. timer[t] = None
    BY <2>1 DEF CacheInv, TimerDiscipline
  <2>5. /\ expiry' = [expiry EXCEPT ![k] = None]
        /\ timer' = [x \in Tasks |-> IF x = expiry[k] THEN None ELSE timer[x]]
    <3>1. CASE cache[k] # None
      BY <1>2, <3>1 DEF Request, Disarmed
    <3>2. CASE cache[k] = None
      <4>1. expiry[k] = None
        BY <3>2 DEF CacheInv, TimerDiscipline, ExpiryLinks, TypeInv, CacheType
      <4>2. UNCHANGED <<expiry, timer>>
        BY <1>2, <3>2 DEF Request
      <4>3. expiry = [expiry EXCEPT ![k] = None]
        BY <4>1 DEF TypeInv, CacheType
      <4>4. timer = [x \in Tasks |-> IF x = None THEN None ELSE timer[x]]
        BY IdentityAssumption DEF TypeInv, CacheType
      <4> QED
        BY <4>1, <4>2, <4>3, <4>4
    <3> QED
      BY <3>1, <3>2
  <2>6. PendingCached'
    BY <2>1, <2>2, IdentityAssumption
    DEF InFlight, TypeInv, CacheType, TaskType, TaskLinks, CacheInv, PendingCached,
        Pending
  <2>7. TimerDiscipline'
    BY <2>1, <2>2, <2>3, <2>4, <2>5, IdentityAssumption
    DEF TypeInv, CacheType, TaskType, TaskLinks, CacheInv, TimerDiscipline, ExpiryLinks
  <2>8. RetentionBounded' /\ ExpiryLinks'
    BY <2>1, <2>2, <2>3, <2>4, <2>5, IdentityAssumption
    DEF TypeInv, CacheType, TaskType, TaskLinks, CacheInv, TimerDiscipline,
        RetentionBounded, ExpiryLinks, CacheLinks
  <2> QED
    BY <2>6, <2>7, <2>8 DEF CacheInv
<1>3. ASSUME NEW c \in Callers, Wake(c)  PROVE CacheInv'
  BY <1>3, DeliverCacheInv DEF Wake, Finished, TypeInv, CallerLinks
<1>4. ASSUME NEW c \in Callers, InvalidateGet(c)  PROVE CacheInv'
  <2> DEFINE k == target[joined[c]]
  <2>1. UNCHANGED <<stage, target, outcome, cancelling>>
    BY <1>4 DEF InvalidateGet, taskVars
  <2>2. CASE /\ cache[k] # None
             /\ stage[cache[k]] \in Finished
             /\ Evict(k, cache[k])
    <3>1. k \in Keys
      BY <1>4 DEF InvalidateGet, TypeInv, CallerLinks, TaskLinks
    <3>2. cache[k] \in Tasks /\ target[cache[k]] = k
      BY <2>2, <3>1 DEF TypeInv, CacheType, CacheLinks
    <3> QED
      BY <2>1, <2>2, <3>2, EvictCacheInv
  <2>3. CASE UNCHANGED cacheVars
    BY <2>1, <2>3 DEF cacheVars, CacheInv, PendingCached, TimerDiscipline,
       RetentionBounded, ExpiryLinks
  <2> QED
    BY <1>4, <2>2, <2>3 DEF InvalidateGet
<1>5. ASSUME NEW t \in Tasks, Start(t) \/ AcquireGlobal(t) \/ AcquireHost(t)
      PROVE  CacheInv'
  <2>1. PICK to \in Pending : stage[t] \in Pending /\ stage' = [stage EXCEPT ![t] = to]
    BY <1>5 DEF Start, AcquireGlobal, AcquireHost, Step, Pending
  <2>2. UNCHANGED <<cacheVars, target, outcome, cancelling>>
    BY <1>5 DEF Start, AcquireGlobal, AcquireHost
  <2> QED
    BY <2>1, <2>2, AdvanceCacheInv
<1>6. ASSUME NEW t \in Tasks, SendClosed(t) \/ Respond(t) \/ CancelTask(t)
      PROVE  CacheInv'
  <2>1. PICK o \in Outcomes : stage[t] \in Pending /\ Finish(t, o)
    BY <1>6 DEF SendClosed, Respond, CancelTask, Interruptible, Pending, Outcomes
  <2>2. \A x \in Tasks : x # t => outcome'[x] = outcome[x]
    BY <2>1 DEF Finish, TypeInv, TaskType
  <2> QED
    BY <2>1, <2>2, AdvanceCacheInv DEF Finish
<1>7. ASSUME NEW t \in Tasks, Settle(t)  PROVE CacheInv'
  <2> DEFINE k == target[t]
  <2>1. /\ k \in Keys /\ stage[t] = "done"
        /\ stage' = [stage EXCEPT ![t] = "settled"]
        /\ UNCHANGED <<target, outcome, cancelling>>
    BY <1>7 DEF Settle, TypeInv, TaskLinks
  <2>2. timer[t] = None
    BY <2>1 DEF CacheInv, TimerDiscipline
  <2>3. CASE cache[k] = t /\ Keeps(t)
    <3>1. /\ UNCHANGED cache
          /\ expiry' = [expiry EXCEPT ![k] = t]
          /\ timer' = [timer EXCEPT ![t] = CacheTtl]
      BY <1>7, <2>3 DEF Settle, Armed
    <3>2. expiry[k] = None
      BY <2>1, <2>3 DEF CacheInv, TimerDiscipline, ExpiryLinks, TypeInv, CacheType
    <3>3. CacheTtl # None
      BY LimitsAssumption, IdentityAssumption
    <3>4. PendingCached' /\ ExpiryLinks'
      BY <2>1, <2>3, <3>1 DEF TypeInv, TaskType, CacheType, CacheInv, PendingCached,
         ExpiryLinks, Pending
    <3>5. TimerDiscipline' /\ RetentionBounded'
      BY <2>1, <2>2, <2>3, <3>1, <3>2, <3>3 DEF TypeInv, TaskType, CacheType, CacheInv,
         TimerDiscipline, RetentionBounded, ExpiryLinks, Keeps
    <3> QED
      BY <3>4, <3>5 DEF CacheInv
  <2>4. CASE ~(cache[k] = t /\ Keeps(t))
    <3>1. Evict(k, t)
      BY <1>7, <2>4 DEF Settle
    <3>2. CASE Owns(k, t)
      <4>1. /\ cache' = [cache EXCEPT ![k] = None]
            /\ expiry' = [expiry EXCEPT ![k] = None]
            /\ timer' = [x \in Tasks |-> IF x = expiry[k] THEN None ELSE timer[x]]
        BY <3>1, <3>2 DEF Evict, Disarmed
      <4>2. PendingCached'
        BY <2>1, <3>2, <4>1 DEF TypeInv, CacheType, TaskType, TaskLinks, CacheInv,
           PendingCached, Owns, Pending
      <4>3. TimerDiscipline' /\ ExpiryLinks'
        BY <2>1, <2>2, <3>2, <4>1, IdentityAssumption DEF TypeInv, CacheType, TaskType,
           CacheInv, TimerDiscipline, ExpiryLinks, Owns
      <4>4. RetentionBounded'
        BY <2>1, <2>2, <3>2, <4>1, IdentityAssumption DEF TypeInv, CacheType, TaskType,
           CacheInv, TimerDiscipline, RetentionBounded, ExpiryLinks, CacheLinks, Owns
      <4> QED
        BY <4>2, <4>3, <4>4 DEF CacheInv
    <3>3. CASE ~Owns(k, t)
      <4>1. UNCHANGED cacheVars
        BY <3>1, <3>3 DEF Evict
      <4> QED
        BY <2>1, <2>2, <3>3, <4>1 DEF cacheVars, TypeInv, TaskType, CacheType,
           CacheLinks, CacheInv, PendingCached, TimerDiscipline, RetentionBounded,
           ExpiryLinks, Owns, Pending
    <3> QED
      BY <3>2, <3>3
  <2> QED
    BY <2>3, <2>4
<1>8. ASSUME NEW t \in Tasks, Expire(t)  PROVE CacheInv'
  <2>1. stage[t] = "settled" /\ cache[target[t]] = t
    BY <1>8, IdentityAssumption DEF Expire, CacheInv, TimerDiscipline
  <2>2. Evict(target[t], t) /\ UNCHANGED <<stage, target, outcome, cancelling>>
    BY <1>8, <2>1 DEF Expire, Owns, taskVars
  <2> QED
    BY <2>1, <2>2, EvictCacheInv DEF Finished
<1>9. ASSUME NEW t \in Tasks, Collect(t)  PROVE CacheInv'
  BY <1>9 DEF Collect, cacheVars, TypeInv, TaskType, CacheType, CacheInv, PendingCached,
     TimerDiscipline, RetentionBounded, ExpiryLinks, Pending
<1>10. CASE Close
  <2>1. /\ cache' = [k \in Keys |-> None] /\ expiry' = [k \in Keys |-> None]
        /\ timer' = [t \in Tasks |-> IF \E k \in Keys : expiry[k] = t
                                     THEN None ELSE timer[t]]
        /\ cancelling' = cancelling \cup Undone
        /\ UNCHANGED <<stage, target, outcome>>
    BY <1>10 DEF Close
  <2>2. \A t \in Tasks : timer'[t] = None
    BY <2>1 DEF TypeInv, TaskLinks, CacheInv, TimerDiscipline
  <2> QED
    BY <2>1, <2>2 DEF TypeInv, TaskLinks, CacheInv, PendingCached, TimerDiscipline,
       RetentionBounded, ExpiryLinks, Undone, Pending
<1>11. CASE Tick
  <2>1. /\ timer' = [t \in Tasks |-> Sooner(timer[t])]
        /\ UNCHANGED <<cache, expiry, stage, target, outcome, cancelling>>
    BY <1>11 DEF Tick
  <2>2. \A n \in (0 .. CacheTtl) \cup {None} : Sooner(n) = None <=> n = None
    BY LimitsAssumption, IdentityAssumption DEF Sooner
  <2>3. \A t \in Tasks : timer'[t] = None <=> timer[t] = None
    BY <2>1, <2>2 DEF TypeInv, CacheType
  <2> QED
    BY <2>1, <2>3 DEF TypeInv, CacheType, CacheInv, PendingCached, TimerDiscipline,
       RetentionBounded, ExpiryLinks
<1>12. CASE UNCHANGED <<cache, expiry, timer, stage, target, outcome, cancelling>>
  BY <1>12 DEF CacheInv, PendingCached, TimerDiscipline, RetentionBounded, ExpiryLinks
<1> QED
  BY <1>1, <1>2, <1>3, <1>4, <1>5, <1>6, <1>7, <1>8, <1>9, <1>10, <1>11, <1>12
  DEF Next, CallerStep, TaskStep, Join, Abandon, AfterAbandon, CloseGathered, CloseDone,
      vars, cacheVars, taskVars

\* Running requests stay shared, every timer belongs to a cached good response and
\* every settled entry has a timer: the cache discipline of _cached(),
\* _completed() and _evict() holds in every reachable state.
THEOREM CacheInvariant == Spec => [](TypeInv /\ CacheInv)
<1>1. Init => TypeInv /\ CacheInv
  BY InitTypeInv DEF Init, CacheInv, PendingCached, TimerDiscipline, RetentionBounded,
     ExpiryLinks, Pending
<1>2. TypeInv /\ CacheInv /\ [Next]_vars => (TypeInv /\ CacheInv)'
  BY TypeInvNext, CacheInvNext
<1> QED
  BY <1>1, <1>2, PTL DEF Spec

\* A running request is the entry of its key until it ends or close() cancels
\* it, whatever timers, failures and rejections of older requests do meanwhile.
THEOREM RunningRequestsAreShared == Spec => []PendingCached
  BY CacheInvariant, PTL DEF CacheInv

\* No timer outlives its entry, and none is lost by overwriting its handle.
THEOREM TimersMatchEntries == Spec => []TimerDiscipline
  BY CacheInvariant, PTL DEF CacheInv

\* No entry outlives its timer: whatever stays cached after _completed() ran is a
\* good response whose _expiry handle will evict it.
THEOREM EntriesHaveTimers == Spec => []RetentionBounded
  BY CacheInvariant, PTL DEF CacheInv

-----------------------------------------------------------------------------
(* Freshness: the stamp of an entry never lags behind its response.        *)

AgeInv ==
    /\ \A t \in Tasks : stage[t] = "done" => doneAge[t] = 0
    /\ \A k \in Keys :
        cache[k] # None /\ stage[cache[k]] \in Finished
            /\ outcome[cache[k]] = "ok" => doneAge[cache[k]] <= age[k]

\* Entries only disappear: what stays cached keeps its stamp.
LEMMA EvictAges ==
    ASSUME CacheType, NEW k, NEW t, Evict(k, t)
    PROVE  \A j \in Keys : cache'[j] # None => cache'[j] = cache[j] /\ age'[j] = age[j]
  BY DEF CacheType, Evict, Owns, cacheVars

\* Answering a caller never makes an entry look younger than its response.
LEMMA DeliverAges ==
    ASSUME TypeInv, AgeInv, NEW c, NEW t, Deliver(c, t), UNCHANGED taskVars
    PROVE  AgeInv'
<1>1. \A j \in Keys : cache'[j] # None => cache'[j] = cache[j] /\ age'[j] = age[j]
  BY EvictAges DEF Deliver, TypeInv, cacheVars
<1> QED
  BY <1>1 DEF AgeInv, taskVars

\* The inductive step of the age bound: an entry is at least as old as the time
\* since its response finished, also between the end of a task and its callback.
LEMMA AgeInvNext ==
    ASSUME TypeInv, AgeInv, [Next]_vars
    PROVE  AgeInv'
<1>1. ASSUME NEW c \in Callers, NEW k \in Keys, Hit(c, k)  PROVE AgeInv'
  BY <1>1, DeliverAges DEF Hit
<1>2. ASSUME NEW c \in Callers, NEW k \in Keys, Request(c, k)  PROVE AgeInv'
  BY <1>2 DEF Request, TypeInv, TaskType, CacheType, CacheLinks, AgeInv, Finished
<1>3. ASSUME NEW c \in Callers, Wake(c)  PROVE AgeInv'
  BY <1>3, DeliverAges DEF Wake
<1>4. ASSUME NEW c \in Callers, InvalidateGet(c)  PROVE AgeInv'
  <2>1. \A j \in Keys : cache'[j] # None => cache'[j] = cache[j] /\ age'[j] = age[j]
    BY <1>4, EvictAges DEF InvalidateGet, TypeInv, cacheVars
  <2> QED
    BY <1>4, <2>1 DEF InvalidateGet, taskVars, AgeInv
<1>5. ASSUME NEW t \in Tasks, Start(t) \/ AcquireGlobal(t) \/ AcquireHost(t)
      PROVE  AgeInv'
  BY <1>5 DEF Start, AcquireGlobal, AcquireHost, Step, cacheVars, TypeInv, TaskType,
     CacheType, AgeInv, Finished
<1>6. ASSUME NEW t \in Tasks, SendClosed(t) \/ Respond(t) \/ CancelTask(t)
      PROVE  AgeInv'
  <2>1. PICK o \in Outcomes : Finish(t, o)
    BY <1>6 DEF SendClosed, Respond, CancelTask, Outcomes
  <2>2. \A j \in Keys : age[j] \in Nat
    BY LimitsAssumption DEF TypeInv, CacheType
  <2> QED
    BY <2>1, <2>2 DEF Finish, cacheVars, TypeInv, TaskType, CacheType, CacheLinks,
       AgeInv, Finished
<1>7. ASSUME NEW t \in Tasks, Settle(t)  PROVE AgeInv'
  <2>1. /\ stage[t] = "done" /\ target[t] \in Keys
        /\ stage' = [stage EXCEPT ![t] = "settled"]
        /\ UNCHANGED <<target, outcome, doneAge>>
    BY <1>7 DEF Settle, TypeInv, TaskLinks
  <2>2. CASE cache[target[t]] = t /\ Keeps(t)
    <3>1. UNCHANGED cache /\ age' = [age EXCEPT ![target[t]] = 0]
      BY <1>7, <2>2 DEF Settle
    <3> QED
      BY <2>1, <2>2, <3>1 DEF TypeInv, TaskType, CacheType, AgeInv, Finished
  <2>3. CASE ~(cache[target[t]] = t /\ Keeps(t))
    <3>1. Evict(target[t], t)
      BY <1>7, <2>3 DEF Settle
    <3>2. \A j \in Keys : cache'[j] # None => cache'[j] = cache[j] /\ age'[j] = age[j]
      BY <3>1, EvictAges DEF TypeInv
    <3> QED
      BY <2>1, <3>2 DEF TypeInv, TaskType, CacheType, AgeInv, Finished
  <2> QED
    BY <2>2, <2>3
<1>8. ASSUME NEW t \in Tasks, Expire(t)  PROVE AgeInv'
  <2>1. \A j \in Keys : cache'[j] # None => cache'[j] = cache[j] /\ age'[j] = age[j]
    BY <1>8, EvictAges DEF Expire, TypeInv
  <2> QED
    BY <1>8, <2>1 DEF Expire, taskVars, AgeInv
<1>9. ASSUME NEW t \in Tasks, Collect(t)  PROVE AgeInv'
  BY <1>9 DEF Collect, cacheVars, TypeInv, TaskType, CacheType, AgeInv, Finished
<1>10. CASE Close
  BY <1>10 DEF Close, AgeInv
<1>11. CASE Tick
  <2>1. \A m, n \in 0 .. CacheTtl + 1 : m <= n => Older(m) <= Older(n)
    BY LimitsAssumption DEF Older
  <2>2. \A j \in Keys : cache[j] # None => age'[j] = Older(age[j])
    BY <1>11 DEF Tick
  <2>3. \A t \in Tasks : stage[t] # "done" /\ doneAge'[t] = IF outcome[t] = "ok"
                              THEN Older(doneAge[t]) ELSE doneAge[t]
    BY <1>11 DEF Tick
  <2>4. UNCHANGED <<cache, stage, outcome>>
    BY <1>11 DEF Tick
  <2> QED
    BY <2>1, <2>2, <2>3, <2>4 DEF TypeInv, TaskType, CacheType, AgeInv
<1>12. CASE UNCHANGED <<cache, age, stage, outcome, doneAge>>
  BY <1>12 DEF AgeInv
<1> QED
  BY <1>1, <1>2, <1>3, <1>4, <1>5, <1>6, <1>7, <1>8, <1>9, <1>10, <1>11, <1>12
  DEF Next, CallerStep, TaskStep, Join, Abandon, CloseGathered, CloseDone, vars,
      cacheVars, taskVars

\* A call that is answered from the cache gets a response that finished no more
\* than CacheTtl ago, even when its timer is late or its done callback has not
\* run yet.
THEOREM HitsAreFresh == Spec => FreshHits
<1> DEFINE Answered(c) == /\ status[c] # "waiting" /\ status'[c] = "ok"
                          /\ joined'[c] # joined[c]
<1>1. Init => AgeInv
  BY DEF Init, AgeInv
<1>2. ASSUME TypeInv, AgeInv, Next, NEW c \in Callers, Answered(c)
      PROVE  doneAge[joined'[c]] <= CacheTtl
  <2>1. PICK k \in Keys : Hit(c, k)
    BY <1>2 DEF Next, CallerStep, TaskStep, Join, Hit, Request, Wake, Abandon,
       InvalidateGet, Deliver, Start, AcquireGlobal, AcquireHost, SendClosed, Respond,
       CancelTask, Finish, Settle, Expire, Collect, Close, CloseGathered, CloseDone,
       Tick, callerVars, TypeInv, CallerType
  <2>2. joined'[c] = cache[k] /\ outcome[cache[k]] = "ok"
    BY <1>2, <2>1 DEF Hit, Served, Deliver, Verdict, TypeInv, CallerType, TaskType,
       CacheType, Outcomes, TaskLinks
  <2>3. cache[k] \in Tasks /\ stage[cache[k]] \in Finished /\ age[k] <= CacheTtl
    BY <1>2, <2>1 DEF Hit, Served, Fresh, TypeInv, CacheType
  <2>4. doneAge[cache[k]] <= age[k]
    BY <1>2, <2>1, <2>2, <2>3 DEF Hit, Served, AgeInv
  <2>5. doneAge[cache[k]] \in Nat /\ age[k] \in Nat
    BY <1>2, <2>3, LimitsAssumption DEF TypeInv, TaskType, CacheType
  <2> QED
    BY <2>2, <2>3, <2>4, <2>5, LimitsAssumption
<1>3. TypeInv /\ AgeInv /\ [Next]_vars =>
        [\A c \in Callers : Answered(c) => doneAge[joined'[c]] <= CacheTtl]_vars
  BY <1>2
<1>4. TypeInv /\ AgeInv /\ [Next]_vars => (TypeInv /\ AgeInv)'
  BY TypeInvNext, AgeInvNext
<1> QED
  BY <1>1, <1>3, <1>4, InitTypeInv, PTL DEF Spec, FreshHits

-----------------------------------------------------------------------------
(* close(): what it cancels, and what it leaves behind.                    *)

\* The part of CacheInvariant that most steps below need.
LEMMA EntriesOnlyDisappear ==
    ASSUME TypeInv, CacheInv, [Next]_vars, NEW k \in Keys
    PROVE  cache'[k] \in {cache[k], None} \/ \E c \in Callers : Request(c, k)
<1>1. \A j, t : Evict(j, t) => cache'[k] \in {cache[k], None}
  BY DEF Evict, cacheVars, TypeInv, CacheType
<1>2. \A c \in Callers : \A t : Deliver(c, t) => cache'[k] \in {cache[k], None}
  BY <1>1 DEF Deliver, cacheVars
<1>3. ASSUME NEW c \in Callers, NEW j \in Keys, Request(c, j), j # k
      PROVE  cache'[k] = cache[k]
  BY <1>3 DEF Request, TypeInv, CacheType
<1>4. ASSUME NEW c \in Callers, CallerStep(c)
      PROVE  cache'[k] \in {cache[k], None} \/ Request(c, k)
  BY <1>1, <1>2, <1>3, <1>4 DEF CallerStep, Join, Hit, Wake, Abandon, InvalidateGet,
     cacheVars
<1>5. ASSUME NEW t \in Tasks, TaskStep(t)
      PROVE  cache'[k] \in {cache[k], None}
  BY <1>1, <1>5 DEF TaskStep, Start, AcquireGlobal, AcquireHost, SendClosed, Respond,
     CancelTask, Finish, Settle, Expire, Collect, cacheVars
<1>6. CASE Close \/ CloseGathered \/ CloseDone \/ Tick \/ UNCHANGED vars
  BY <1>6 DEF Close, CloseGathered, CloseDone, Tick, cacheVars, vars
<1> QED
  BY <1>4, <1>5, <1>6 DEF Next

CancelInv ==
    closer = "open" =>
        /\ cancelling = {}
        /\ \A t \in Tasks : outcome[t] # "cancelled"
        /\ \A c \in Callers : status[c] # "cancelled"

\* Until close() is called nothing is cancelled, and nobody is told so.
LEMMA CancelInvNext ==
    ASSUME TypeInv, CancelInv, [Next]_vars
    PROVE  CancelInv'
<1> SUFFICES ASSUME closer' = "open"
             PROVE  /\ cancelling' = {}
                    /\ \A t \in Tasks : outcome'[t] # "cancelled"
                    /\ \A c \in Callers : status'[c] # "cancelled"
  BY DEF CancelInv
<1>1. ~Close /\ ~CloseGathered /\ ~CloseDone
  BY DEF Close, CloseGathered, CloseDone, TakeClient
<1>2. closer = "open" /\ cancelling = {}
  <2>1. closer' = closer
    BY <1>1 DEF Next, CallerStep, TaskStep, Join, Hit, Request, Wake, Abandon,
       InvalidateGet, Start, AcquireGlobal, AcquireHost, SendClosed, Respond,
       CancelTask, Finish, Settle, Expire, Collect, Tick, closeVars, vars
  <2> QED
    BY <2>1 DEF CancelInv
<1>3. ASSUME NEW c \in Callers, CallerStep(c)
      PROVE  /\ cancelling' = {} /\ outcome' = outcome
             /\ \A d \in Callers : status'[d] # "cancelled"
  <2>1. cancelling' = {} /\ outcome' = outcome
    BY <1>2, <1>3 DEF CallerStep, Join, Hit, Request, Wake, Abandon, AfterAbandon,
       InvalidateGet, taskVars
  <2>2. \A o \in {"ok", "error", "raised"} : Verdict[o] # "cancelled"
    BY DEF Verdict
  <2>3. ASSUME NEW t \in Tasks, stage[t] \in Finished, Deliver(c, t)
        PROVE  \A d \in Callers : status'[d] # "cancelled"
    <3>1. outcome[t] \in {"ok", "error", "raised"}
      BY <1>2, <2>3 DEF CancelInv, TypeInv, TaskType, TaskLinks, Outcomes
    <3> QED
      BY <1>2, <2>2, <2>3, <3>1 DEF Deliver, CancelInv, TypeInv, CallerType
  <2>4. ASSUME NEW k \in Keys, Hit(c, k)
        PROVE  \A d \in Callers : status'[d] # "cancelled"
    BY <2>3, <2>4 DEF Hit, Served, TypeInv, CacheType
  <2>5. ASSUME Wake(c)
        PROVE  \A d \in Callers : status'[d] # "cancelled"
    BY <2>3, <2>5 DEF Wake, TypeInv, CallerLinks, Finished
  <2>6. ASSUME ~\E k \in Keys : Hit(c, k), ~Wake(c)
        PROVE  \A d \in Callers : status'[d] # "cancelled"
    BY <1>2, <1>3, <2>6 DEF CallerStep, Join, Request, Abandon, InvalidateGet,
       CancelInv, TypeInv, CallerType
  <2> QED
    BY <2>1, <2>4, <2>5, <2>6
<1>4. ASSUME NEW t \in Tasks, TaskStep(t)
      PROVE  /\ cancelling' = {} /\ status' = status
             /\ \A u \in Tasks : outcome'[u] # "cancelled"
  BY <1>2, <1>4 DEF TaskStep, Start, AcquireGlobal, AcquireHost, SendClosed, Respond,
     CancelTask, Finish, Settle, Expire, Collect, taskVars, callerVars, CancelInv,
     TypeInv, TaskType
<1>5. CASE Tick \/ UNCHANGED vars
  BY <1>2, <1>5 DEF Tick, vars, taskVars, callerVars, CancelInv
<1> QED
  BY <1>1, <1>2, <1>3, <1>4, <1>5 DEF Next, CancelInv

\* get() shields the shared task: cancelling a caller never cancels a request,
\* and no caller sees a cancellation that close() did not cause.
THEOREM CancellationComesFromClose == Spec => []OnlyCloseCancels
<1>1. Init => CancelInv
  BY DEF Init, CancelInv
<1>2. TypeInv /\ CancelInv /\ [Next]_vars => (TypeInv /\ CancelInv)'
  BY TypeInvNext, CancelInvNext
<1>3. CancelInv => OnlyCloseCancels
  BY DEF CancelInv, OnlyCloseCancels
<1> QED
  BY <1>1, <1>2, <1>3, InitTypeInv, PTL DEF Spec

ShutInv ==
    /\ closer # "gather" => awaited = {}
    /\ \A t \in cancelling :
        stage[t] # "idle" /\ (stage[t] \in Pending => t \in awaited)
    /\ closer # "open" /\ ~reused =>
        /\ \A k \in Keys : cache[k] = None
        /\ \A t \in Tasks : stage[t] \in Pending => t \in awaited
        /\ closer # "gather" => ~http

\* close() waits for whatever it cancelled, and every request that runs is in the
\* cache for it to cancel; unless a call starts another request, nothing comes
\* back.
LEMMA ShutInvNext ==
    ASSUME TypeInv, CacheInv, ShutInv, [Next]_vars
    PROVE  ShutInv'
<1> USE DEF TypeInv
<1>1. ASSUME NEW c \in Callers, NEW k \in Keys, Request(c, k)  PROVE ShutInv'
  BY <1>1 DEF Request, ShutInv, TaskType, Pending
<1>2. ASSUME \A k \in Keys : cache'[k] \in {cache[k], None},
             UNCHANGED <<stage, cancelling, closeVars>>
      PROVE  ShutInv'
  BY <1>2 DEF closeVars, ShutInv
<1>3. ASSUME NEW t \in Tasks, NEW to, stage' = [stage EXCEPT ![t] = to],
             stage[t] # "idle", to # "idle",
             to \in Pending => stage[t] \in Pending,
             \A k \in Keys : cache'[k] \in {cache[k], None},
             http' = http \/ stage[t] \in Pending,
             UNCHANGED <<cancelling, closer, awaited, reused>>
      PROVE  ShutInv'
  BY <1>3 DEF ShutInv, TaskType
<1>4. ASSUME \A c \in Callers, k \in Keys : ~Request(c, k)
      PROVE  \A k \in Keys : cache'[k] \in {cache[k], None}
  BY <1>4, EntriesOnlyDisappear
<1>5. ASSUME NEW c \in Callers, CallerStep(c)  PROVE ShutInv'
  <2>1. CASE \E k \in Keys : Request(c, k)
    BY <1>1, <2>1
  <2>2. CASE ~\E k \in Keys : Request(c, k)
    <3>1. UNCHANGED <<stage, cancelling, closeVars>>
      BY <1>5, <2>2 DEF CallerStep, Join, Hit, Wake, Abandon, AfterAbandon,
         InvalidateGet, taskVars
    <3>2. \A k \in Keys : cache'[k] \in {cache[k], None}
      <4>1. \A k \in Keys : cache'[k] \in {cache[k], None} \/ \E d \in Callers : Request(d, k)
        BY EntriesOnlyDisappear
      <4>2. \A d \in Callers, k \in Keys : ~Request(d, k)
        BY <3>1 DEF Request, TaskType
      <4> QED
        BY <4>1, <4>2
    <3> QED
      BY <1>2, <3>1, <3>2
  <2> QED
    BY <2>1, <2>2
<1>6. ASSUME NEW t \in Tasks, TaskStep(t)  PROVE ShutInv'
  <2>1. \A k \in Keys : cache'[k] \in {cache[k], None}
    <3>1. UNCHANGED callerVars
      BY <1>6 DEF TaskStep, Start, AcquireGlobal, AcquireHost, SendClosed, Respond,
         CancelTask, Finish, Settle, Expire, Collect
    <3>2. \A c \in Callers, k \in Keys : ~Request(c, k)
      BY <3>1 DEF Request, callerVars, CallerType
    <3> QED
      BY <1>4, <3>2
  <2>2. CASE Start(t) \/ AcquireGlobal(t) \/ AcquireHost(t)
    <3>1. PICK to \in Pending : stage[t] \in Pending /\ stage' = [stage EXCEPT ![t] = to]
      BY <2>2 DEF Start, AcquireGlobal, AcquireHost, Step, Pending
    <3>2. UNCHANGED <<cancelling, closer, awaited, reused>>
      BY <2>2 DEF Start, AcquireGlobal, AcquireHost, closeVars
    <3> QED
      BY <1>3, <2>1, <3>1, <3>2 DEF Pending
  <2>3. CASE SendClosed(t) \/ Respond(t) \/ CancelTask(t)
    <3>1. /\ stage[t] \in Pending /\ stage' = [stage EXCEPT ![t] = "done"]
          /\ UNCHANGED <<cancelling, closer, awaited, reused>>
      BY <2>3 DEF SendClosed, Respond, CancelTask, Interruptible, Finish, Pending, closeVars
    <3> QED
      BY <1>3, <2>1, <3>1 DEF Pending
  <2>4. CASE Settle(t)
    <3>1. /\ stage[t] = "done" /\ stage' = [stage EXCEPT ![t] = "settled"]
          /\ UNCHANGED <<cancelling, http, closer, awaited, reused>>
      BY <2>4 DEF Settle, closeVars
    <3> QED
      BY <2>1, <3>1 DEF ShutInv, TaskType, Pending
  <2>5. CASE Expire(t)
    BY <1>2, <2>1, <2>5 DEF Expire, taskVars
  <2>6. CASE Collect(t)
    BY <2>1, <2>6 DEF Collect, closeVars, ShutInv, TaskType, Pending
  <2> QED
    BY <1>6, <2>2, <2>3, <2>4, <2>5, <2>6 DEF TaskStep
<1>7. CASE Close
  <2>1. /\ cache' = [k \in Keys |-> None]
        /\ cancelling' = cancelling \cup Undone
        /\ UNCHANGED stage /\ awaited = {}
    BY <1>7 DEF Close, ShutInv
  <2>2. \A t \in Tasks : stage[t] \in Pending => t \in Undone
    BY <2>1 DEF ShutInv, CacheInv, PendingCached, Undone, TaskType, TaskLinks, Pending
  <2>3. CASE Undone = {}
    <3>1. awaited' = {} /\ http' = FALSE /\ closer' # "gather"
      BY <1>7, <2>3 DEF Close, TakeClient
    <3> QED
      BY <2>1, <2>2, <2>3, <3>1 DEF ShutInv
  <2>4. CASE Undone # {}
    <3>1. awaited' = Undone /\ closer' = "gather"
      BY <1>7, <2>4 DEF Close
    <3> QED
      BY <2>1, <2>2, <3>1 DEF ShutInv, Undone, Pending
  <2> QED
    BY <2>3, <2>4
<1>8. CASE CloseGathered
  <2>1. /\ \A t \in awaited : stage[t] = "settled"
        /\ closer = "gather" /\ awaited' = {} /\ http' = FALSE
        /\ closer' \in {"aclose", "closed"}
        /\ UNCHANGED <<cache, stage, cancelling, reused>>
    BY <1>8 DEF CloseGathered, TakeClient, cacheVars
  <2> QED
    BY <2>1 DEF ShutInv, Pending
<1>9. CASE CloseDone
  BY <1>9 DEF CloseDone, cacheVars, taskVars, ShutInv
<1>10. CASE Tick \/ UNCHANGED vars
  BY <1>10 DEF Tick, vars, cacheVars, taskVars, closeVars, ShutInv
<1> QED
  BY <1>5, <1>6, <1>7, <1>8, <1>9, <1>10 DEF Next

\* After close(), unless somebody called meanwhile, no client, entry, timer or
\* request is left, whatever was running, queued or about to start.
THEOREM NothingOutlivesClose == Spec => []CleanShutdown
<1>1. Init => ShutInv
  BY DEF Init, ShutInv
<1>2. ShutInv /\ TypeInv /\ CacheInv /\ [Next]_vars => ShutInv'
  BY ShutInvNext
<1>3. TypeInv /\ CacheInv /\ ShutInv => CleanShutdown
  BY IdentityAssumption DEF ShutInv, CleanShutdown, TypeInv, CacheType, TaskLinks,
     CacheInv, TimerDiscipline, Pending
<1> QED
  BY <1>1, <1>2, <1>3, CacheInvariant, PTL DEF Spec

-----------------------------------------------------------------------------
(* Retention: what takes a good response out of the cache.                 *)

\* Once the handler of a finished request has run, the cache gives its response
\* up only when its time is over, when the caller who rejects it holds that very
\* response, or when close() drops everything: no failed waiter, newer request or
\* timer of an older one takes it away.
THEOREM ResponsesAreKept == Spec => ResponsesKept
<1> DEFINE Lost(k) == cache[k] # None /\ cache'[k] # cache[k]
           Reason(k) ==
               \/ Close
               \/ stage[cache[k]] \in Finished /\
                     \/ outcome[cache[k]] # "ok" \/ age[k] > CacheTtl
                     \/ timer[cache[k]] = 0 \/ CacheTtl = 0
                     \/ \E c \in Callers : /\ joined[c] = cache[k]
                                           /\ status[c] = "ok" /\ status'[c] = "idle"
<1>1. ASSUME TypeInv, CacheInv, Next, NEW k \in Keys, Lost(k)  PROVE Reason(k)
  <2> USE DEF TypeInv
  <2>1. cache[k] \in Tasks /\ stage[cache[k]] \in Pending \cup Finished
    BY <1>1 DEF CacheType, TaskType, CacheLinks
  <2>2. \A j, t : Evict(j, t) /\ Lost(k) => j = k /\ cache[k] = t
    BY <1>1 DEF Evict, Owns, cacheVars, CacheType
  <2>3. \A c \in Callers : \A t : Deliver(c, t) /\ Lost(k) => cache[k] = t /\ outcome[t] = "error"
    BY <2>2 DEF Deliver, cacheVars
  <2>4. ASSUME NEW c \in Callers, CallerStep(c)  PROVE Reason(k)
    <3>1. ASSUME NEW j \in Keys, Hit(c, j)  PROVE Reason(k)
      BY <1>1, <2>3, <3>1 DEF Hit, Served
    <3>2. ASSUME NEW j \in Keys, Request(c, j)  PROVE Reason(k)
      <4>1. j = k
        BY <1>1, <3>2 DEF Request, CacheType
      <4>2. age[k] \in Nat /\ ~(age[k] <= CacheTtl)
        BY <1>1, <2>1, <3>2, <4>1, LimitsAssumption DEF Request, InFlight, Served, Fresh,
           CacheType
      <4> QED
        BY <2>1, <1>1, <3>2, <4>1, <4>2, LimitsAssumption DEF Request, InFlight
    <3>3. CASE Wake(c)
      BY <1>1, <2>3, <3>3 DEF Wake, Finished
    <3>4. CASE InvalidateGet(c)
      <4>1. /\ cache[k] = joined[c] /\ stage[cache[k]] \in Finished
            /\ status[c] = "ok" /\ status'[c] = "idle"
        BY <1>1, <2>2, <3>4 DEF InvalidateGet, Rejected, cacheVars, CallerType
      <4> QED
        BY <4>1
    <3> QED
      BY <1>1, <2>4, <3>1, <3>2, <3>3, <3>4 DEF CallerStep, Join, Abandon, cacheVars
  <2>5. ASSUME NEW t \in Tasks, TaskStep(t)  PROVE Reason(k)
    <3>1. CASE Settle(t)
      <4>1. cache[k] = t /\ ~Keeps(t) /\ stage[t] = "done"
        BY <1>1, <2>2, <3>1 DEF Settle
      <4> QED
        BY <4>1 DEF Keeps, Finished
    <3>2. CASE Expire(t)
      <4>1. cache[k] = t /\ timer[t] = 0
        BY <1>1, <2>2, <3>2 DEF Expire
      <4>2. stage[t] = "settled"
        BY <1>1, <4>1, IdentityAssumption DEF CacheInv, TimerDiscipline
      <4> QED
        BY <4>1, <4>2 DEF Finished
    <3> QED
      BY <1>1, <2>5, <3>1, <3>2 DEF TaskStep, Start, AcquireGlobal, AcquireHost,
         SendClosed, Respond, CancelTask, Finish, Collect, cacheVars
  <2> QED
    BY <1>1, <2>4, <2>5 DEF Next, CloseGathered, CloseDone, Tick, cacheVars
<1>2. TypeInv /\ CacheInv /\ [Next]_vars =>
        [\A k \in Keys :
            LET t == cache[k]
            IN  t # None /\ cache'[k] # t =>
                  \/ Close
                  \/ stage[t] \in Finished /\
                        \/ outcome[t] # "ok" \/ age[k] > CacheTtl \/ timer[t] = 0
                        \/ CacheTtl = 0
                        \/ \E c \in Callers : joined[c] = t /\ status[c] = "ok"
                                                /\ status'[c] = "idle"]_vars
  BY <1>1
<1> QED
  BY <1>2, CacheInvariant, PTL DEF Spec, ResponsesKept

-----------------------------------------------------------------------------
(* The refinement of SharedRequests.  Beyond the invariants above it needs *)
(* that an entry is never a cancelled task, that stamps agree with the     *)
(* time since a response, and that a timer is due when the response is old. *)

SharedInv ==
    /\ \A t \in Tasks : stage[t] \notin Finished => outcome[t] = "none"
    /\ \A k \in Keys : cache[k] # None => cache[k] \notin cancelling
    /\ \A c \in Callers : status[c] = "ok" =>
           stage[joined[c]] \in Finished /\ outcome[joined[c]] = "ok"
    /\ \A k \in Keys : cache[k] # None /\ stage[cache[k]] = "settled"
           => age[k] = doneAge[cache[k]]
    /\ \A t \in Tasks : timer[t] # None => timer[t] + doneAge[t] >= CacheTtl

\* What is evicted is forgotten; the rest keeps its entry, stamp and timer.
LEMMA EvictKeeps ==
    ASSUME TypeInv, NEW k, NEW t, Evict(k, t)
    PROVE  /\ \A j \in Keys : cache'[j] # None => cache'[j] = cache[j] /\ age'[j] = age[j]
           /\ \A u \in Tasks : timer'[u] \in {timer[u], None}
  BY DEF TypeInv, CacheType, Evict, Owns, Disarmed, cacheVars

\* Answering a caller keeps what the refinement relies on.
LEMMA DeliverSharedInv ==
    ASSUME TypeInv, SharedInv, NEW c \in Callers, NEW t \in Tasks,
           stage[t] \in Finished, Deliver(c, t), UNCHANGED taskVars
    PROVE  SharedInv'
<1>1. /\ \A j \in Keys : cache'[j] # None => cache'[j] = cache[j] /\ age'[j] = age[j]
      /\ \A u \in Tasks : timer'[u] \in {timer[u], None}
  BY EvictKeeps DEF Deliver, cacheVars
<1>2. outcome[t] \in {"ok", "error", "raised", "cancelled"}
  BY DEF TypeInv, TaskType, TaskLinks, Outcomes
<1>3. Verdict[outcome[t]] = "ok" <=> outcome[t] = "ok"
  BY <1>2 DEF Verdict
<1>4. \A d \in Callers : status'[d] = "ok" =>
          stage[joined'[d]] \in Finished /\ outcome[joined'[d]] = "ok"
  BY <1>3 DEF Deliver, TypeInv, CallerType, SharedInv
<1> QED
  BY <1>1, <1>4 DEF SharedInv, taskVars

\* The inductive step of what the refinement relies on.
LEMMA SharedInvNext ==
    ASSUME TypeInv, CacheInv, AgeInv, ShutInv, SharedInv, [Next]_vars
    PROVE  SharedInv'
<1> USE DEF TypeInv
<1>1. ASSUME NEW c \in Callers, NEW k \in Keys, Join(c, k)  PROVE SharedInv'
  BY <1>1 DEF Join, cacheVars, taskVars, SharedInv, CallerType
<1>2. ASSUME NEW c \in Callers, NEW k \in Keys, Hit(c, k)  PROVE SharedInv'
  BY <1>2, DeliverSharedInv DEF Hit, Served, CacheType
<1>3. ASSUME NEW c \in Callers, NEW k \in Keys, Request(c, k)  PROVE SharedInv'
  <2>1. PICK t \in Tasks :
          /\ stage[t] = "idle" /\ stage' = [stage EXCEPT ![t] = "new"]
          /\ cache' = [cache EXCEPT ![k] = t]
          /\ joined' = [joined EXCEPT ![c] = t]
    BY <1>3 DEF Request
  <2>2. /\ age' = [age EXCEPT ![k] = 0]
        /\ status' = [status EXCEPT ![c] = "waiting"]
        /\ UNCHANGED <<outcome, cancelling, doneAge>>
    BY <1>3 DEF Request
  <2>3. \A u \in Tasks : timer'[u] \in {timer[u], None}
    BY <1>3 DEF Request, Disarmed, CacheType
  <2>4. \A j \in Keys : cache[j] # t
    BY <2>1, IdentityAssumption DEF CacheLinks
  <2>5. t \notin cancelling
    BY <2>1 DEF ShutInv
  <2> QED
    BY <2>1, <2>2, <2>3, <2>4, <2>5 DEF SharedInv, CacheType, TaskType, CallerType,
       CallerLinks, Finished
<1>4. ASSUME NEW c \in Callers, Wake(c)  PROVE SharedInv'
  BY <1>4, DeliverSharedInv DEF Wake, CallerLinks, Finished
<1>5. ASSUME NEW c \in Callers, Abandon(c)  PROVE SharedInv'
  BY <1>5 DEF Abandon, AfterAbandon, cacheVars, SharedInv, CallerType
<1>6. ASSUME NEW c \in Callers, InvalidateGet(c)  PROVE SharedInv'
  <2>1. /\ \A j \in Keys : cache'[j] # None => cache'[j] = cache[j] /\ age'[j] = age[j]
        /\ \A u \in Tasks : timer'[u] \in {timer[u], None}
    BY <1>6, EvictKeeps DEF InvalidateGet, cacheVars
  <2> QED
    BY <1>6, <2>1 DEF InvalidateGet, taskVars, SharedInv, CallerType
<1>7. ASSUME NEW t \in Tasks, Start(t) \/ AcquireGlobal(t) \/ AcquireHost(t)
      PROVE  SharedInv'
  <2>1. PICK to \in Pending : stage[t] \in Pending /\ stage' = [stage EXCEPT ![t] = to]
    BY <1>7 DEF Start, AcquireGlobal, AcquireHost, Step, Pending
  <2>2. UNCHANGED <<cacheVars, outcome, cancelling, doneAge, callerVars>>
    BY <1>7 DEF Start, AcquireGlobal, AcquireHost
  <2> QED
    BY <2>1, <2>2 DEF cacheVars, callerVars, SharedInv, TaskType, Pending, Finished
<1>8. ASSUME NEW t \in Tasks, SendClosed(t) \/ Respond(t) \/ CancelTask(t)
      PROVE  SharedInv'
  <2>1. PICK o \in Outcomes : Finish(t, o) /\ stage[t] \in Pending
    BY <1>8 DEF SendClosed, Respond, CancelTask, Interruptible, Outcomes, Pending
  <2>2. timer[t] = None
    BY <2>1 DEF CacheInv, TimerDiscipline, Pending
  <2> QED
    BY <2>1, <2>2 DEF Finish, cacheVars, callerVars, SharedInv, TaskType, Pending,
       Finished
<1>9. ASSUME NEW t \in Tasks, Settle(t)  PROVE SharedInv'
  <2>1. /\ stage[t] = "done" /\ target[t] \in Keys /\ doneAge[t] = 0
        /\ stage' = [stage EXCEPT ![t] = "settled"]
        /\ UNCHANGED <<outcome, cancelling, doneAge, callerVars>>
    BY <1>9 DEF Settle, TaskLinks, AgeInv
  <2>2. CASE cache[target[t]] = t /\ Keeps(t)
    <3>1. /\ UNCHANGED cache
          /\ age' = [age EXCEPT ![target[t]] = 0]
          /\ timer' = [timer EXCEPT ![t] = CacheTtl]
      BY <1>9, <2>2 DEF Settle, Armed
    <3>2. \A k \in Keys : cache[k] = t => k = target[t]
      BY IdentityAssumption DEF CacheLinks
    <3>3. CacheTtl + 0 >= CacheTtl
      BY LimitsAssumption
    <3>4. \A u \in Tasks : timer'[u] # None => timer'[u] + doneAge'[u] >= CacheTtl
      BY <2>1, <3>1, <3>3 DEF SharedInv, CacheType
    <3>5. \A k \in Keys : cache'[k] # None /\ stage'[cache'[k]] = "settled"
              => age'[k] = doneAge'[cache'[k]]
      <4>1. SUFFICES ASSUME NEW k \in Keys, cache[k] # None, stage'[cache[k]] = "settled"
                     PROVE  age'[k] = doneAge[cache[k]]
        BY <2>1, <3>1
      <4>2. CASE cache[k] = t
        BY <2>1, <3>1, <3>2, <4>2 DEF CacheType
      <4>3. CASE cache[k] # t
        <5>1. age'[k] = age[k] /\ stage[cache[k]] = "settled"
          BY <2>1, <2>2, <3>1, <4>1, <4>3 DEF CacheType, TaskType
        <5> QED
          BY <4>1, <5>1 DEF SharedInv
      <4> QED
        BY <4>2, <4>3
    <3> QED
      BY <2>1, <3>1, <3>4, <3>5 DEF SharedInv, TaskType, callerVars, Finished
  <2>3. CASE ~(cache[target[t]] = t /\ Keeps(t))
    <3>1. Evict(target[t], t)
      BY <1>9, <2>3 DEF Settle
    <3>2. \A k \in Keys : cache'[k] # t
      BY <3>1, IdentityAssumption DEF CacheLinks, Evict, Owns, cacheVars, CacheType
    <3> QED
      BY <2>1, <3>1, <3>2, EvictKeeps DEF SharedInv, TaskType, callerVars, Finished
  <2> QED
    BY <2>2, <2>3
<1>10. ASSUME NEW t \in Tasks, Expire(t)  PROVE SharedInv'
  <2>1. /\ \A j \in Keys : cache'[j] # None => cache'[j] = cache[j] /\ age'[j] = age[j]
        /\ \A u \in Tasks : timer'[u] \in {timer[u], None}
    BY <1>10, EvictKeeps DEF Expire, Disarmed, CacheType
  <2> QED
    BY <1>10, <2>1 DEF Expire, taskVars, callerVars, SharedInv
<1>11. ASSUME NEW t \in Tasks, Collect(t)  PROVE SharedInv'
  BY <1>11, IdentityAssumption DEF Collect, cacheVars, callerVars, SharedInv, TaskType,
     CacheType, Finished
<1>12. CASE Close
  <2>1. /\ \A k \in Keys : cache'[k] = None
        /\ \A t \in Tasks : timer'[t] \in {timer[t], None}
        /\ UNCHANGED <<stage, outcome, doneAge, callerVars>>
    BY <1>12 DEF Close, CacheType
  <2> QED
    BY <2>1 DEF SharedInv, callerVars
<1>13. CASE CloseGathered \/ CloseDone \/ UNCHANGED vars
  BY <1>13 DEF CloseGathered, CloseDone, vars, cacheVars, taskVars, callerVars, SharedInv
<1>14. CASE Tick
  <2>1. \A m \in 0 .. CacheTtl, n \in 0 .. CacheTtl + 1 :
            m + n >= CacheTtl => Sooner(m) + Older(n) >= CacheTtl
    BY LimitsAssumption, IdentityAssumption DEF Sooner, Older
  <2>2. /\ \A k \in Keys : cache[k] # None => age'[k] = Older(age[k])
        /\ \A t \in Tasks : /\ timer'[t] = Sooner(timer[t])
                            /\ outcome[t] = "ok" => doneAge'[t] = Older(doneAge[t])
        /\ UNCHANGED <<cache, stage, outcome, cancelling, callerVars>>
    BY <1>14 DEF Tick
  <2>3. \A t \in Tasks : timer'[t] # None => timer'[t] + doneAge'[t] >= CacheTtl
    <3>1. SUFFICES ASSUME NEW t \in Tasks, timer'[t] # None
                   PROVE  timer'[t] + doneAge'[t] >= CacheTtl
      OBVIOUS
    <3>2. timer[t] # None
      BY <2>2, <3>1 DEF Sooner
    <3>3. outcome[t] = "ok" /\ timer[t] + doneAge[t] >= CacheTtl
      BY <3>2 DEF CacheInv, TimerDiscipline, SharedInv
    <3>4. timer[t] \in 0 .. CacheTtl /\ doneAge[t] \in 0 .. CacheTtl + 1
      BY <3>2 DEF CacheType, TaskType
    <3> QED
      BY <2>1, <2>2, <3>3, <3>4
  <2>4. \A k \in Keys : cache[k] # None /\ stage[cache[k]] = "settled"
          => age'[k] = doneAge'[cache[k]]
    BY <2>2 DEF CacheInv, RetentionBounded, SharedInv, CacheType
  <2> QED
    BY <2>2, <2>3, <2>4 DEF SharedInv, callerVars
<1> QED
  BY <1>1, <1>2, <1>3, <1>4, <1>5, <1>6, <1>7, <1>8, <1>9, <1>10, <1>11, <1>12,
     <1>13, <1>14 DEF Next, CallerStep, TaskStep

\* The mapped variables, by name.
LEMMA PromiseVars ==
    ASSUME UNCHANGED <<cache, stage, target, outcome, cancelling, doneAge, callerVars>>
    PROVE  UNCHANGED Promise!vars
  BY DEF callerVars, Promise!vars, Run

Offered == {t \in Tasks : \E k \in Keys : cache[k] = t}

\* Evicting the entry of a task withdraws that task and no other.
LEMMA EvictWithdraws ==
    ASSUME TypeInv, NEW k \in Keys, NEW t \in Tasks, Evict(k, t), target[t] = k
    PROVE  Offered' = Offered \ {t}
  BY IdentityAssumption DEF TypeInv, CacheType, CacheLinks, Offered, Evict, Owns, cacheVars

\* How a caller gets its answer.
LEMMA DeliverGets ==
    ASSUME TypeInv, NEW c \in Callers, NEW t \in Tasks, stage[t] \in Finished,
           Deliver(c, t), UNCHANGED taskVars
    PROVE  Promise!Gets(c, t)
<1>1. Run(t) = Verdict[outcome[t]]
  BY DEF Run, Pending, Finished
<1>2. outcome[t] \in {"ok", "error", "raised", "cancelled"}
  BY DEF TypeInv, TaskType, TaskLinks, Outcomes
<1>3. /\ Run(t) = "ok" <=> outcome[t] = "ok"
      /\ outcome[t] = "error" => Run(t) = "failed"
  BY <1>1, <1>2 DEF Verdict
<1>4. Offered' = Offered \/ (outcome[t] = "error" /\ Offered' = Offered \ {t})
  <2>1. CASE outcome[t] = "error"
    BY <2>1, EvictWithdraws DEF Deliver, TypeInv, TaskLinks, Finished
  <2>2. CASE outcome[t] # "error"
    BY <2>2 DEF Deliver, cacheVars, Offered
  <2> QED
    BY <2>1, <2>2
<1>5. /\ status' = [status EXCEPT ![c] = Run(t)]
      /\ joined' = [joined EXCEPT ![c] = IF Run(t) = "ok" THEN t ELSE None]
  BY <1>1, <1>3 DEF Deliver
<1>6. UNCHANGED <<[u \in Tasks |-> Run(u)], target, doneAge,
                  {u \in Tasks : stage[u] = "settled"}>>
  BY DEF taskVars, Run
<1> QED
  BY <1>3, <1>4, <1>5, <1>6 DEF Promise!Gets, Offered

\* What a step of a caller, a task, time or close() is to the callers: each action
\* is one action of SharedRequests, or nothing they can tell.
LEMMA CallsRefine ==
    ASSUME TypeInv, CacheInv, AgeInv, ShutInv, SharedInv,
           NEW c \in Callers, CallerStep(c)
    PROVE  Promise!CallStep(c)
<1> USE DEF TypeInv
<1>1. ASSUME NEW k \in Keys, Join(c, k)
      PROVE  \E t \in Tasks : Promise!Share(c, t)
  <2>0. /\ cache[k] \in Tasks /\ stage[cache[k]] \in Pending
        /\ cache[k] \notin cancelling
    BY <1>1 DEF Join, InFlight, CacheType, SharedInv
  <2>1. cache[k] \in Tasks /\ Run(cache[k]) = "running"
    BY <2>0 DEF Run, Pending, Finished
  <2>2. UNCHANGED <<[t \in Tasks |-> Run(t)], target, doneAge,
                    {t \in Tasks : stage[t] = "settled"}, Offered>>
    BY <1>1 DEF Join, taskVars, cacheVars, Run, Offered
  <2> QED
    BY <1>1, <2>1, <2>2 DEF Join, Offered, Promise!Share, Promise!Waits
<1>2. ASSUME NEW k \in Keys, Hit(c, k)
      PROVE  \E t \in Tasks : Promise!Serve(c, t)
  <2>1. PICK t \in Tasks : /\ t = cache[k] /\ stage[t] \in Finished
                           /\ age[k] <= CacheTtl
    BY <1>2 DEF Hit, Served, Fresh, CacheType
  <2>2. Run(t) = Verdict[outcome[t]] /\ outcome[t] \in {"ok", "error", "raised", "cancelled"}
    BY <2>1 DEF Run, Pending, Finished, TaskType, TaskLinks, Outcomes
  <2>3. Run(t) \in {"ok", "failed", "cancelled"} /\ (Run(t) = "ok" => outcome[t] = "ok")
    BY <2>2 DEF Verdict
  <2>4. outcome[t] = "ok" => doneAge[t] <= CacheTtl
    <3>1. outcome[t] = "ok" => doneAge[t] <= age[k]
      BY <2>1, <1>2 DEF AgeInv, Hit, Served
    <3>2. doneAge[t] \in Nat /\ age[k] \in Nat
      BY <2>1, LimitsAssumption DEF TaskType, CacheType
    <3> QED
      BY <2>1, <3>1, <3>2, LimitsAssumption
  <2>5. stage[t] = "settled" => Run(t) = "ok"
    BY <2>1, <2>2, IdentityAssumption DEF CacheInv, RetentionBounded, Verdict
  <2>6. Promise!Gets(c, t)
    <3>1. Deliver(c, t) /\ UNCHANGED taskVars
      BY <1>2, <2>1 DEF Hit
    <3> QED
      BY <2>1, <3>1, DeliverGets
  <2> QED
    BY <1>2, <2>1, <2>3, <2>4, <2>5, <2>6 DEF Hit, Promise!Serve, Promise!Ended
<1>3. ASSUME NEW k \in Keys, Request(c, k)
      PROVE  \E t \in Tasks : Promise!Begin(c, k, t)
  <2>1. PICK t \in Tasks :
          /\ stage[t] = "idle" /\ stage' = [stage EXCEPT ![t] = "new"]
          /\ target' = [target EXCEPT ![t] = k]
          /\ cache' = [cache EXCEPT ![k] = t]
          /\ joined' = [joined EXCEPT ![c] = t]
    BY <1>3 DEF Request
  <2>2. /\ status[c] # "waiting" /\ ~InFlight(k) /\ ~Served(k)
        /\ status' = [status EXCEPT ![c] = "waiting"]
        /\ UNCHANGED <<outcome, cancelling, doneAge>>
    BY <1>3 DEF Request
  <2>3. t \notin cancelling /\ Run(t) = "unused"
    BY <2>1 DEF ShutInv, Run, Pending, Finished
  <2>4. ASSUME NEW q \in Offered, target[q] = k
        PROVE  /\ Run(q) \in {"ok", "failed", "cancelled"}
               /\ stage[q] = "settled" => doneAge[q] > CacheTtl
    <3>1. q \in Tasks /\ cache[k] = q /\ cache[k] # None
      BY <2>4, IdentityAssumption DEF Offered, CacheLinks
    <3>2. stage[q] \in Finished /\ ~Fresh(k)
      BY <2>2, <3>1 DEF InFlight, Served, CacheLinks, TaskType
    <3>3. Run(q) \in {"ok", "failed", "cancelled"}
      BY <3>1, <3>2 DEF Run, Pending, Finished, TaskType, TaskLinks, Outcomes, Verdict
    <3>4. stage[q] = "settled" => doneAge[q] > CacheTtl
      BY <3>1, <3>2, LimitsAssumption DEF Fresh, SharedInv, CacheType
    <3> QED
      BY <3>3, <3>4
  <2>5. Offered' = {q \in Offered : target[q] # k} \cup {t}
    <3>1. \A j \in Keys : cache[j] # t
      BY <2>1, IdentityAssumption DEF CacheLinks
    <3>2. \A j \in Keys : cache[j] \in Tasks => target[cache[j]] = j
      BY IdentityAssumption DEF CacheLinks
    <3> QED
      BY <2>1, <3>1, <3>2 DEF Offered, CacheType
  <2>6. [q \in Tasks |-> Run(q)]' = [[q \in Tasks |-> Run(q)] EXCEPT ![t] = "running"]
    <3>1. \A q \in Tasks : q # t => Run(q)' = Run(q)
      BY <2>1, <2>2 DEF Run, TaskType
    <3>2. Run(t)' = "running"
      <4>1. stage'[t] \in Pending /\ t \notin cancelling'
        BY <2>1, <2>2, <2>3 DEF TaskType, Pending
      <4> QED
        BY <4>1 DEF Run, Pending, Finished
    <3> QED
      BY <3>1, <3>2
  <2>7. {q \in Tasks : stage[q] = "settled"}' = {q \in Tasks : stage[q] = "settled"}
    BY <2>1 DEF TaskType
  <2> QED
    BY <2>1, <2>2, <2>3, <2>4, <2>5, <2>6, <2>7
    DEF Offered, Promise!Begin, Promise!Waits, Promise!Ended
<1>4. ASSUME Wake(c)  PROVE Promise!Wake(c)
  <2>1. PICK t \in Tasks : t = joined[c] /\ stage[t] = "settled"
    BY <1>4 DEF Wake, CallerLinks
  <2>2. Promise!Gets(c, t)
    <3>1. Deliver(c, t) /\ UNCHANGED taskVars
      BY <1>4, <2>1 DEF Wake
    <3>2. stage[t] \in Finished
      BY <2>1 DEF Finished
    <3> QED
      BY <3>1, <3>2, DeliverGets
  <2> QED
    BY <1>4, <2>1, <2>2 DEF Wake, Promise!Wake, Promise!Gets
<1>5. ASSUME Abandon(c)  PROVE Promise!GiveUp(c)
  BY <1>5 DEF Abandon, AfterAbandon, cacheVars, Run, Promise!GiveUp
<1>6. ASSUME InvalidateGet(c)  PROVE Promise!Reject(c)
  <2> DEFINE t == joined[c]
             k == target[t]
  <2>1. /\ t \in Tasks /\ k \in Keys /\ stage[t] \in Finished /\ outcome[t] = "ok"
        /\ UNCHANGED taskVars
    BY <1>6 DEF InvalidateGet, CallerLinks, TaskLinks, SharedInv
  <2>2. Offered' = Offered \ {t}
    <3>1. CASE cache[k] = t
      <4>1. t # None
        BY <2>1, IdentityAssumption
      <4>2. Evict(k, t)
        BY <1>6, <2>1, <3>1, <4>1 DEF InvalidateGet, Rejected
      <4> QED
        BY <2>1, <4>2, EvictWithdraws
    <3>2. CASE cache[k] # t
      <4>1. UNCHANGED cache
        BY <1>6, <3>2 DEF InvalidateGet, Rejected, cacheVars
      <4>2. t \notin Offered
        BY <2>1, <3>2, IdentityAssumption DEF Offered, CacheLinks
      <4> QED
        BY <4>1, <4>2 DEF Offered
    <3> QED
      BY <3>1, <3>2
  <2> QED
    BY <1>6, <2>1, <2>2 DEF InvalidateGet, taskVars, Run, Offered, Promise!Reject
<1> QED
  BY <1>1, <1>2, <1>3, <1>4, <1>5, <1>6
  DEF CallerStep, Promise!CallStep

\* A task that finishes ends its request; its waiters are not told yet.
LEMMA FinishEnds ==
    ASSUME TypeInv, NEW t \in Tasks, stage[t] \in Pending,
           NEW o \in {"ok", "error", "raised", "cancelled"}, Finish(t, o),
           (o = "cancelled") <=> (t \in cancelling)
    PROVE  Promise!End(t)
<1>1. /\ stage' = [stage EXCEPT ![t] = "done"] /\ outcome' = [outcome EXCEPT ![t] = o]
      /\ doneAge' = [doneAge EXCEPT ![t] = 0]
      /\ UNCHANGED <<cache, target, cancelling, status, joined>>
  BY DEF Finish, cacheVars, callerVars
<1>2. \A q \in Tasks : q # t => Run(q)' = Run(q)
  BY <1>1 DEF Run, TypeInv, TaskType
<1>3. Run(t)' = Verdict[o]
  <2>1. stage'[t] \in Finished /\ outcome'[t] = o
    BY <1>1 DEF TypeInv, TaskType, Finished
  <2> QED
    BY <2>1 DEF Run, Pending, Finished
<1>4. Run(t) = IF t \in cancelling THEN "doomed" ELSE "running"
  BY DEF Run, Pending, Finished
<1>5. [q \in Tasks |-> Run(q)]' = [[q \in Tasks |-> Run(q)] EXCEPT ![t] = Verdict[o]]
  BY <1>2, <1>3
<1>6. IF t \in cancelling THEN Verdict[o] = "cancelled" ELSE Verdict[o] \in {"ok", "failed"}
  BY DEF Verdict
<1>7. UNCHANGED <<{q \in Tasks : stage[q] = "settled"}, Offered>>
  BY <1>1 DEF TypeInv, TaskType, Offered, Pending
<1> QED
  BY <1>1, <1>4, <1>5, <1>6, <1>7 DEF Promise!End, Offered

\* What a step of a task is to the callers.
LEMMA TasksRefine ==
    ASSUME TypeInv, CacheInv, ShutInv, SharedInv, NEW t \in Tasks, TaskStep(t)
    PROVE  \/ Promise!End(t) \/ Promise!Tell(t) \/ Promise!Withdraw(t)
           \/ Promise!Forget(t) \/ UNCHANGED Promise!vars
<1>1. CASE Start(t) \/ AcquireGlobal(t) \/ AcquireHost(t)
  <2>1. PICK to \in Pending : stage[t] \in Pending /\ stage' = [stage EXCEPT ![t] = to]
    BY <1>1 DEF Start, AcquireGlobal, AcquireHost, Step, Pending
  <2>2. UNCHANGED <<cache, target, outcome, cancelling, doneAge, status, joined>>
    BY <1>1 DEF Start, AcquireGlobal, AcquireHost, cacheVars, callerVars
  <2>3. \A q \in Tasks : Run(q)' = Run(q)
    BY <2>1, <2>2 DEF Run, TypeInv, TaskType, Pending, Finished
  <2>4. UNCHANGED <<[q \in Tasks |-> Run(q)], {q \in Tasks : stage[q] = "settled"}, Offered>>
    BY <2>1, <2>2, <2>3 DEF TypeInv, TaskType, Offered, Pending
  <2> QED
    BY <2>2, <2>4 DEF Promise!vars, Offered
<1>2. CASE SendClosed(t)
  BY <1>2, FinishEnds DEF SendClosed, Pending
<1>3. CASE Respond(t)
  BY <1>3, FinishEnds DEF Respond, Pending
<1>4. CASE CancelTask(t)
  BY <1>4, FinishEnds DEF CancelTask, Interruptible
<1>5. CASE Settle(t)
  <2>1. /\ stage[t] = "done" /\ stage' = [stage EXCEPT ![t] = "settled"]
        /\ UNCHANGED <<target, outcome, cancelling, doneAge, status, joined>>
    BY <1>5 DEF Settle, callerVars
  <2>2. Run(t) = Verdict[outcome[t]] /\ outcome[t] \in {"ok", "error", "raised", "cancelled"}
    BY <2>1 DEF TypeInv, TaskType, TaskLinks, Outcomes, Run, Pending, Finished
  <2>3. Run(t) \in Promise!Ended /\ (Run(t) = "ok" <=> outcome[t] = "ok")
    BY <2>2 DEF Verdict, Promise!Ended
  <2>4. UNCHANGED [q \in Tasks |-> Run(q)]
    BY <2>1 DEF Run, TypeInv, TaskType, Pending, Finished
  <2>5. {q \in Tasks : stage[q] = "settled"}' = {q \in Tasks : stage[q] = "settled"} \cup {t}
    BY <2>1 DEF TypeInv, TaskType
  <2>6. Offered' = IF outcome[t] = "ok" /\ CacheTtl # 0 THEN Offered ELSE Offered \ {t}
    <3>1. target[t] \in Keys
      BY <2>1 DEF TypeInv, TaskLinks
    <3>2. CASE Keeps(t)
      <4>1. UNCHANGED cache
        BY <1>5, <3>2 DEF Settle, Evict, Owns, cacheVars
      <4> QED
        BY <3>2, <4>1 DEF Keeps, Offered
    <3>3. CASE ~Keeps(t)
      BY <1>5, <3>1, <3>3, EvictWithdraws DEF Settle, Keeps
    <3> QED
      BY <3>2, <3>3
  <2> QED
    BY <2>1, <2>3, <2>4, <2>5, <2>6 DEF Promise!Tell, Offered
<1>6. CASE Expire(t)
  <2>1. timer[t] = 0 /\ timer[t] # None /\ 0 \in Nat
    BY <1>6, IdentityAssumption DEF Expire
  <2>2. stage[t] = "settled" /\ cache[target[t]] = t /\ target[t] \in Keys
    BY <2>1 DEF CacheInv, TimerDiscipline, TypeInv, TaskLinks
  <2>3. doneAge[t] >= CacheTtl
    <3>1. 0 + doneAge[t] >= CacheTtl /\ doneAge[t] \in 0 .. CacheTtl + 1
      BY <2>1 DEF SharedInv, TypeInv, TaskType
    <3> QED
      BY <3>1, LimitsAssumption
  <2>4. Evict(target[t], t) /\ UNCHANGED <<taskVars, closeVars, callerVars>>
    BY <1>6, <2>2 DEF Expire, Owns
  <2>5. Offered' = Offered \ {t}
    BY <2>2, <2>4, EvictWithdraws
  <2>6. UNCHANGED <<[q \in Tasks |-> Run(q)], {q \in Tasks : stage[q] = "settled"}>>
    BY <2>4 DEF taskVars, Run
  <2> QED
    BY <2>2, <2>3, <2>4, <2>5, <2>6 DEF Promise!Withdraw, Offered, taskVars, callerVars
<1>7. CASE Collect(t)
  <2>1. /\ stage[t] = "settled" /\ stage' = [stage EXCEPT ![t] = "idle"]
        /\ target' = [target EXCEPT ![t] = None]
        /\ outcome' = [outcome EXCEPT ![t] = "none"]
        /\ doneAge' = [doneAge EXCEPT ![t] = 0]
        /\ cancelling' = cancelling \ {t}
        /\ UNCHANGED <<cache, status, joined>>
        /\ \A k \in Keys : cache[k] # t
        /\ \A c \in Callers : joined[c] # t
    BY <1>7 DEF Collect, cacheVars, callerVars
  <2>2. \A q \in Tasks : q # t => Run(q)' = Run(q)
    BY <2>1 DEF Run, TypeInv, TaskType
  <2>3. Run(t)' = "unused"
    <3>1. stage'[t] = "idle"
      BY <2>1 DEF TypeInv, TaskType
    <3> QED
      BY <3>1 DEF Run, Pending, Finished
  <2>4. [q \in Tasks |-> Run(q)]' = [[q \in Tasks |-> Run(q)] EXCEPT ![t] = "unused"]
    BY <2>2, <2>3
  <2>5. {q \in Tasks : stage[q] = "settled"}' = {q \in Tasks : stage[q] = "settled"} \ {t}
    BY <2>1 DEF TypeInv, TaskType
  <2>6. UNCHANGED Offered /\ t \notin Offered
    BY <2>1 DEF Offered
  <2> QED
    BY <2>1, <2>4, <2>5, <2>6 DEF Promise!Forget, Offered
<1> QED
  BY <1>1, <1>2, <1>3, <1>4, <1>5, <1>6, <1>7 DEF TaskStep

\* close() dooms what it finds running, which is everything that runs.
LEMMA CloseRefines ==
    ASSUME TypeInv, CacheInv, Close
    PROVE  Promise!Shut
<1>1. /\ cache' = [k \in Keys |-> None]
      /\ cancelling' = cancelling \cup Undone
      /\ UNCHANGED <<stage, target, outcome, doneAge, status, joined>>
  BY DEF Close, callerVars
<1>2. \A t \in Tasks : stage[t] \in Pending /\ t \notin cancelling => t \in Undone
  BY DEF CacheInv, PendingCached, Undone, TypeInv, TaskLinks, Pending
<1>3. \A t \in Tasks : Run(t)' = IF Run(t) = "running" THEN "doomed" ELSE Run(t)
  <2>1. SUFFICES ASSUME NEW t \in Tasks
                 PROVE  Run(t)' = IF Run(t) = "running" THEN "doomed" ELSE Run(t)
    OBVIOUS
  <2>2. CASE stage[t] \in Pending
    BY <1>1, <1>2, <2>2 DEF Run, Pending, Finished
  <2>3. CASE stage[t] \notin Pending
    <3>1. Run(t)' = Run(t)
      BY <1>1, <2>3 DEF Run
    <3>2. Run(t) # "running"
      <4>1. CASE stage[t] \in Finished
        <5>1. outcome[t] \in {"ok", "error", "raised", "cancelled"}
          BY <4>1 DEF TypeInv, TaskType, TaskLinks, Outcomes
        <5> QED
          BY <2>3, <4>1, <5>1 DEF Run, Verdict
      <4>2. CASE stage[t] \notin Finished
        BY <2>3, <4>2 DEF Run
      <4> QED
        BY <4>1, <4>2
    <3> QED
      BY <3>1, <3>2
  <2> QED
    BY <2>2, <2>3
<1>4. Offered' = {}
  BY <1>1, IdentityAssumption DEF Offered
<1>5. {t \in Tasks : stage[t] = "settled"}' = {t \in Tasks : stage[t] = "settled"}
  BY <1>1
<1> QED
  BY <1>1, <1>3, <1>4, <1>5 DEF Promise!Shut, Offered

\* Time passes for the callers when it passes for the transport.
LEMMA TickRefines ==
    ASSUME TypeInv, SharedInv, Tick
    PROVE  Promise!Pass
<1>1. /\ \A t \in Tasks : stage[t] # "done"
      /\ doneAge' = [t \in Tasks |-> IF outcome[t] = "ok" THEN Older(doneAge[t])
                                     ELSE doneAge[t]]
      /\ UNCHANGED <<cache, stage, target, outcome, cancelling, status, joined>>
  BY DEF Tick, callerVars
<1>2. ASSUME NEW t \in Tasks
      PROVE  /\ Run(t) = "ok" <=> outcome[t] = "ok"
             /\ Run(t) \in Promise!Ended => stage[t] = "settled"
  <2>1. CASE stage[t] \in Finished
    <3>1. Run(t) = Verdict[outcome[t]] /\ outcome[t] \in {"ok", "error", "raised", "cancelled"}
      BY <2>1 DEF Run, Pending, Finished, TypeInv, TaskType, TaskLinks, Outcomes
    <3> QED
      BY <1>1, <2>1, <3>1 DEF Verdict, Finished
  <2>2. CASE stage[t] \notin Finished
    <3>1. outcome[t] = "none" /\ Run(t) \in {"running", "doomed", "unused"}
      BY <2>2 DEF SharedInv, Run
    <3> QED
      BY <3>1 DEF Promise!Ended
  <2> QED
    BY <2>1, <2>2
<1>3. doneAge' = [t \in Tasks |-> IF Run(t) = "ok" /\ doneAge[t] <= CacheTtl
                                  THEN doneAge[t] + 1 ELSE doneAge[t]]
  BY <1>1, <1>2 DEF Older
<1>4. UNCHANGED <<[t \in Tasks |-> Run(t)], {t \in Tasks : stage[t] = "settled"}, Offered>>
  BY <1>1 DEF Run, Offered
<1> QED
  BY <1>1, <1>2, <1>3, <1>4 DEF Promise!Pass, Offered

\* Every behaviour of the transport is, to its callers, one of SharedRequests: the
\* cache of tasks with its stamps, timers, callbacks, semaphores and lazily built
\* client shares what runs, serves what is young, and shows nothing else
\* (transport.py:110-164).
THEOREM TransportKeepsItsPromise == Spec => AnswersShared
<1> DEFINE Inv == TypeInv /\ CacheInv /\ AgeInv /\ ShutInv /\ SharedInv
<1>1. Init => Inv /\ Promise!Init
  <2> SUFFICES ASSUME Init  PROVE Inv /\ Promise!Init
    OBVIOUS
  <2>1. TypeInv
    BY InitTypeInv
  <2>2. CacheInv /\ AgeInv /\ ShutInv /\ SharedInv
    BY DEF Init, CacheInv, PendingCached, TimerDiscipline, RetentionBounded, ExpiryLinks,
       AgeInv, ShutInv, SharedInv, Pending, Finished
  <2>3. [t \in Tasks |-> Run(t)] = [t \in Tasks |-> "unused"]
    BY DEF Init, Run, Pending, Finished
  <2>4. Offered = {} /\ {t \in Tasks : stage[t] = "settled"} = {}
    BY IdentityAssumption DEF Init, Offered
  <2> QED
    BY <2>1, <2>2, <2>3, <2>4 DEF Init, Promise!Init, Offered
<1>2. Inv /\ [Next]_vars => Inv'
  BY TypeInvNext, CacheInvNext, AgeInvNext, ShutInvNext, SharedInvNext
<1>3. Inv /\ [Next]_vars => [Promise!Next]_Promise!vars
  <2> SUFFICES ASSUME Inv, [Next]_vars  PROVE [Promise!Next]_Promise!vars
    OBVIOUS
  <2>1. ASSUME NEW c \in Callers, CallerStep(c)  PROVE Promise!Next
    BY <2>1, CallsRefine DEF Promise!Next
  <2>2. ASSUME NEW t \in Tasks, TaskStep(t)  PROVE [Promise!Next]_Promise!vars
    BY <2>2, TasksRefine DEF Promise!Next
  <2>3. CASE Close
    BY <2>3, CloseRefines DEF Promise!Next
  <2>4. CASE CloseGathered \/ CloseDone \/ UNCHANGED vars
    BY <2>4, PromiseVars
    DEF CloseGathered, CloseDone, cacheVars, taskVars, callerVars, vars
  <2>5. CASE Tick
    BY <2>5, TickRefines DEF Promise!Next
  <2> QED
    BY <2>1, <2>2, <2>3, <2>4, <2>5 DEF Next
<1> QED
  BY <1>1, <1>2, <1>3, PTL DEF Spec, AnswersShared, Promise!Spec

=============================================================================
