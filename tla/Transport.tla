------------------------------ MODULE Transport ------------------------------
(***************************************************************************)
(* HttpxTransport (src/perp_md/transport.py): bounded asynchronous JSON    *)
(* requests shared through a cache of asyncio tasks.                       *)
(*                                                                         *)
(* A caller asks for a key.  A pending request for that key is joined, a   *)
(* response that completed at most CacheTtl ago is served again, anything  *)
(* else starts a new request task.  A task passes a global and a per-host  *)
(* semaphore, finishes, and its done callback either evicts the entry or   *)
(* restamps it and arms an expiry timer.  close() forgets everything,      *)
(* cancels what is pending, and closes the HTTP client.                    *)
(*                                                                         *)
(* One action is one uninterrupted run of the event loop: the code between *)
(* two awaits.  Times are kept relative (an age, a remaining delay) and    *)
(* saturate where the code stops telling values apart.                     *)
(***************************************************************************)
EXTENDS Naturals, FiniteSets

CONSTANTS
    Keys,               \* request keys: method, url and canonical parameters
    Hosts,
    HostOf,             \* the host each key is sent to
    Tasks,              \* identities of request tasks, reused once collected
    Callers,            \* coroutines that call get() or post()
    RequestConcurrency, \* capacity of the global semaphore
    PerHostConcurrency, \* capacity of each per-host semaphore
    CacheTtl,           \* cache_ttl_seconds, in ticks
    None

ASSUME LimitsAssumption ==
    /\ RequestConcurrency \in Nat \ {0}
    /\ PerHostConcurrency \in Nat \ {0}
    /\ CacheTtl \in Nat

ASSUME IdentityAssumption ==
    /\ HostOf \in [Keys -> Hosts]
    /\ None \notin Tasks \cup Keys \cup Nat

VARIABLES
    cache,      \* _cache[key][1]: the task cached under a key
    age,        \* time.monotonic() - _cache[key][0]
    expiry,     \* _expiry[key], named by the task its timer would evict
    timer,      \* ticks left on the timers the event loop holds, by that task
    stage,      \* how far each task is
    target,     \* the key each task requests
    outcome,    \* what a finished task holds
    cancelling, \* tasks whose cancel() was called
    stale,      \* tasks that captured an HTTP client close() has since taken
    doneAge,    \* ghost: time since a task finished
    http,       \* _http is not None
    closer,     \* where close() is
    awaited,    \* the tasks close() gathers
    reused,     \* ghost: a request was started since close() began
    status,     \* what each caller's latest call is doing or has returned
    joined      \* the task a caller awaits, or whose response it holds

cacheVars  == <<cache, age, expiry, timer>>
taskVars   == <<stage, target, outcome, cancelling, stale, doneAge>>
closeVars  == <<http, closer, awaited, reused>>
callerVars == <<status, joined>>
vars == <<cacheVars, taskVars, closeVars, callerVars>>

-----------------------------------------------------------------------------

Pending  == {"new", "queued", "holding", "sent"}
Finished == {"done", "settled"}    \* before and after the done callback ran
Outcomes == {"none", "ok", "error", "raised", "cancelled"}
Statuses == {"idle", "waiting", "ok", "failed", "cancelled"}

TypeOK ==
    /\ cache \in [Keys -> Tasks \cup {None}]
    /\ age \in [Keys -> 0 .. CacheTtl + 1]
    /\ expiry \in [Keys -> Tasks \cup {None}]
    /\ timer \in [Tasks -> (0 .. CacheTtl) \cup {None}]
    /\ stage \in [Tasks -> {"idle"} \cup Pending \cup Finished]
    /\ target \in [Tasks -> Keys \cup {None}]
    /\ outcome \in [Tasks -> Outcomes]
    /\ cancelling \in SUBSET Tasks
    /\ stale \in SUBSET Tasks
    /\ doneAge \in [Tasks -> 0 .. CacheTtl + 1]
    /\ http \in BOOLEAN
    /\ closer \in {"open", "gather", "aclose", "closed"}
    /\ awaited \in SUBSET Tasks
    /\ reused \in BOOLEAN
    /\ status \in [Callers -> Statuses]
    /\ joined \in [Callers -> Tasks \cup {None}]

Init ==
    /\ cache = [k \in Keys |-> None]
    /\ age = [k \in Keys |-> 0]
    /\ expiry = [k \in Keys |-> None]
    /\ timer = [t \in Tasks |-> None]
    /\ stage = [t \in Tasks |-> "idle"]
    /\ target = [t \in Tasks |-> None]
    /\ outcome = [t \in Tasks |-> "none"]
    /\ cancelling = {}
    /\ stale = {}
    /\ doneAge = [t \in Tasks |-> 0]
    /\ http = FALSE
    /\ closer = "open"
    /\ awaited = {}
    /\ reused = FALSE
    /\ status = [c \in Callers |-> "idle"]
    /\ joined = [c \in Callers |-> None]

-----------------------------------------------------------------------------
(* Faulty variants of operators below.  No action uses them: each stands   *)
(* for a bug that one of the properties has to notice.                     *)

OwnsWhatever(k, t)   == cache[k] # None               \* no identity check
DisarmedNothing(x)   == timer                         \* handle not cancelled
FreshOneMore(k)      == age[k] <= CacheTtl + 1
AbandonCancels(t)    == cancelling \cup {t}            \* no shield
RejectedWhatever(c, k) == cache[k] # None
HostFreeOneLess(h)   == Cardinality({t \in Tasks : stage[t] = "sent"
                                                     /\ HostOf[target[t]] = h})
                          < PerHostConcurrency - 1
QueuedUninterruptible(t) == stage[t] \in Pending \ {"queued"}
KeepsFailures(t)     == CacheTtl # 0
ArmedLate(t)         == [timer EXCEPT ![t] = CacheTtl + 1]
ArmedNever(t)        == timer
InFlightOnceRun(k)   == cache[k] # None /\ stage[cache[k]] \in Pending \ {"new"}
UndoneStarted        == {t \in Tasks : /\ stage[t] \in Pending \ {"new"}
                                       /\ \E k \in Keys : cache[k] = t}

-----------------------------------------------------------------------------
(* The cache: _evict(), and the tests _cached() makes before it joins.     *)

Owns(k, t)  == cache[k] = t
Disarmed(x) == [t \in Tasks |-> IF t = x THEN None ELSE timer[t]]

\* Forget the entry of k if it is still t's, and cancel its expiry timer.
Evict(k, t) ==
    IF Owns(k, t)
    THEN /\ cache' = [cache EXCEPT ![k] = None]
         /\ age' = [age EXCEPT ![k] = 0]
         /\ expiry' = [expiry EXCEPT ![k] = None]
         /\ timer' = Disarmed(expiry[k])
    ELSE UNCHANGED cacheVars

InFlight(k) == cache[k] # None /\ stage[cache[k]] \in Pending
Fresh(k)    == age[k] <= CacheTtl
Served(k)   == cache[k] # None /\ stage[cache[k]] \in Finished /\ Fresh(k)

\* What the waiters of a task get: the body, an exception, or its cancellation.
Verdict == [ok |-> "ok", error |-> "failed", raised |-> "failed",
            cancelled |-> "cancelled"]

\* asyncio.shield(t) returns to c; a venue failure evicts before RequestError.
Deliver(c, t) ==
    /\ status' = [status EXCEPT ![c] = Verdict[outcome[t]]]
    /\ joined' = [joined EXCEPT ![c] = IF outcome[t] = "ok" THEN t ELSE None]
    /\ IF outcome[t] = "error" THEN Evict(target[t], t) ELSE UNCHANGED cacheVars

-----------------------------------------------------------------------------
(* Callers: get(), post() and invalidate_get().                            *)

\* The call finds a pending request and waits for it with the others.
Join(c, k) ==
    /\ status[c] # "waiting"
    /\ InFlight(k)
    /\ status' = [status EXCEPT ![c] = "waiting"]
    /\ joined' = [joined EXCEPT ![c] = cache[k]]
    /\ UNCHANGED <<cacheVars, taskVars, closeVars>>

\* The call finds a finished request young enough and returns at once: a
\* finished future is awaited without suspending.
Hit(c, k) ==
    /\ status[c] # "waiting"
    /\ Served(k)
    /\ Deliver(c, cache[k])
    /\ UNCHANGED <<taskVars, closeVars>>

\* Otherwise the stale entry, if any, is evicted and a new task takes its place.
Request(c, k) ==
    /\ status[c] # "waiting"
    /\ ~InFlight(k) /\ ~Served(k)
    /\ \E t \in Tasks :
        /\ stage[t] = "idle"
        /\ stage' = [stage EXCEPT ![t] = "new"]
        /\ target' = [target EXCEPT ![t] = k]
        /\ cache' = [cache EXCEPT ![k] = t]
        /\ joined' = [joined EXCEPT ![c] = t]
    /\ age' = [age EXCEPT ![k] = 0]
    /\ IF cache[k] # None
       THEN /\ expiry' = [expiry EXCEPT ![k] = None]
            /\ timer' = Disarmed(expiry[k])
       ELSE UNCHANGED <<expiry, timer>>
    /\ status' = [status EXCEPT ![c] = "waiting"]
    /\ reused' = (closer # "open")
    /\ UNCHANGED <<outcome, cancelling, stale, doneAge, http, closer, awaited>>

\* The shielded wait resumes: the task's done callback ran before it.
Wake(c) ==
    /\ status[c] = "waiting"
    /\ stage[joined[c]] = "settled"
    /\ Deliver(c, joined[c])
    /\ UNCHANGED <<taskVars, closeVars>>

AfterAbandon(t) == cancelling   \* the shield keeps the shared request running

\* The caller of a waiting get() is cancelled.
Abandon(c) ==
    /\ status[c] = "waiting"
    /\ status' = [status EXCEPT ![c] = "idle"]
    /\ joined' = [joined EXCEPT ![c] = None]
    /\ cancelling' = AfterAbandon(joined[c])
    /\ UNCHANGED <<cacheVars, stage, target, outcome, stale, doneAge, closeVars>>

Rejected(c, k) == cache[k] = joined[c]   \* task.result() is response

\* invalidate_get(): the caller of a good response discards it.
InvalidateGet(c) ==
    /\ status[c] = "ok"
    /\ LET k == target[joined[c]]
       IN  IF /\ cache[k] # None
              /\ stage[cache[k]] \in Finished
              /\ outcome[cache[k]] = "ok"
              /\ Rejected(c, k)
           THEN Evict(k, cache[k])
           ELSE UNCHANGED cacheVars
    /\ status' = [status EXCEPT ![c] = "idle"]
    /\ joined' = [joined EXCEPT ![c] = None]
    /\ UNCHANGED <<taskVars, closeVars>>

-----------------------------------------------------------------------------
(* Request tasks: the request() closures, their semaphores, _completed().  *)

GlobalFree == Cardinality({t \in Tasks : stage[t] \in {"holding", "sent"}})
                < RequestConcurrency
HostFree(h) ==
    Cardinality({t \in Tasks : stage[t] = "sent" /\ HostOf[target[t]] = h})
        < PerHostConcurrency

Step(t, from, to) ==
    /\ stage[t] = from
    /\ t \notin cancelling
    /\ stage' = [stage EXCEPT ![t] = to]

Finish(t, o) ==
    /\ stage' = [stage EXCEPT ![t] = "done"]
    /\ outcome' = [outcome EXCEPT ![t] = o]
    /\ doneAge' = [doneAge EXCEPT ![t] = 0]
    /\ UNCHANGED <<cacheVars, target, cancelling, closeVars, callerVars>>

\* The task runs for the first time; _client() creates the client lazily.
Start(t) ==
    /\ Step(t, "new", "queued")
    /\ http' = TRUE
    /\ UNCHANGED <<cacheVars, target, outcome, cancelling, stale, doneAge,
                   closer, awaited, reused, callerVars>>

AcquireGlobal(t) ==
    /\ GlobalFree
    /\ Step(t, "queued", "holding")
    /\ UNCHANGED <<cacheVars, target, outcome, cancelling, stale, doneAge,
                   closeVars, callerVars>>

AcquireHost(t) ==
    /\ Step(t, "holding", "sent")
    /\ HostFree(HostOf[target[t]])
    /\ t \notin stale
    /\ UNCHANGED <<cacheVars, target, outcome, cancelling, stale, doneAge,
                   closeVars, callerVars>>

\* Sending on a client that was closed meanwhile raises RuntimeError.
SendClosed(t) ==
    /\ stage[t] = "holding" /\ t \notin cancelling
    /\ HostFree(HostOf[target[t]])
    /\ t \in stale
    /\ Finish(t, "raised")
    /\ UNCHANGED stale

\* A JSON body; an httpx.HTTPError or ValueError; or any other exception.
Respond(t) ==
    /\ stage[t] = "sent" /\ t \notin cancelling
    /\ \E o \in {"ok", "error", "raised"} : Finish(t, o)
    /\ UNCHANGED stale

Interruptible(t) == stage[t] \in Pending

\* CancelledError reaches the task at whatever it awaits, or before it started.
CancelTask(t) ==
    /\ t \in cancelling
    /\ Interruptible(t)
    /\ Finish(t, "cancelled")
    /\ UNCHANGED stale

Keeps(t) == outcome[t] = "ok" /\ CacheTtl # 0
Armed(t) == [timer EXCEPT ![t] = CacheTtl]

\* _completed(): the done callback, in the loop iteration after the task ends.
Settle(t) ==
    /\ stage[t] = "done"
    /\ stage' = [stage EXCEPT ![t] = "settled"]
    /\ LET k == target[t]
       IN  IF cache[k] = t /\ Keeps(t)
           THEN /\ age' = [age EXCEPT ![k] = 0]
                /\ expiry' = [expiry EXCEPT ![k] = t]
                /\ timer' = Armed(t)
                /\ UNCHANGED cache
           ELSE Evict(k, t)
    /\ UNCHANGED <<target, outcome, cancelling, stale, doneAge,
                   closeVars, callerVars>>

\* A due expiry timer calls _evict(key, task); the loop forgets the timer.
Expire(t) ==
    /\ timer[t] = 0
    /\ IF Owns(target[t], t)
       THEN Evict(target[t], t)
       ELSE timer' = Disarmed(t) /\ UNCHANGED <<cache, age, expiry>>
    /\ UNCHANGED <<taskVars, closeVars, callerVars>>

\* The interpreter frees a task nobody refers to (its identity is reused).
Collect(t) ==
    /\ stage[t] = "settled"
    /\ timer[t] = None
    /\ \A k \in Keys : t \notin {cache[k], expiry[k]}
    /\ \A c \in Callers : joined[c] # t
    /\ t \notin awaited
    /\ stage' = [stage EXCEPT ![t] = "idle"]
    /\ target' = [target EXCEPT ![t] = None]
    /\ outcome' = [outcome EXCEPT ![t] = "none"]
    /\ doneAge' = [doneAge EXCEPT ![t] = 0]
    /\ cancelling' = cancelling \ {t}
    /\ stale' = stale \ {t}
    /\ UNCHANGED <<cacheVars, closeVars, callerVars>>

-----------------------------------------------------------------------------
(* close(), and time.                                                      *)

Undone == {t \in Tasks : stage[t] \in Pending /\ \E k \in Keys : cache[k] = t}

\* What follows the gather: take the client and start to close it.
TakeClient ==
    /\ closer' = IF http THEN "aclose" ELSE "closed"
    /\ http' = FALSE
    /\ stale' = stale \cup
                {t \in Tasks : http /\ stage[t] \in {"queued", "holding"}}
    /\ awaited' = {}

Close ==
    /\ closer \in {"open", "closed"}
    /\ cache' = [k \in Keys |-> None]
    /\ age' = [k \in Keys |-> 0]
    /\ timer' = [t \in Tasks |-> IF \E k \in Keys : expiry[k] = t
                                 THEN None ELSE timer[t]]
    /\ expiry' = [k \in Keys |-> None]
    /\ cancelling' = cancelling \cup Undone
    /\ IF Undone = {}
       THEN TakeClient
       ELSE awaited' = Undone /\ closer' = "gather" /\ UNCHANGED <<http, stale>>
    /\ reused' = FALSE
    /\ UNCHANGED <<stage, target, outcome, doneAge, callerVars>>

CloseGathered ==
    /\ closer = "gather"
    /\ \A t \in awaited : stage[t] = "settled"
    /\ TakeClient
    /\ UNCHANGED <<cacheVars, stage, target, outcome, cancelling, doneAge,
                   reused, callerVars>>

CloseDone ==
    /\ closer = "aclose"
    /\ closer' = "closed"
    /\ UNCHANGED <<cacheVars, taskVars, http, awaited, reused, callerVars>>

Older(n)  == IF n <= CacheTtl THEN n + 1 ELSE n
Sooner(n) == IF n = None \/ n = 0 THEN n ELSE n - 1

\* A tick outlasts a loop iteration, so no done callback is still to run.
Tick ==
    /\ \A t \in Tasks : stage[t] # "done"
    /\ age' = [k \in Keys |-> IF cache[k] = None THEN 0 ELSE Older(age[k])]
    /\ timer' = [t \in Tasks |-> Sooner(timer[t])]
    /\ doneAge' = [t \in Tasks |-> IF outcome[t] = "ok" THEN Older(doneAge[t])
                                   ELSE doneAge[t]]
    /\ UNCHANGED <<cache, expiry, stage, target, outcome, cancelling, stale,
                   closeVars, callerVars>>

-----------------------------------------------------------------------------

CallerStep(c) ==
    \/ \E k \in Keys : Join(c, k) \/ Hit(c, k) \/ Request(c, k)
    \/ Wake(c) \/ Abandon(c) \/ InvalidateGet(c)

TaskStep(t) ==
    \/ Start(t) \/ AcquireGlobal(t) \/ AcquireHost(t) \/ SendClosed(t)
    \/ Respond(t) \/ CancelTask(t) \/ Settle(t) \/ Expire(t) \/ Collect(t)

Next ==
    \/ \E c \in Callers : CallerStep(c)
    \/ \E t \in Tasks : TaskStep(t)
    \/ Close \/ CloseGathered \/ CloseDone
    \/ Tick

Spec == Init /\ [][Next]_vars

\* The loop runs what is ready, the venue or the client's timeout answers, a
\* semaphore serves its waiters in order, time passes.  No caller has to call.
Fairness ==
    /\ \A t \in Tasks :
        /\ WF_vars(Start(t)) /\ WF_vars(Respond(t)) /\ WF_vars(CancelTask(t))
        /\ WF_vars(Settle(t)) /\ WF_vars(Expire(t))
        /\ SF_vars(AcquireGlobal(t)) /\ SF_vars(AcquireHost(t) \/ SendClosed(t))
    /\ \A c \in Callers : WF_vars(Wake(c))
    /\ WF_vars(CloseGathered) /\ WF_vars(CloseDone)
    /\ SF_vars(Tick)

FairSpec == Spec /\ Fairness

-----------------------------------------------------------------------------
(* Properties.                                                             *)

\* A request that was not cancelled is cached under its key for as long as it
\* runs: no eviction by a failed waiter, an old timer, a rejection or a newer
\* call removes the entry of a running request, so a key never has two.
PendingCached ==
    \A t \in Tasks : stage[t] \in Pending /\ t \notin cancelling
                        => cache[target[t]] = t

\* Every timer the loop holds is the one _expiry has for its key, and belongs
\* to the good response cached there: no handle is lost by overwriting it, and
\* no timer survives the entry it was armed for.
TimerDiscipline ==
    /\ \A t \in Tasks : timer[t] # None =>
        /\ stage[t] = "settled" /\ outcome[t] = "ok"
        /\ expiry[target[t]] = t /\ cache[target[t]] = t
    /\ \A k \in Keys : expiry[k] # None => timer[expiry[k]] # None

\* Once its done callback ran, a response stays cached only with a timer that
\* will evict it, so unique (timestamped) keys never pile up.
RetentionBounded ==
    \A k \in Keys : cache[k] # None /\ stage[cache[k]] = "settled"
                        => timer[cache[k]] # None /\ outcome[cache[k]] = "ok"

\* Only close() cancels a shared request: a caller that gives up cancels its own
\* wait, and no other caller is cancelled for it.
OnlyCloseCancels ==
    (cancelling # {} \/ \E c \in Callers : status[c] = "cancelled")
        => closer # "open"

\* After a close() during which nobody called, nothing is left: no client, no
\* entry, no timer and no running request, also none of a task that was created
\* but had not run yet.
CleanShutdown ==
    closer = "closed" /\ ~reused =>
        /\ ~http
        /\ \A k \in Keys : cache[k] = None /\ expiry[k] = None
        /\ \A t \in Tasks : timer[t] = None /\ stage[t] \notin Pending

\* A call answered without waiting gets a response that finished at most
\* CacheTtl ago, even if its expiry timer is late.
FreshHits ==
    [][\A c \in Callers :
        /\ status[c] # "waiting" /\ status'[c] = "ok"
        /\ joined'[c] # joined[c]
        => doneAge[joined'[c]] <= CacheTtl]_vars

\* A good response that is settled and young leaves the cache only because its
\* timer is due, because the caller that rejects holds that very response, or
\* because close() drops everything.
ResponsesKept ==
    [][\A k \in Keys :
        LET t == cache[k]
        IN  t # None /\ cache'[k] # t =>
              \/ Close
              \/ stage[t] \in Finished /\
                    \/ outcome[t] # "ok" \/ age[k] > CacheTtl \/ timer[t] = 0
                    \/ CacheTtl = 0
                    \/ \E c \in Callers : joined[c] = t /\ status[c] = "ok"
                                            /\ status'[c] = "idle"]_vars

\* The requests as callers see them.
Run(t) ==
    CASE stage[t] \in Pending /\ t \notin cancelling -> "running"
      [] stage[t] \in Pending /\ t \in cancelling -> "doomed"
      [] stage[t] \in Finished -> Verdict[outcome[t]]
      [] OTHER -> "unused"

Promise == INSTANCE SharedRequests WITH
    Requests <- Tasks, MaxAge <- CacheTtl,
    run      <- [t \in Tasks |-> Run(t)],
    about    <- target,
    since    <- doneAge,
    told     <- {t \in Tasks : stage[t] = "settled"},
    offered  <- {t \in Tasks : \E k \in Keys : cache[k] = t},
    call     <- status,
    holds    <- joined

\* The cache of tasks, stamps, timers, callbacks and semaphores is what callers
\* may take it for: requests that are shared while they run, responses that are
\* served while they are young, and nothing else (transport.py:110-164).
AnswersShared == Promise!Spec

\* Every call returns, also when its request is queued behind others or is
\* cancelled by close().
EveryCallAnswered ==
    \A c \in Callers : status[c] = "waiting" ~> status[c] # "waiting"

\* A response nobody asks for again leaves the cache.
ResponsesExpire ==
    \A k \in Keys, t \in Tasks :
        cache[k] = t /\ stage[t] = "settled" ~> cache[k] # t

\* close() ends.
CloseTerminates == closer = "gather" ~> closer = "closed"

=============================================================================
