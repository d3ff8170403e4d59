---------------------------- MODULE SharedRequests ----------------------------
(***************************************************************************)
(* What HttpxTransport (src/perp_md/transport.py) promises its callers: no *)
(* timers, stamps, semaphores or HTTP clients, only requests that callers  *)
(* share.  Of one key at most one request is offered.  A call shares the   *)
(* running request of its key or is served a young response; only when     *)
(* neither is offered does a request begin.  Nobody but close() dooms a    *)
(* request, and what is withdrawn is never offered again.                  *)
(***************************************************************************)
EXTENDS Naturals

CONSTANTS
    Keys,
    Requests,   \* identities of requests
    Callers,
    MaxAge,     \* how old a response may be served
    None

VARIABLES
    run,        \* how far each request is, or how it ended
    about,      \* the key it asks for
    since,      \* time since it succeeded
    told,       \* ended requests whose waiters resume
    offered,    \* requests that calls are answered by
    call,       \* what each caller's latest call is doing or has returned
    holds       \* the request a caller waits for, or whose response it has

vars == <<run, about, since, told, offered, call, holds>>

Ended == {"ok", "failed", "cancelled"}

Init ==
    /\ run = [r \in Requests |-> "unused"]
    /\ about = [r \in Requests |-> None]
    /\ since = [r \in Requests |-> 0]
    /\ told = {} /\ offered = {}
    /\ call = [c \in Callers |-> "idle"]
    /\ holds = [c \in Callers |-> None]

-----------------------------------------------------------------------------
(* Calls.                                                                  *)

\* The caller waits for r.
Waits(c, r) ==
    /\ call[c] # "waiting"
    /\ call' = [call EXCEPT ![c] = "waiting"]
    /\ holds' = [holds EXCEPT ![c] = r]

\* The caller gets what r ended with.  A failure may be withdrawn by then.
Gets(c, r) ==
    /\ call' = [call EXCEPT ![c] = run[r]]
    /\ holds' = [holds EXCEPT ![c] = IF run[r] = "ok" THEN r ELSE None]
    /\ offered' = offered \/ (run[r] = "failed" /\ offered' = offered \ {r})
    /\ UNCHANGED <<run, about, since, told>>

Share(c, r) ==
    /\ r \in offered /\ run[r] = "running"
    /\ Waits(c, r)
    /\ UNCHANGED <<run, about, since, told, offered>>

\* A young response; of a failure only while its waiters have not been told.
Serve(c, r) ==
    /\ call[c] # "waiting"
    /\ r \in offered /\ run[r] \in Ended
    /\ IF run[r] = "ok" THEN since[r] <= MaxAge ELSE r \notin told
    /\ Gets(c, r)

\* Nothing that runs and no young response is offered for k.
Begin(c, k, r) ==
    /\ run[r] = "unused"
    /\ \A q \in offered : about[q] = k =>
           run[q] \in Ended /\ (q \in told => since[q] > MaxAge)
    /\ Waits(c, r)
    /\ run' = [run EXCEPT ![r] = "running"]
    /\ about' = [about EXCEPT ![r] = k]
    /\ offered' = {q \in offered : about[q] # k} \cup {r}
    /\ UNCHANGED <<since, told>>

Wake(c) ==
    /\ call[c] = "waiting"
    /\ holds[c] \in told
    /\ Gets(c, holds[c])

GiveUp(c) ==
    /\ call[c] = "waiting"
    /\ call' = [call EXCEPT ![c] = "idle"]
    /\ holds' = [holds EXCEPT ![c] = None]
    /\ UNCHANGED <<run, about, since, told, offered>>

\* The caller discards the very response it has.
Reject(c) ==
    /\ call[c] = "ok"
    /\ call' = [call EXCEPT ![c] = "idle"]
    /\ holds' = [holds EXCEPT ![c] = None]
    /\ offered' = offered \ {holds[c]}
    /\ UNCHANGED <<run, about, since, told>>

-----------------------------------------------------------------------------
(* Requests, time and close().                                             *)

End(r) ==
    /\ \/ run[r] = "running" /\ \E o \in {"ok", "failed"} : run' = [run EXCEPT ![r] = o]
       \/ run[r] = "doomed" /\ run' = [run EXCEPT ![r] = "cancelled"]
    /\ since' = [since EXCEPT ![r] = 0]
    /\ UNCHANGED <<about, told, offered, call, holds>>

\* The waiters are told; a response stays on offer, a failure does not.
Tell(r) ==
    /\ run[r] \in Ended /\ r \notin told
    /\ told' = told \cup {r}
    /\ offered' = IF run[r] = "ok" /\ MaxAge # 0 THEN offered ELSE offered \ {r}
    /\ UNCHANGED <<run, about, since, call, holds>>

Withdraw(r) ==
    /\ r \in told /\ since[r] >= MaxAge
    /\ offered' = offered \ {r}
    /\ UNCHANGED <<run, about, since, told, call, holds>>

Shut ==
    /\ run' = [r \in Requests |-> IF run[r] = "running" THEN "doomed" ELSE run[r]]
    /\ offered' = {}
    /\ UNCHANGED <<about, since, told, call, holds>>

Pass ==
    /\ \A r \in Requests : run[r] \in Ended => r \in told
    /\ since' = [r \in Requests |->
                    IF run[r] = "ok" /\ since[r] <= MaxAge THEN since[r] + 1 ELSE since[r]]
    /\ UNCHANGED <<run, about, told, offered, call, holds>>

\* A request nobody has and nobody is offered is forgotten.
Forget(r) ==
    /\ r \in told /\ r \notin offered
    /\ \A c \in Callers : holds[c] # r
    /\ run' = [run EXCEPT ![r] = "unused"]
    /\ about' = [about EXCEPT ![r] = None]
    /\ since' = [since EXCEPT ![r] = 0]
    /\ told' = told \ {r}
    /\ UNCHANGED <<offered, call, holds>>

-----------------------------------------------------------------------------

CallStep(c) ==
    \/ \E r \in Requests : Share(c, r) \/ Serve(c, r) \/ \E k \in Keys : Begin(c, k, r)
    \/ Wake(c) \/ GiveUp(c) \/ Reject(c)

Next ==
    \/ \E c \in Callers : CallStep(c)
    \/ \E r \in Requests : End(r) \/ Tell(r) \/ Withdraw(r) \/ Forget(r)
    \/ Shut \/ Pass

Spec == Init /\ [][Next]_vars

-----------------------------------------------------------------------------
(* Properties                                                              *)

\* Of one key one request runs at a time, unless close() doomed the others.
OneRunning ==
    \A q, r \in Requests :
        run[q] = "running" /\ run[r] = "running" /\ about[q] = about[r] => q = r

=============================================================================
