---------------------------- MODULE PacedRequests ----------------------------
(***************************************************************************)
(* RequestPacer (src/perp_md/pacing.py) as the Deepcoin funding history    *)
(* uses it: each page is an operation that awaits one transport request.   *)
(*                                                                         *)
(* The pacer's lock serialises operations; its holder sleeps until the     *)
(* interval since the last completion has passed.  The transport shields   *)
(* its requests, so an operation that is cancelled ends at once while its  *)
(* request goes on.                                                        *)
(***************************************************************************)
EXTENDS Naturals, FiniteSets

CONSTANTS
    Calls,     \* page requests, reused once their HTTP request has ended
    Interval   \* interval_seconds, in ticks

ASSUME IntervalAssumption == Interval \in Nat \ {0}

VARIABLES
    pc,    \* where each call is
    left,  \* what is left of the lock holder's sleep
    last,  \* time since _last_completion; it stops at Interval, also before any
    sent,  \* calls whose HTTP request is in flight
    gap    \* ghost: time since an operation ended in whatever way, likewise

vars == <<pc, left, last, sent, gap>>

TypeOK ==
    /\ pc \in [Calls -> {"idle", "lock", "sleep", "run"}]
    /\ left \in 0 .. Interval
    /\ last \in 0 .. Interval
    /\ sent \in SUBSET Calls
    /\ gap \in 0 .. Interval

Init ==
    /\ pc = [c \in Calls |-> "idle"]
    /\ left = 0
    /\ last = Interval
    /\ sent = {}
    /\ gap = Interval

-----------------------------------------------------------------------------
(* Faulty variants of operators below.  No action uses them: each stands   *)
(* for a bug that one of the properties has to notice.                     *)

CompletedOnSuccess(ok) == IF ok THEN 0 ELSE last   \* no finally clause
RemainingAdded         == Interval + last
RemainingWhole         == IF last < Interval THEN Interval ELSE 0
LockHeldByWaiters      == \A c \in Calls : pc[c] = "idle"

-----------------------------------------------------------------------------

Goto(c, where) == pc' = [pc EXCEPT ![c] = where]
LockFree       == \A c \in Calls : pc[c] \notin {"sleep", "run"}
Remaining      == Interval - last

Ask(c) ==
    /\ pc[c] = "idle" /\ c \notin sent
    /\ Goto(c, "lock")
    /\ UNCHANGED <<left, last, sent, gap>>

\* The call gets the lock and has to wait out the interval first.
Sleep(c) ==
    /\ pc[c] = "lock" /\ LockFree
    /\ Remaining > 0
    /\ Goto(c, "sleep")
    /\ left' = Remaining
    /\ UNCHANGED <<last, sent, gap>>

\* The call gets the lock, or has slept, and sends its request.
Run(c) ==
    /\ \/ pc[c] = "lock" /\ LockFree /\ Remaining = 0
       \/ pc[c] = "sleep" /\ left = 0
    /\ Goto(c, "run")
    /\ sent' = sent \cup {c}
    /\ UNCHANGED <<left, last, gap>>

Completed(ok) == 0   \* the finally clause stamps every end

\* The HTTP request ends; the operation that awaits it returns or raises.
Respond(c) ==
    /\ c \in sent
    /\ sent' = sent \ {c}
    /\ IF pc[c] = "run"
       THEN /\ Goto(c, "idle")
            /\ \E ok \in BOOLEAN : last' = Completed(ok)
            /\ gap' = 0
       ELSE UNCHANGED <<pc, last, gap>>
    /\ UNCHANGED left

\* The call is cancelled; a request it has sent is shielded and goes on.
Cancel(c) ==
    /\ pc[c] # "idle"
    /\ Goto(c, "idle")
    /\ IF pc[c] = "run"
       THEN last' = Completed(FALSE) /\ gap' = 0
       ELSE UNCHANGED <<last, gap>>
    /\ left' = IF pc[c] = "sleep" THEN 0 ELSE left
    /\ UNCHANGED sent

Older(n) == IF n < Interval THEN n + 1 ELSE n

Tick ==
    /\ left' = IF left > 0 THEN left - 1 ELSE 0
    /\ last' = Older(last)
    /\ gap' = Older(gap)
    /\ UNCHANGED <<pc, sent>>

Next ==
    \/ \E c \in Calls : Ask(c) \/ Sleep(c) \/ Run(c) \/ Respond(c) \/ Cancel(c)
    \/ Tick

Spec == Init /\ [][Next]_vars

\* Time passes, requests end, and asyncio.Lock serves its waiters in order.
Fairness ==
    /\ WF_vars(Tick)
    /\ \A c \in Calls : WF_vars(Respond(c)) /\ SF_vars(Sleep(c) \/ Run(c))

FairSpec == Spec /\ Fairness

-----------------------------------------------------------------------------
(* Properties.                                                             *)

\* A request is sent only when Interval has passed since the last operation
\* ended, also when that one failed or was cancelled, in its sleep or running.
Spaced ==
    [][\A c \in Calls : c \in sent' \ sent => gap = Interval]_vars

\* A sleeper never waits longer than the rest of the interval: a call that was
\* cancelled in its sleep does not start the wait anew for the next one.
SleepIsRemainder == \A c \in Calls : pc[c] = "sleep" => left + gap = Interval

\* Every call that waits for the lock gets to run or gives up.
CallsRun == \A c \in Calls : pc[c] = "lock" ~> pc[c] \in {"run", "idle"}

\* CONTRACT.md:115-116: "the adapter serializes concurrent page requests".
RequestsSerialized == Cardinality(sent) <= 1

=============================================================================
