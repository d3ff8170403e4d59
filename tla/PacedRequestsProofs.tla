------------------------ MODULE PacedRequestsProofs ------------------------
(* Theorems about PacedRequests, for any calls and interval.                *)
EXTENDS PacedRequests, TLAPS

\* The clock the code keeps is the time since the last operation ended, and the
\* lock has one holder at most: a sleeper and a running call exclude each other,
\* so nobody ends an operation, and resets the clock, while a call sleeps.
OneHolder ==
    \A c, d \in Calls : pc[c] \in {"sleep", "run"} /\ pc[d] \in {"sleep", "run"}
                            => c = d

PacingInv == TypeOK /\ last = gap /\ OneHolder /\ SleepIsRemainder

\* Every step keeps the pacing invariant.
LEMMA PacingInvNext ==
    ASSUME PacingInv, [Next]_vars
    PROVE  PacingInv'
<1> USE IntervalAssumption DEF PacingInv, TypeOK, OneHolder, SleepIsRemainder, Goto
<1>1. ASSUME NEW c \in Calls, Ask(c)  PROVE PacingInv'
  BY <1>1 DEF Ask
<1>2. ASSUME NEW c \in Calls, Sleep(c)  PROVE PacingInv'
  BY <1>2 DEF Sleep, LockFree, Remaining
<1>3. ASSUME NEW c \in Calls, Run(c)  PROVE PacingInv'
  BY <1>3 DEF Run, LockFree, Remaining
<1>4. ASSUME NEW c \in Calls, Respond(c)  PROVE PacingInv'
  BY <1>4 DEF Respond, Completed
<1>5. ASSUME NEW c \in Calls, Cancel(c)  PROVE PacingInv'
  BY <1>5 DEF Cancel, Completed
<1>6. CASE Tick
  BY <1>6 DEF Tick, Older
<1>7. CASE UNCHANGED vars
  BY <1>7 DEF vars
<1> QED
  BY <1>1, <1>2, <1>3, <1>4, <1>5, <1>6, <1>7 DEF Next

\* request() has one holder of its lock, keeps the time since the last operation
\* ended, and lets the holder sleep exactly the remainder of the interval.
THEOREM PacingInvariant == Spec => []PacingInv
<1>1. Init => PacingInv
  BY IntervalAssumption DEF Init, PacingInv, TypeOK, OneHolder, SleepIsRemainder
<1> QED
  BY <1>1, PacingInvNext, PTL DEF Spec

\* The clocks saturate at the interval and the sleep never exceeds it.
THEOREM PacerTypeCorrect == Spec => []TypeOK
  BY PacingInvariant, PTL DEF PacingInv

\* The sleep of request() never restarts: it is what is left of the interval.
THEOREM SleepsAreRemainders == Spec => []SleepIsRemainder
  BY PacingInvariant, PTL DEF PacingInv

\* A request is never sent before Interval has passed since the last operation
\* ended, whatever failed or was cancelled before.
THEOREM RequestsAreSpaced == Spec => Spaced
<1>1. PacingInv /\ [Next]_vars =>
        [\A c \in Calls : c \in sent' \ sent => gap = Interval]_vars
  <2> SUFFICES ASSUME PacingInv, Next, NEW c \in Calls, c \in sent' \ sent
               PROVE  gap = Interval
    BY DEF vars
  <2>1. PICK d \in Calls : Run(d)
    BY DEF Next, Ask, Sleep, Respond, Cancel, Tick
  <2> QED
    BY <2>1, IntervalAssumption
    DEF Run, Goto, Remaining, PacingInv, TypeOK, SleepIsRemainder
<1> QED
  BY <1>1, PacingInvariant, PTL DEF Spec, Spaced

=============================================================================
