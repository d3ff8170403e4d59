------------------------------ MODULE ResumeTime ------------------------------
(***************************************************************************)
(* find_resume_time (src/perp_md/history.py): from where a caller that has *)
(* stored some rows of a series has to ask for more.  Rows are the times   *)
(* stored, in any order and with repetitions, so they are a set; a floor   *)
(* is the oldest time the caller wants, and rows of the series are an      *)
(* interval apart unless some are missing.                                 *)
(***************************************************************************)
EXTENDS HistoryRows

Ordered(rows, floor) == {t \in rows : t >= floor}

\* Rows that a later row follows by more than an interval.
BeforeGap(S, interval) ==
    {t \in S : /\ \E u \in S : t < u
               /\ \A u \in S : t < u => u - t > interval}

\* The leading gap, the first gap between two rows, or the newest row.
ResumeTime(rows, floor, interval) ==
    LET S == Ordered(rows, floor) IN
    IF S = {} \/ First(S) - floor > interval THEN floor
    ELSE IF BeforeGap(S, interval) # {} THEN First(BeforeGap(S, interval))
    ELSE Last(S)

-----------------------------------------------------------------------------
(* A caller that keeps the rows up to the time returned and asks for those  *)
(* after it misses nothing and repeats as little as possible.              *)

\* Between the floor and the time returned no interval is empty: after every
\* row, and after the floor, another row comes within an interval.
Gapless(S, floor, interval, resume) ==
    \A t \in S \cup {floor} : t < resume =>
        \E u \in S : t < u /\ u - t <= interval /\ u <= resume

\* The time returned is the newest row, or a gap follows it.
GapFollows(S, interval, resume) ==
    \A u \in S : u > resume => u - resume > interval

=============================================================================
