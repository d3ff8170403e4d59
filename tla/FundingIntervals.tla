--------------------------- MODULE FundingIntervals ---------------------------
(***************************************************************************)
(* Funding windows (src/perp_md/funding_values.py): how long the interval  *)
(* between two settlements is, when venues stamp settlements a few         *)
(* milliseconds off the second they belong to.  Timestamps are integers in *)
(* milliseconds, durations whole seconds.                                  *)
(***************************************************************************)
EXTENDS Integers

Second    == 1000
Tolerance == 5      \* _FUNDING_BOUNDARY_JITTER_TOLERANCE_MS

-----------------------------------------------------------------------------
(* The code's decisions.                                                   *)

\* _nominal_whole_second_boundary() raises for a timestamp that is not nominal.
Nominal(t) == t % Second <= Tolerance \/ Second - (t % Second) <= Tolerance

NominalBoundary(t) ==
    IF t % Second <= Tolerance THEN t - (t % Second) ELSE t + (Second - (t % Second))

Whole(ms) == ms % Second = 0

\* funding_window_duration_seconds() raises for windows that are not valid.
ValidWindow(start, end) ==
    /\ end > start
    /\ \/ Whole(end - start)
       \/ /\ Nominal(start) /\ Nominal(end)
          /\ NominalBoundary(end) > NominalBoundary(start)
          /\ Whole(NominalBoundary(end) - NominalBoundary(start))

Duration(start, end) ==
    IF Whole(end - start) THEN (end - start) \div Second
    ELSE (NominalBoundary(end) - NominalBoundary(start)) \div Second

\* preserve_observed_intervals(): a row after the first that has no interval of
\* its own gets the window since the row before it.
Observed(rows, i) ==
    i > 1 /\ rows[i].interval = "unspecified"
Preserved(rows) ==
    [i \in DOMAIN rows |->
        IF Observed(rows, i)
        THEN [rows[i] EXCEPT !.interval = <<rows[i - 1].time,
                                            Duration(rows[i - 1].time, rows[i].time)>>]
        ELSE rows[i]]
AllValid(rows) ==
    \A i \in DOMAIN rows : Observed(rows, i) => ValidWindow(rows[i - 1].time, rows[i].time)

=============================================================================
