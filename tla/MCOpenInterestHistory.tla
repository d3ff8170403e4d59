------------------------ MODULE MCOpenInterestHistory ------------------------
(* Small instances of OpenInterestHistory: all adapters, and every kind of   *)
(* range that matters (none, open, closed in the past, reaching the present, *)
(* reaching back before the retention, and beyond the present).              *)
EXTENDS OpenInterestHistory

Range(from_, to) == [start |-> from_, end |-> to]

MCAdapters == DOMAIN Declared
MCRanges   == {Always, Range(0, None), Range(2, 3), Range(2, Horizon),
               Range(Horizon, Horizon)}
MCBacklogs == {{}, {1, 2, 4}, {0, 2, 3, 4}, 0 .. 4}

=============================================================================
