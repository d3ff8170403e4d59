--------------------------- MODULE MCFundingHistory ---------------------------
(* Small instances of FundingHistory: all native adapters, and every kind of   *)
(* range that matters (none, without and with a start, closed in the past,     *)
(* reaching the present).                                                      *)
EXTENDS FundingHistory

Range(from, to) == [start |-> from, end |-> to]

MCAdapters  == DOMAIN Declared
MCRanges    == {None, Range(None, None), Range(1, None), Range(2, 3), Range(3, Horizon)}
MCBacklogs  == {{}, {2, 5}, {1, 2, 4, 5}, 1 .. 5}

=============================================================================
