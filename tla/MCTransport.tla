----------------------------- MODULE MCTransport -----------------------------
(* Small instances of Transport: every key goes to one host.               *)
EXTENDS Transport, TLC

CONSTANT host

MCHosts  == {host}
MCHostOf == [k \in Keys |-> host]

Symmetry ==
    Permutations(Tasks) \cup Permutations(Callers) \cup Permutations(Keys)

=============================================================================
