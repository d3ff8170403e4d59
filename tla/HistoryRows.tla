----------------------------- MODULE HistoryRows -----------------------------
(* Rows of a venue's history, known by their times: what a page of a venue  *)
(* holds and what the range filter of an adapter keeps.                     *)
EXTENDS Integers, FiniteSets

\* The n newest, or oldest, of a set of times.
Newest(n, S) == {t \in S : Cardinality({u \in S : u > t}) < n}
Oldest(n, S) == {t \in S : Cardinality({u \in S : u < t}) < n}

Last(S)  == CHOOSE t \in S : \A u \in S : u <= t
First(S) == CHOOSE t \in S : \A u \in S : t <= u

\* A HistoryRange is inclusive at both ends; an end that is no time is open.
Within(t, from, to) == (from \notin Int \/ from <= t) /\ (to \notin Int \/ t <= to)
Between(S, from, to) == {t \in S : Within(t, from, to)}

=============================================================================
