----------------------------- MODULE LentClients -----------------------------
(***************************************************************************)
(* What CcxtAdapter (src/perp_md/adapters/ccxt.py) promises about its      *)
(* exchange clients: no catalogs, limits, timers, locks or counters, only  *)
(* who has which client.  A venue has at most one client on offer and at   *)
(* most one in preparation.  A fetch is lent what is on offer.  What is    *)
(* withdrawn is never lent again and is closed, once, when nobody has it   *)
(* any more: neither earlier nor never.                                    *)
(***************************************************************************)

CONSTANTS Venues, Clients, Fetches, None

VARIABLES
    preparing,  \* per venue: the client whose catalog is being loaded
    offered,    \* per venue: the client that fetches are lent
    lent,       \* what each fetch has
    retired,    \* withdrawn clients that somebody has
    closing     \* withdrawn clients that are being closed

vars == <<preparing, offered, lent, retired, closing>>

Init ==
    /\ preparing = [v \in Venues |-> None]
    /\ offered = [v \in Venues |-> None]
    /\ lent = [f \in Fetches |-> None]
    /\ retired = {} /\ closing = {}

InUse(e) == \E f \in Fetches : lent[f] = e

\* A new client is none that exists.
Fresh(e) ==
    /\ e \notin retired \cup closing
    /\ \A v \in Venues : e \notin {preparing[v], offered[v]}

\* The offers of the venues V are withdrawn.
Withdrawn(V) == {offered[v] : v \in V} \ {None}

Without(V) == [v \in Venues |-> IF v \in V THEN None ELSE offered[v]]

Discard(V) ==
    /\ retired' = retired \cup {e \in Withdrawn(V) : InUse(e)}
    /\ closing' = closing \cup {e \in Withdrawn(V) : ~InUse(e)}

-----------------------------------------------------------------------------

\* A client is made for a venue, whose offer ends if there is one.
Prepare(v, e) ==
    /\ preparing[v] = None
    /\ Fresh(e)
    /\ preparing' = [preparing EXCEPT ![v] = e]
    /\ offered' = Without({v})
    /\ Discard({v})
    /\ UNCHANGED lent

\* Its fetch failed or was cancelled, and has closed it.
Abandon(v) ==
    /\ preparing[v] # None
    /\ preparing' = [preparing EXCEPT ![v] = None]
    /\ UNCHANGED <<offered, lent, retired, closing>>

\* It is offered and perhaps lent at once; idle clients of other venues make room.
Offer(v, V) ==
    /\ preparing[v] # None
    /\ v \notin V /\ \A e \in Withdrawn(V) : ~InUse(e)
    /\ preparing' = [preparing EXCEPT ![v] = None]
    /\ offered' = [Without(V) EXCEPT ![v] = preparing[v]]
    /\ Discard(V)
    /\ \/ UNCHANGED lent
       \/ \E f \in Fetches : lent[f] = None /\ lent' = [lent EXCEPT ![f] = preparing[v]]

Lend(f, v) ==
    /\ lent[f] = None /\ offered[v] # None
    /\ lent' = [lent EXCEPT ![f] = offered[v]]
    /\ UNCHANGED <<preparing, offered, retired, closing>>

Withdraw(V) ==
    /\ offered' = Without(V)
    /\ Discard(V)
    /\ UNCHANGED <<preparing, lent>>

\* The last fetch that has a retired client gives it to be closed.
Return(f) ==
    LET e == lent[f]
        last == e \in retired /\ \A g \in Fetches \ {f} : lent[g] # e
    IN  /\ e # None
        /\ lent' = [lent EXCEPT ![f] = None]
        /\ retired' = IF last THEN retired \ {e} ELSE retired
        /\ closing' = IF last THEN closing \cup {e} ELSE closing
        /\ UNCHANGED <<preparing, offered>>

Closed(e) ==
    /\ e \in closing
    /\ closing' = closing \ {e}
    /\ UNCHANGED <<preparing, offered, lent, retired>>

-----------------------------------------------------------------------------

Next ==
    \/ \E v \in Venues, e \in Clients : Prepare(v, e)
    \/ \E v \in Venues : Abandon(v)
    \/ \E v \in Venues : \E V \in SUBSET Venues : Offer(v, V)
    \/ \E f \in Fetches, v \in Venues : Lend(f, v)
    \/ \E V \in SUBSET Venues : Withdraw(V)
    \/ \E f \in Fetches : Return(f)
    \/ \E e \in Clients : Closed(e)

Spec == Init /\ [][Next]_vars

=============================================================================
