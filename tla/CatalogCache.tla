---------------------------- MODULE CatalogCache ----------------------------
(***************************************************************************)
(* CcxtAdapter (src/perp_md/adapters/ccxt.py): one exchange client per     *)
(* venue, holding the venue's market catalog, shared by the fetches that   *)
(* need it.                                                                *)
(*                                                                         *)
(* A fetch takes the venue's lock, resolves its instrument in the cached   *)
(* catalog or loads a new one, then borrows the client until it is done.   *)
(* Catalogs leave the cache by expiry, by a refresh, by the retention      *)
(* limits and by close(); a client still borrowed then is retired and      *)
(* closed by its last borrower.  Some fetches first wait for the client's  *)
(* probe of the runtime, and may arrive here after close().                *)
(*                                                                         *)
(* One action is one uninterrupted run of the event loop.  Whether an      *)
(* instrument resolves is the input "found".  Retry cooldown and its timer *)
(* end at the same tick and are one countdown.                             *)
(***************************************************************************)
EXTENDS Naturals, FiniteSets

CONSTANTS
    Venues,
    Exchanges,    \* identities of exchange clients, reused once closed
    Callers,      \* fetches in progress
    Sizes,        \* what _catalog_bytes may return
    MaxEntries,   \* catalog_max_entries
    MaxBytes,     \* catalog_max_bytes
    MaxLoads,     \* capacity of the _loads semaphore
    Ttl,          \* catalog_ttl_seconds, in ticks
    MissRefresh,  \* catalog_miss_refresh_seconds, in ticks
    None

ASSUME LimitsAssumption ==
    /\ {MaxEntries, MaxBytes, MaxLoads, Ttl, MissRefresh} \subseteq Nat \ {0}
    /\ Sizes \subseteq Nat
    /\ None \notin Exchanges \cup Venues
    /\ IsFiniteSet(Venues) /\ IsFiniteSet(Callers)

VARIABLES
    catalog,   \* per venue: exchanges, _catalog_sizes, time since _loaded_at; an
               \* entry's expiry timer is armed, due and cancelled with the entry
    older,     \* per venue with a catalog: the venues whose catalog is older,
               \* which is how the dictionary of catalogs is ordered
    soon,      \* clients whose discard is scheduled with call_soon
    users,     \* _users
    retired,   \* _retired
    closing,   \* clients with a task in _closing
    open,      \* clients constructed and not closed yet
    cooldown,  \* ticks left of _retry_after[venue]
    pc,        \* where each fetch is
    at,        \* the venue each fetch asks for
    client,    \* the client each fetch loads, closes or borrows
    closer,    \* where close() is
    awaited,   \* the closings close() gathers
    since,     \* ghost: time since a load of the venue ended; stops at MissRefresh
    dropped    \* ghost: venues whose last catalog fell to a limit or to close()

catalogVars == <<catalog, older, retired, closing>>
callVars    == <<pc, at, client, users>>
closeVars   == <<closer, awaited>>
ghostVars   == <<since, dropped>>
vars == <<catalogVars, soon, open, cooldown, callVars, closeVars, ghostVars>>

-----------------------------------------------------------------------------

Loading == {"wait", "load", "closefail", "closecancel"}   \* holding the lock
Entries == [client : Exchanges, bytes : Sizes, age : 0 .. Ttl]

ASSUME EntriesAssumption == None \notin Entries

\* The cached catalogs have a total order, in which the others have no place.
AgeOrder ==
    /\ \A u, v \in Venues : u \in older[v] => catalog[u] # None /\ catalog[v] # None
    /\ \A u, v \in Venues :
           catalog[u] # None /\ catalog[v] # None /\ u # v
           => (u \in older[v] <=> v \notin older[u])
    /\ \A v \in Venues : v \notin older[v] /\ \A u \in older[v] : older[u] \subseteq older[v]

TypeOK ==
    /\ catalog \in [Venues -> Entries \cup {None}]
    /\ older \in [Venues -> SUBSET Venues] /\ AgeOrder
    /\ {soon, retired, closing, open, awaited} \subseteq SUBSET Exchanges
    /\ users \in [Exchanges -> Nat]
    /\ cooldown \in [Venues -> 0 .. MissRefresh]
    /\ pc \in [Callers -> {"idle", "probe", "lock", "use"} \cup Loading]
    /\ at \in [Callers -> Venues \cup {None}]
    /\ client \in [Callers -> Exchanges \cup {None}]
    /\ closer \in {"open", "gather", "closed"}
    /\ since \in [Venues -> 0 .. MissRefresh]
    /\ dropped \in SUBSET Venues

Init ==
    /\ catalog = [v \in Venues |-> None]
    /\ older = [v \in Venues |-> {}]
    /\ soon = {} /\ retired = {} /\ closing = {} /\ open = {}
    /\ users = [e \in Exchanges |-> 0]
    /\ cooldown = [v \in Venues |-> 0]
    /\ pc = [c \in Callers |-> "idle"]
    /\ at = [c \in Callers |-> None]
    /\ client = [c \in Callers |-> None]
    /\ closer = "open" /\ awaited = {}
    /\ since = [v \in Venues |-> MissRefresh] /\ dropped = {}

-----------------------------------------------------------------------------
(* Faulty variants of operators below.  No action uses them: each stands   *)
(* for a bug that one of the properties has to notice.                     *)

BorrowedTwice(e)     == users[e] > 1
LastBorrowerNever(e) == users[e] = 0
OneUser(e)           == [users EXCEPT ![e] = 1]
WithoutNothing(old, D) == old
WithinOneMore(S, cat) ==
    /\ Cardinality(S) <= MaxEntries + 1
    /\ Cardinality(UNION {{v} \X (1 .. cat[v].bytes) : v \in S}) <= MaxBytes
CoolingDownNever(v)  == FALSE
LoadSlotLost         == Cardinality({d \in Callers : pc[d] = "load"}) < MaxLoads - 1
DueTooLate(v)        == catalog[v].age > Ttl

-----------------------------------------------------------------------------
(* _discard_catalog() and _retain_catalog().                               *)

Borrowed(e)     == users[e] > 0
LastBorrower(e) == users[e] = 1
OneMoreUser(e)  == [users EXCEPT ![e] = @ + 1]
Held(cat)       == {v \in Venues : cat[v] # None}
Without(old, D) == [v \in Venues |-> IF v \in D THEN {} ELSE old[v] \ D]

\* Of the catalogs cat, in the order old, discard those of the venues D.
Discard(D, cat, old) ==
    LET gone == {cat[v].client : v \in D \cap Held(cat)}
    IN  /\ catalog' = [v \in Venues |-> IF v \in D THEN None ELSE cat[v]]
        /\ older' = Without(old, D)
        /\ retired' = retired \cup {e \in gone : Borrowed(e)}
        /\ closing' = closing \cup {e \in gone : ~Borrowed(e)}

DiscardCached(D) == Discard(D, catalog, older)

\* The sum of the sizes of the catalogs of S, as the size of their disjoint union.
TotalBytes(S, cat) == Cardinality(UNION {{v} \X (1 .. cat[v].bytes) : v \in S})

Within(S, cat) == Cardinality(S) <= MaxEntries /\ TotalBytes(S, cat) <= MaxBytes

\* An idle catalog goes when the limits do not hold after all older idle ones went.
\* The new one is never among them, but is discarded soon if the limits still do
\* not hold.
Retain(v, e, bytes) ==
    LET cat  == [catalog EXCEPT ![v] = [client |-> e, bytes |-> bytes, age |-> 0]]
        old  == [older EXCEPT ![v] = Held(catalog)]
        idle == {u \in Held(cat) \ {v} : ~Borrowed(cat[u].client)}
        gone == {u \in idle : ~Within(Held(cat) \ (idle \cap old[u]), cat)}
        over == IF Within(Held(cat) \ gone, cat) THEN {} ELSE {v}
    IN  /\ Discard(gone, cat, old)
        /\ soon' = IF over = {} THEN soon ELSE soon \cup {e}
        /\ dropped' = (dropped \ {v}) \cup gone \cup over

-----------------------------------------------------------------------------
(* fetch() and _market().                                                  *)

Goto(c, where) == pc' = [pc EXCEPT ![c] = where]

Leave(c) ==
    /\ Goto(c, "idle")
    /\ at' = [at EXCEPT ![c] = None]
    /\ client' = [client EXCEPT ![c] = None]

Borrow(c, e) ==
    /\ Goto(c, "use")
    /\ client' = [client EXCEPT ![c] = e]
    /\ users' = OneMoreUser(e)
    /\ UNCHANGED at

\* The clients refuse new calls once close() was called (client.py).  A call by
\* reference may first wait for a probe of the venue's features.
Call(c, v) ==
    /\ pc[c] = "idle" /\ closer = "open"
    /\ \E stage \in {"probe", "lock"} : Goto(c, stage)
    /\ at' = [at EXCEPT ![c] = v]
    /\ UNCHANGED <<catalogVars, soon, users, open, cooldown, client,
                   closeVars, ghostVars>>

\* The probe has ended and the features suffice.  Nothing asks again whether the
\* client was closed meanwhile.
Arrive(c) ==
    /\ pc[c] = "probe"
    /\ Goto(c, "lock")
    /\ UNCHANGED <<catalogVars, soon, users, open, cooldown, at, client,
                   closeVars, ghostVars>>

HasLock(c) ==
    pc[c] = "lock" /\ ~\E d \in Callers : at[d] = at[c] /\ pc[d] \in Loading

\* The cached catalog resolves the instrument.
LookupHit(c) ==
    /\ HasLock(c)
    /\ catalog[at[c]] # None
    /\ Borrow(c, catalog[at[c]].client)
    /\ UNCHANGED <<catalogVars, soon, open, cooldown, closeVars, ghostVars>>

Aged(v) == catalog[v].age >= MissRefresh

\* It does not, and is too young to be refreshed: DataUnavailable.
LookupMiss(c) ==
    /\ HasLock(c)
    /\ catalog[at[c]] # None /\ ~Aged(at[c])
    /\ Leave(c)
    /\ UNCHANGED <<catalogVars, soon, users, open, cooldown,
                   closeVars, ghostVars>>

NeedsLoad(c) ==
    /\ HasLock(c)
    /\ catalog[at[c]] # None => Aged(at[c])
    /\ DiscardCached({at[c]})
    /\ UNCHANGED <<soon, users, closeVars, ghostVars>>

CoolingDown(v) == cooldown[v] > 0

Refuse(c) ==
    /\ NeedsLoad(c)
    /\ CoolingDown(at[c])
    /\ Leave(c)
    /\ UNCHANGED <<open, cooldown>>

Construct(c) ==
    /\ NeedsLoad(c)
    /\ ~CoolingDown(at[c])
    /\ \E e \in Exchanges \ (open \cup soon) :
        /\ open' = open \cup {e}
        /\ client' = [client EXCEPT ![c] = e]
    /\ Goto(c, "wait")
    /\ UNCHANGED <<at, cooldown>>

LoadSlotFree == Cardinality({d \in Callers : pc[d] = "load"}) < MaxLoads

StartLoad(c) ==
    /\ pc[c] = "wait"
    /\ LoadSlotFree
    /\ Goto(c, "load")
    /\ UNCHANGED <<catalogVars, soon, open, cooldown, at, client, users,
                   closeVars, ghostVars>>

\* The catalog is retained, then the instrument resolves in it or does not.
Loaded(c) ==
    /\ pc[c] = "load"
    /\ \E bytes \in Sizes : Retain(at[c], client[c], bytes)
    /\ \/ Borrow(c, client[c])
       \/ Leave(c) /\ UNCHANGED users
    /\ since' = [since EXCEPT ![at[c]] = 0]
    /\ UNCHANGED <<open, cooldown, closeVars>>

LoadFailed(c) ==
    /\ pc[c] = "load"
    /\ Goto(c, "closefail")
    /\ UNCHANGED <<catalogVars, soon, open, cooldown, at, client, users,
                   closeVars, ghostVars>>

\* The failed client is closed, then the venue cools down; no cooldown starts
\* when closing it raises.
FailedClosed(c) ==
    /\ pc[c] = "closefail"
    /\ open' = open \ {client[c]}
    /\ \/ /\ cooldown' = [cooldown EXCEPT ![at[c]] = MissRefresh]
          /\ since' = [since EXCEPT ![at[c]] = 0]
          /\ dropped' = dropped \ {at[c]}
       \/ UNCHANGED <<cooldown, ghostVars>>
    /\ Leave(c)
    /\ UNCHANGED <<catalogVars, soon, users, closeVars>>

CancelledClosed(c) ==
    /\ pc[c] = "closecancel"
    /\ open' = open \ {client[c]}
    /\ Leave(c)
    /\ UNCHANGED <<catalogVars, soon, users, cooldown, closeVars, ghostVars>>

\* _release_market(), in the finally of a fetch that ends in whatever way.
Release(c) ==
    LET e == client[c]
        last == LastBorrower(e)
    IN  /\ pc[c] = "use"
        /\ users' = [users EXCEPT ![e] = @ - 1]
        /\ retired' = IF last THEN retired \ {e} ELSE retired
        /\ closing' = IF last THEN closing \cup (retired \cap {e}) ELSE closing
        /\ Leave(c)
        /\ UNCHANGED <<catalog, older, soon, open, cooldown,
                       closeVars, ghostVars>>

\* The fetch is cancelled while it waits (a borrower then does Release), or refused
\* after its probe.  A second cancellation interrupts the closing, which counts as
\* done.
Cancel(c) ==
    /\ \/ pc[c] \in {"probe", "lock"} /\ Leave(c) /\ UNCHANGED open
       \/ pc[c] \in {"wait", "load"} /\ Goto(c, "closecancel")
            /\ UNCHANGED <<at, client, open>>
       \/ pc[c] \in {"closefail", "closecancel"} /\ Leave(c)
            /\ open' = open \ {client[c]}
    /\ UNCHANGED <<catalogVars, soon, users, cooldown, closeVars, ghostVars>>

-----------------------------------------------------------------------------
(* Timers, scheduled callbacks, close().                                   *)

Due(v) == catalog[v].age >= Ttl

\* The expiry timer of a catalog calls _discard_catalog.
Expire(v) ==
    /\ catalog[v] # None /\ Due(v)
    /\ DiscardCached({v})
    /\ UNCHANGED <<soon, open, cooldown, callVars, closeVars, ghostVars>>

\* The discard that _retain_catalog scheduled, if the client is still cached.
DropOversized(e) ==
    /\ e \in soon
    /\ soon' = soon \ {e}
    /\ DiscardCached({v \in Held(catalog) : catalog[v].client = e})
    /\ UNCHANGED <<open, cooldown, callVars, closeVars, ghostVars>>

\* A task of _close_exchange() ends, whether closing the client raised or not.
Closed(e) ==
    /\ e \in closing
    /\ closing' = closing \ {e}
    /\ open' = open \ {e}
    /\ awaited' = awaited \ {e}
    /\ UNCHANGED <<catalog, older, retired, soon, cooldown,
                   callVars, closer, ghostVars>>

Close ==
    /\ closer = "open"
    /\ closer' = "gather"
    /\ cooldown' = [v \in Venues |-> 0]
    /\ DiscardCached(Venues)
    /\ awaited' = closing'
    /\ dropped' = Venues
    /\ UNCHANGED <<soon, open, callVars, since>>

CloseGathered ==
    /\ closer = "gather" /\ awaited = {}
    /\ closer' = "closed"
    /\ UNCHANGED <<catalogVars, soon, open, cooldown, callVars, awaited,
                   ghostVars>>

Tick ==
    /\ soon = {}
    /\ catalog' = [v \in Venues |-> IF v \in Held(catalog) /\ catalog[v].age < Ttl
                                     THEN [catalog[v] EXCEPT !.age = @ + 1]
                                     ELSE catalog[v]]
    /\ cooldown' = [v \in Venues |-> IF cooldown[v] > 0 THEN cooldown[v] - 1 ELSE 0]
    /\ since' = [v \in Venues |-> IF since[v] < MissRefresh
                                  THEN since[v] + 1 ELSE since[v]]
    /\ UNCHANGED <<older, retired, closing, soon, open, callVars, closeVars, dropped>>

-----------------------------------------------------------------------------

CallerStep(c) ==
    \/ \E v \in Venues : Call(c, v)
    \/ Arrive(c) \/ LookupHit(c) \/ LookupMiss(c) \/ Refuse(c) \/ Construct(c)
    \/ StartLoad(c) \/ Loaded(c) \/ LoadFailed(c) \/ FailedClosed(c) \/ CancelledClosed(c)
    \/ Release(c) \/ Cancel(c)

Next ==
    \/ \E c \in Callers : CallerStep(c)
    \/ \E v \in Venues : Expire(v)
    \/ \E e \in Exchanges : DropOversized(e) \/ Closed(e)
    \/ Close \/ CloseGathered
    \/ Tick

Spec == Init /\ [][Next]_vars

\* Probes, requests, loads and closings end (the provider or a timeout answers), the
\* loop runs what is scheduled, asyncio's locks and semaphores serve in order.
Fairness ==
    /\ \A c \in Callers :
        /\ WF_vars(Arrive(c))
        /\ SF_vars(LookupHit(c) \/ LookupMiss(c) \/ Refuse(c) \/ Construct(c)
                     \/ StartLoad(c))
        /\ WF_vars(Loaded(c) \/ LoadFailed(c) \/ FailedClosed(c)
                     \/ CancelledClosed(c) \/ Release(c))
    /\ \A v \in Venues : WF_vars(Expire(v))
    /\ \A e \in Exchanges : WF_vars(DropOversized(e)) /\ WF_vars(Closed(e))
    /\ WF_vars(CloseGathered)
    /\ SF_vars(Tick)

FairSpec == Spec /\ Fairness

-----------------------------------------------------------------------------
(* Properties.                                                             *)

Clients == {catalog[v].client : v \in Held(catalog)}

\* A client that a fetch works with is open and no closing of it has begun,
\* whatever expiry, refresh, limits or close() discarded it meanwhile.
InUseStaysOpen ==
    \A c \in Callers : pc[c] = "use" => client[c] \in open \ closing

\* Every open client has something that will close it: the expiry timer of its
\* one cache entry, its last borrower, its closing task or the fetch that loads it.
NoOrphan ==
    \A e \in open :
        \/ e \in Clients /\ e \notin retired \cup closing
        \/ e \in retired \ closing /\ \E c \in Callers : pc[c] = "use" /\ client[c] = e
        \/ e \in closing
        \/ \E c \in Callers : pc[c] \in Loading /\ client[c] = e

\* _users counts the fetches that work with a client.
UsersCounted ==
    \A e \in Exchanges :
        users[e] = Cardinality({c \in Callers : pc[c] = "use" /\ client[c] = e})

\* When no scheduled discard is left to run, the retained catalogs are within
\* both limits, also while borrowed catalogs cannot be evicted.
RetentionBounded ==
    soon = {} =>
        /\ Cardinality(Held(catalog)) <= MaxEntries
        /\ TotalBytes(Held(catalog), catalog) <= MaxBytes

\* A venue's catalog is loaded again only MissRefresh after its last load ended in a
\* catalog or in a cooldown, unless a limit or close() took the catalog away.  A load
\* that is cancelled, or whose failed client cannot be closed (ccxt.py:357-362), ends
\* in neither and is not counted.
LoadsSpaced ==
    [][\A c \in Callers : pc[c] = "lock" /\ pc'[c] = "wait" =>
            since[at[c]] = MissRefresh \/ at[c] \in dropped]_vars

\* The clients as their borrowers see them.
LoaderOf(v) == {c \in Callers : pc[c] \in Loading /\ at[c] = v}

Preparing == [v \in Venues |-> IF LoaderOf(v) = {} THEN None
                               ELSE client[CHOOSE c \in LoaderOf(v) : TRUE]]
Offered   == [v \in Venues |-> IF catalog[v] = None THEN None ELSE catalog[v].client]
Lent      == [c \in Callers |-> IF pc[c] = "use" THEN client[c] ELSE None]

Lending == INSTANCE LentClients WITH
    Clients <- Exchanges, Fetches <- Callers,
    preparing <- Preparing, offered <- Offered, lent <- Lent

\* Catalogs, locks, counters and scheduled discards are what fetches may take them
\* for: a client per venue that is lent while it is on offer, and closed once, as
\* soon as it is withdrawn and nobody has it (ccxt.py:323-431).
ClientsLent == Lending!Spec

\* Every fetch ends.
FetchesEnd == \A c \in Callers : pc[c] # "idle" ~> pc[c] = "idle"

\* A catalog leaves the cache although nobody asks for its venue again.
CatalogsExpire == \A v \in Venues : catalog[v] # None ~> catalog[v] = None

\* From some time after close() on no client is open, although loads in progress
\* retain their catalogs and fetches that waited for a probe load new ones.
AllClosedEventually == closer = "closed" ~> [](open = {})

\* ARCHITECTURE.md:93-94: the adapter "closes all exchange instances on shutdown".
\* Read narrowly: when close() has returned and every fetch has ended, no client
\* is open that is not being closed.
ShutdownClosesAll ==
    closer = "closed" /\ (\A c \in Callers : pc[c] = "idle") => open \subseteq closing

=============================================================================
