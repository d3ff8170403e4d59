------------------------- MODULE CatalogCacheProofs -------------------------
(***************************************************************************)
(* Theorems about CatalogCache, for any venues, limits and lifetimes and   *)
(* any finite number of fetches: a client in use is never closed, no       *)
(* client is leaked, loads are spaced, the limits hold, and fetches may    *)
(* take the cache for LentClients.                                         *)
(***************************************************************************)
EXTENDS CatalogCache, FiniteSetTheorems, TLAPS

\* What TypeOK says of the variables the argument is about, and that a fetch
\* which is past its call has a venue, and one past the lookup a client.
CallType ==
    /\ pc \in [Callers -> {"idle", "probe", "lock", "use"} \cup Loading]
    /\ at \in [Callers -> Venues \cup {None}]
    /\ client \in [Callers -> Exchanges \cup {None}]
    /\ users \in [Exchanges -> Nat]
    /\ \A c \in Callers : pc[c] # "idle" => at[c] \in Venues
    /\ \A c \in Callers : pc[c] \in Loading \cup {"use"} => client[c] \in Exchanges

CatalogType ==
    /\ catalog \in [Venues -> Entries \cup {None}]
    /\ retired \subseteq Exchanges /\ closing \subseteq Exchanges
    /\ open \subseteq Exchanges

\* Each client is in one place: an entry of one venue in the catalogs cat, retired
\* (ret) because it was borrowed, or being closed (clo).
Placed(cat, ret, clo) ==
    /\ \A v \in Held(cat) : cat[v].client \in open \ (ret \cup clo)
    /\ \A u, v \in Held(cat) : cat[u].client = cat[v].client => u = v
    /\ ret \subseteq open \ clo
    /\ clo \subseteq open
    /\ \A e \in ret : Borrowed(e)

CatalogSafe == Placed(catalog, retired, closing)

ClientsOf(cat) == {cat[v].client : v \in Held(cat)}

\* The lock of a venue lets one fetch load, while the venue has no catalog.
LoadSafe ==
    \A c \in Callers : pc[c] \in Loading =>
        /\ client[c] \in open \ (retired \cup closing \cup Clients)
        /\ catalog[at[c]] = None
        /\ \A d \in Callers \ {c} : pc[d] \in Loading =>
               at[d] # at[c] /\ client[d] # client[c]

\* A client in use is still cached or was retired when it was discarded.
UseSafe == \A c \in Callers : pc[c] = "use" => client[c] \in Clients \cup retired

\* Every open client is in one of those places or with the fetch that loads it.
Kept ==
    \A e \in open :
        \/ e \in Clients \cup retired \cup closing
        \/ \E c \in Callers : pc[c] \in Loading /\ client[c] = e

Using(e) == {c \in Callers : pc[c] = "use" /\ client[c] = e}

ClientInv ==
    /\ CallType /\ CatalogType /\ UsersCounted
    /\ CatalogSafe /\ LoadSafe /\ UseSafe /\ Kept

-----------------------------------------------------------------------------
(* Counting the borrowers.                                                 *)

\* The counter of a client is positive exactly when a fetch works with it.
LEMMA BorrowedIfUsed ==
    ASSUME UsersCounted, NEW e \in Exchanges
    PROVE  Borrowed(e) <=> \E c \in Callers : pc[c] = "use" /\ client[c] = e
<1>1. IsFiniteSet(Using(e))
  BY LimitsAssumption, FS_Subset DEF Using
<1>2. Cardinality(Using(e)) \in Nat
  BY <1>1, FS_CardinalityType
<1>3. Cardinality(Using(e)) = 0 <=> Using(e) = {}
  BY <1>1, FS_EmptySet
<1>4. users[e] = Cardinality(Using(e))
  BY DEF UsersCounted, Using
<1> QED
  BY <1>2, <1>3, <1>4 DEF Borrowed, Using

\* Steps after which the same fetches use the same clients.
LEMMA SameUsers ==
    ASSUME UsersCounted, UNCHANGED users,
           \A c \in Callers, e \in Exchanges :
               (pc'[c] = "use" /\ client'[c] = e) <=> (pc[c] = "use" /\ client[c] = e)
    PROVE  UsersCounted'
<1>1. \A e \in Exchanges :
        {c \in Callers : pc'[c] = "use" /\ client'[c] = e}
          = {c \in Callers : pc[c] = "use" /\ client[c] = e}
  OBVIOUS
<1> QED
  BY <1>1 DEF UsersCounted

\* A fetch that borrows a client is one more that uses it.
LEMMA BorrowCounts ==
    ASSUME CallType, UsersCounted, NEW c \in Callers, NEW e \in Exchanges,
           pc[c] # "use", at[c] \in Venues, Borrow(c, e)
    PROVE  CallType' /\ UsersCounted'
<1>1. CallType'
  BY DEF CallType, Borrow, Goto, OneMoreUser
<1>2. ASSUME NEW f \in Exchanges, f # e
      PROVE  users'[f] = Cardinality({d \in Callers : pc'[d] = "use" /\ client'[d] = f})
  <2>1. {d \in Callers : pc'[d] = "use" /\ client'[d] = f} = Using(f)
    BY <1>2 DEF CallType, Borrow, Goto, Using
  <2> QED
    BY <2>1, <1>2 DEF CallType, Borrow, OneMoreUser, UsersCounted, Using
<1>3. users'[e] = Cardinality({d \in Callers : pc'[d] = "use" /\ client'[d] = e})
  <2>1. {d \in Callers : pc'[d] = "use" /\ client'[d] = e} = Using(e) \cup {c}
    BY DEF CallType, Borrow, Goto, Using
  <2>2. IsFiniteSet(Using(e)) /\ c \notin Using(e)
    BY LimitsAssumption, FS_Subset DEF Using
  <2>3. Cardinality(Using(e) \cup {c}) = Cardinality(Using(e)) + 1
    BY <2>2, FS_AddElement
  <2> QED
    BY <2>1, <2>3 DEF CallType, Borrow, OneMoreUser, UsersCounted, Using
<1> QED
  BY <1>1, <1>2, <1>3 DEF UsersCounted

\* A fetch that releases its client is one less that uses it.
LEMMA ReleaseCounts ==
    ASSUME CallType, UsersCounted, NEW c \in Callers, Release(c)
    PROVE  CallType' /\ UsersCounted'
<1> DEFINE e == client[c]
<1>0. pc[c] = "use" /\ e \in Exchanges
  BY DEF CallType, Release
<1>a. IsFiniteSet(Using(e)) /\ c \in Using(e)
  BY <1>0, LimitsAssumption, FS_Subset DEF Using
<1>b. Cardinality(Using(e) \ {c}) = Cardinality(Using(e)) - 1
  BY <1>a, FS_RemoveElement
<1>c. Cardinality(Using(e) \ {c}) \in Nat
  BY <1>a, FS_RemoveElement, FS_CardinalityType
<1>d. users[e] = Cardinality(Using(e))
  BY <1>0 DEF UsersCounted, Using
<1>e. users' = [users EXCEPT ![e] = @ - 1]
  BY DEF Release
<1>1. CallType'
  BY <1>0, <1>b, <1>c, <1>d, <1>e DEF CallType, Release, Leave, Goto, Loading
<1>2. ASSUME NEW f \in Exchanges, f # e
      PROVE  users'[f] = Cardinality({d \in Callers : pc'[d] = "use" /\ client'[d] = f})
  <2>1. {d \in Callers : pc'[d] = "use" /\ client'[d] = f} = Using(f)
    BY <1>2, <1>0 DEF CallType, Release, Leave, Goto, Using
  <2> QED
    BY <2>1, <1>2, <1>e DEF CallType, UsersCounted, Using
<1>3. users'[e] = Cardinality({d \in Callers : pc'[d] = "use" /\ client'[d] = e})
  <2>1. {d \in Callers : pc'[d] = "use" /\ client'[d] = e} = Using(e) \ {c}
    BY <1>0, LimitsAssumption DEF CallType, Release, Leave, Goto, Using
  <2> QED
    BY <2>1, <1>0, <1>b, <1>d, <1>e DEF CallType
<1> QED
  BY <1>1, <1>2, <1>3 DEF UsersCounted

\* Every step keeps the types of the calls and the counters of the clients.
LEMMA CallsNext ==
    ASSUME CallType, CatalogType, UsersCounted, [Next]_vars
    PROVE  CallType' /\ UsersCounted'
<1> USE DEF CallType, Loading
<1>1. ASSUME NEW c \in Callers, NEW v \in Venues, Call(c, v)
      PROVE  CallType' /\ UsersCounted'
  BY <1>1, SameUsers DEF Call, Goto
<1>17. ASSUME NEW c \in Callers, Arrive(c)  PROVE CallType' /\ UsersCounted'
  BY <1>17, SameUsers DEF Arrive, Goto
<1>2. ASSUME NEW c \in Callers, LookupHit(c)  PROVE CallType' /\ UsersCounted'
  <2>1. at[c] \in Venues /\ pc[c] # "use" /\ catalog[at[c]].client \in Exchanges
    BY <1>2 DEF LookupHit, HasLock, CatalogType, Entries
  <2> QED
    BY <2>1, <1>2, BorrowCounts DEF LookupHit
<1>3. ASSUME NEW c \in Callers, LookupMiss(c)  PROVE CallType' /\ UsersCounted'
  BY <1>3, SameUsers DEF LookupMiss, HasLock, Leave, Goto
<1>4. ASSUME NEW c \in Callers, Refuse(c)  PROVE CallType' /\ UsersCounted'
  BY <1>4, SameUsers DEF Refuse, NeedsLoad, HasLock, Leave, Goto
<1>5. ASSUME NEW c \in Callers, Construct(c)  PROVE CallType' /\ UsersCounted'
  BY <1>5, SameUsers DEF Construct, NeedsLoad, HasLock, Goto
<1>6. ASSUME NEW c \in Callers, StartLoad(c)  PROVE CallType' /\ UsersCounted'
  BY <1>6, SameUsers DEF StartLoad, Goto
<1>7. ASSUME NEW c \in Callers, Loaded(c)  PROVE CallType' /\ UsersCounted'
  <2>1. at[c] \in Venues /\ pc[c] = "load" /\ client[c] \in Exchanges
    BY <1>7 DEF Loaded
  <2>2. CASE Borrow(c, client[c])
    BY <2>1, <2>2, BorrowCounts
  <2>3. CASE Leave(c) /\ UNCHANGED users
    BY <2>1, <2>3, SameUsers DEF Leave, Goto
  <2> QED
    BY <2>2, <2>3, <1>7 DEF Loaded
<1>8. ASSUME NEW c \in Callers, LoadFailed(c)  PROVE CallType' /\ UsersCounted'
  BY <1>8, SameUsers DEF LoadFailed, Goto
<1>9. ASSUME NEW c \in Callers, FailedClosed(c)  PROVE CallType' /\ UsersCounted'
  BY <1>9, SameUsers DEF FailedClosed, Leave, Goto
<1>10. ASSUME NEW c \in Callers, CancelledClosed(c)  PROVE CallType' /\ UsersCounted'
  BY <1>10, SameUsers DEF CancelledClosed, Leave, Goto
<1>11. ASSUME NEW c \in Callers, Release(c)  PROVE CallType' /\ UsersCounted'
  BY <1>11, ReleaseCounts
<1>12. ASSUME NEW c \in Callers, Cancel(c)  PROVE CallType' /\ UsersCounted'
  BY <1>12, SameUsers DEF Cancel, Leave, Goto
<1>13. ASSUME UNCHANGED callVars  PROVE CallType' /\ UsersCounted'
  BY <1>13, SameUsers DEF callVars
<1>14. ASSUME NEW v \in Venues, Expire(v)  PROVE UNCHANGED callVars
  BY <1>14 DEF Expire
<1>15. ASSUME NEW e \in Exchanges, DropOversized(e) \/ Closed(e)
       PROVE  UNCHANGED callVars
  BY <1>15 DEF DropOversized, Closed
<1>16. Close \/ CloseGathered \/ Tick \/ UNCHANGED vars => UNCHANGED callVars
  BY DEF Close, CloseGathered, Tick, vars
<1> QED
  BY <1>1, <1>2, <1>3, <1>4, <1>5, <1>6, <1>7, <1>8, <1>9, <1>10, <1>11, <1>12,
     <1>13, <1>14, <1>15, <1>16, <1>17 DEF Next, CallerStep

-----------------------------------------------------------------------------
(* Where the clients are.                                                  *)

Places == CatalogType /\ CatalogSafe /\ LoadSafe /\ UseSafe /\ Kept

\* The order of the catalogs once a new one is cached for v.
Inserted(v) == [older EXCEPT ![v] = Held(catalog)]

\* _retain_catalog() discards only idle catalogs of other venues, and then the venue
\* has the new one.  Either the limits hold then or its discard is scheduled; the
\* venues that lose a catalog to a limit are remembered.
LEMMA RetainDiscardsIdle ==
    ASSUME NEW v \in Venues, NEW e, NEW bytes, Retain(v, e, bytes)
    PROVE  LET cat == [catalog EXCEPT ![v] = [client |-> e, bytes |-> bytes, age |-> 0]]
           IN  \E D \in SUBSET (Held(cat) \ {v}) :
                   /\ \A u \in D : ~Borrowed(cat[u].client)
                   /\ Discard(D, cat, Inserted(v))
                   /\ \/ /\ soon' = soon /\ dropped' = (dropped \ {v}) \cup D
                         /\ Within(Held(cat) \ D, cat)
                      \/ soon' = soon \cup {e} /\ dropped' = dropped \cup D \cup {v}
<1> DEFINE cat == [catalog EXCEPT ![v] = [client |-> e, bytes |-> bytes, age |-> 0]]
           old == [older EXCEPT ![v] = Held(catalog)]
           idle == {u \in Held(cat) \ {v} : ~Borrowed(cat[u].client)}
           gone == {u \in idle : ~Within(Held(cat) \ (idle \cap old[u]), cat)}
           over == IF Within(Held(cat) \ gone, cat) THEN {} ELSE {v}
<1>1. /\ Discard(gone, cat, Inserted(v))
      /\ soon' = IF over = {} THEN soon ELSE soon \cup {e}
      /\ dropped' = (dropped \ {v}) \cup gone \cup over
  BY DEF Retain, Inserted
<1>2. gone \in SUBSET (Held(cat) \ {v}) /\ \A u \in gone : ~Borrowed(cat[u].client)
  OBVIOUS
<1>3. (over = {} /\ Within(Held(cat) \ gone, cat)) \/ over = {v}
  OBVIOUS
<1> HIDE DEF gone, over
<1>4. \/ soon' = soon /\ dropped' = (dropped \ {v}) \cup gone /\ Within(Held(cat) \ gone, cat)
      \/ soon' = soon \cup {e} /\ dropped' = dropped \cup gone \cup {v}
  BY <1>1, <1>3
<1> HIDE DEF cat
<1>5. \E D \in SUBSET (Held(cat) \ {v}) :
          /\ \A u \in D : ~Borrowed(cat[u].client)
          /\ Discard(D, cat, Inserted(v))
          /\ \/ /\ soon' = soon /\ dropped' = (dropped \ {v}) \cup D
                /\ Within(Held(cat) \ D, cat)
             \/ soon' = soon \cup {e} /\ dropped' = dropped \cup D \cup {v}
  BY <1>1, <1>2, <1>4
<1> QED
  BY <1>5 DEF cat

\* _discard_catalog() moves the clients of the discarded catalogs, each to where it
\* belongs: the borrowed ones are retired, the others are being closed.
LEMMA DiscardMoves ==
    ASSUME NEW D \in SUBSET Venues, NEW ord,
           NEW cat \in [Venues -> Entries \cup {None}],
           CatalogType, Placed(cat, retired, closing), Discard(D, cat, ord)
    PROVE  /\ catalog' \in [Venues -> Entries \cup {None}]
           /\ retired' \subseteq Exchanges /\ closing' \subseteq Exchanges
           /\ Placed(catalog', retired', closing')
           /\ ClientsOf(catalog') \subseteq ClientsOf(cat)
           /\ ClientsOf(catalog') \cup retired' \cup closing'
                = ClientsOf(cat) \cup retired \cup closing
           /\ \A e \in ClientsOf(cat) \cup retired :
                  Borrowed(e) => e \in ClientsOf(catalog') \cup retired'
           /\ \A v \in Venues : v \in D \/ cat[v] = None => catalog'[v] = None
<1> DEFINE gone == {cat[v].client : v \in D \cap Held(cat)}
<1>1. /\ catalog' = [v \in Venues |-> IF v \in D THEN None ELSE cat[v]]
      /\ retired' = retired \cup {e \in gone : Borrowed(e)}
      /\ closing' = closing \cup {e \in gone : ~Borrowed(e)}
  BY DEF Discard
<1>2. gone \subseteq Exchanges /\ gone \subseteq open \ (retired \cup closing)
  BY DEF Placed, Held, Entries
<1>3. /\ Held(catalog') = Held(cat) \ D
      /\ \A v \in Held(catalog') : catalog'[v] = cat[v]
  BY <1>1 DEF Held
<1>4. \A v \in Held(catalog') : catalog'[v].client \notin gone
  BY <1>3 DEF Placed
<1>5. ClientsOf(cat) = ClientsOf(catalog') \cup gone
  BY <1>3 DEF ClientsOf
<1>6. Placed(catalog', retired', closing')
  BY <1>1, <1>2, <1>3, <1>4 DEF Placed
<1>7. \A v \in Venues : v \in D \/ cat[v] = None => catalog'[v] = None
  BY <1>1
<1>8. catalog' \in [Venues -> Entries \cup {None}]
  BY <1>1
<1> HIDE DEF gone
<1> QED
  BY <1>1, <1>2, <1>5, <1>6, <1>7, <1>8 DEF CatalogType

\* Whatever discards cached catalogs and does not touch the fetches keeps every
\* client in its place: a refresh, an expiry, an oversized catalog, close().
LEMMA DiscardCachedPlaces ==
    ASSUME CallType, UsersCounted, Places, NEW D \in SUBSET Venues, DiscardCached(D)
    PROVE  /\ catalog' \in [Venues -> Entries \cup {None}]
           /\ retired' \subseteq Exchanges /\ closing' \subseteq Exchanges
           /\ Placed(catalog', retired', closing')
           /\ ClientsOf(catalog') \subseteq Clients
           /\ ClientsOf(catalog') \cup retired' \cup closing'
                = Clients \cup retired \cup closing
           /\ \A v \in Venues : v \in D \/ catalog[v] = None => catalog'[v] = None
           /\ \A c \in Callers :
                  pc[c] = "use" => client[c] \in ClientsOf(catalog') \cup retired'
<1>1. Clients = ClientsOf(catalog)
  BY DEF Clients, ClientsOf
<1>2. \A c \in Callers : pc[c] = "use" =>
          client[c] \in ClientsOf(catalog) \cup retired /\ Borrowed(client[c])
  BY <1>1, BorrowedIfUsed DEF Places, UseSafe, CallType
<1> QED
  BY <1>1, <1>2, DiscardMoves DEF DiscardCached, Places, CatalogSafe, CatalogType

\* Every step keeps every open client in exactly one place.
LEMMA PlacesNext ==
    ASSUME CallType, UsersCounted, Places, [Next]_vars, UsersCounted'
    PROVE  Places'
<1> USE DEF CatalogSafe, Loading
<1>a. Clients = ClientsOf(catalog) /\ Clients' = ClientsOf(catalog')
  BY DEF Clients, ClientsOf, Held
<1>b. \A e \in Exchanges :
        Borrowed(e) <=> \E c \in Callers : pc[c] = "use" /\ client[c] = e
  BY BorrowedIfUsed
<1>1. ASSUME NEW c \in Callers, LookupHit(c)  PROVE Places'
  <2> DEFINE e == catalog[at[c]].client
  <2>1. /\ pc[c] = "lock" /\ at[c] \in Held(catalog) /\ e \in ClientsOf(catalog)
        /\ e \in Exchanges
    BY <1>1 DEF LookupHit, HasLock, CallType, Held, ClientsOf, Places, CatalogType, Entries
  <2>2. /\ pc' = [pc EXCEPT ![c] = "use"] /\ client' = [client EXCEPT ![c] = e]
        /\ users' = [users EXCEPT ![e] = @ + 1] /\ UNCHANGED <<at, open, catalogVars>>
    BY <1>1 DEF LookupHit, Borrow, Goto, OneMoreUser
  <2> HIDE DEF e
  <2>3. CatalogSafe'
    BY <2>1, <2>2 DEF Placed, catalogVars, Places, Held, Borrowed, CallType, CatalogType
  <2>4. CatalogType'
    BY <2>2 DEF catalogVars, Places, CatalogType
  <2>5. LoadSafe'
    BY <2>1, <2>2, <1>a DEF catalogVars, Places, LoadSafe, ClientsOf, Held, CallType
  <2>6. UseSafe'
    BY <2>1, <2>2, <1>a DEF catalogVars, Places, UseSafe, ClientsOf, Held, CallType
  <2>7. Kept'
    BY <2>1, <2>2, <1>a DEF catalogVars, Places, Kept, ClientsOf, Held, CallType
  <2> QED
    BY <2>3, <2>4, <2>5, <2>6, <2>7 DEF Places
<1>2. ASSUME UNCHANGED <<catalogVars, open, users>>,
             \A c \in Callers : pc'[c] = "use" => pc[c] = "use" /\ client'[c] = client[c],
             \A c \in Callers : (pc'[c] \in Loading <=> pc[c] \in Loading)
                 /\ (pc[c] \in Loading => client'[c] = client[c] /\ at'[c] = at[c])
      PROVE  Places'
  BY <1>2, <1>a
  DEF catalogVars, Places, CatalogType, Placed, LoadSafe, UseSafe, Kept, ClientsOf, Held,
      Borrowed
<1>3. ASSUME NEW c \in Callers, NEW v \in Venues, Call(c, v)  PROVE Places'
  BY <1>2, <1>3 DEF Call, Goto, CallType
<1>21. ASSUME NEW c \in Callers, Arrive(c)  PROVE Places'
  BY <1>2, <1>21 DEF Arrive, Goto, CallType
<1>4. ASSUME NEW c \in Callers, LookupMiss(c)  PROVE Places'
  BY <1>2, <1>4 DEF LookupMiss, HasLock, Leave, Goto, CallType
<1>5. ASSUME NEW c \in Callers, StartLoad(c)  PROVE Places'
  BY <1>2, <1>5 DEF StartLoad, Goto, CallType
<1>6. ASSUME NEW c \in Callers, LoadFailed(c)  PROVE Places'
  BY <1>2, <1>6 DEF LoadFailed, Goto, CallType
<1>7. CASE CloseGathered \/ UNCHANGED vars
  BY <1>2, <1>7 DEF CloseGathered, vars, callVars, catalogVars
<1>8. ASSUME NEW c \in Callers, pc[c] \in Loading, Leave(c),
             open' = open \ {client[c]}, UNCHANGED <<catalogVars, users>>
      PROVE  Places'
  <2>1. /\ pc' = [pc EXCEPT ![c] = "idle"] /\ at' = [at EXCEPT ![c] = None]
        /\ client' = [client EXCEPT ![c] = None]
        /\ UNCHANGED <<catalog, retired, closing>>
    BY <1>8 DEF Leave, Goto, catalogVars
  <2>2. /\ client[c] \in open \ (retired \cup closing \cup ClientsOf(catalog))
        /\ ClientsOf(catalog') = ClientsOf(catalog)
    BY <1>8, <2>1, <1>a DEF Places, LoadSafe, ClientsOf, Held
  <2>3. CatalogType' /\ CatalogSafe'
    BY <1>8, <2>1, <2>2 DEF Places, CatalogType, Placed, ClientsOf, Held, Borrowed
  <2>4. LoadSafe'
    BY <1>8, <2>1, <2>2, <1>a DEF Places, LoadSafe, CallType
  <2>5. UseSafe' /\ Kept'
    BY <1>8, <2>1, <2>2, <1>a DEF Places, UseSafe, Kept, CallType
  <2> QED
    BY <2>3, <2>4, <2>5 DEF Places
<1>9. ASSUME NEW c \in Callers, FailedClosed(c) \/ CancelledClosed(c)  PROVE Places'
  BY <1>8, <1>9 DEF FailedClosed, CancelledClosed
<1>10. ASSUME NEW c \in Callers, Cancel(c)  PROVE Places'
  <2>1. CASE pc[c] \in {"probe", "lock"} /\ Leave(c) /\ UNCHANGED open
    BY <1>2, <1>10, <2>1 DEF Cancel, Leave, Goto, CallType
  <2>2. CASE pc[c] \in {"wait", "load"} /\ Goto(c, "closecancel")
               /\ UNCHANGED <<at, client, open>>
    BY <1>2, <1>10, <2>2 DEF Cancel, Goto, CallType
  <2>3. CASE pc[c] \in {"closefail", "closecancel"} /\ Leave(c)
               /\ open' = open \ {client[c]}
    BY <1>8, <1>10, <2>3 DEF Cancel
  <2> QED
    BY <1>10, <2>1, <2>2, <2>3 DEF Cancel
<1>11. ASSUME UNCHANGED <<pc, at, client, users, open>>,
              NEW D \in SUBSET Venues, DiscardCached(D)
       PROVE  Places'
  BY <1>11, <1>a, DiscardCachedPlaces
  DEF Places, CatalogType, Placed, LoadSafe, UseSafe, Kept, Borrowed, CallType
<1>12. ASSUME NEW v \in Venues, Expire(v)  PROVE Places'
  BY <1>11, <1>12 DEF Expire, callVars
<1>13. ASSUME NEW e \in Exchanges, DropOversized(e)  PROVE Places'
  BY <1>11, <1>13 DEF DropOversized, callVars, Held
<1>14. CASE Close
  BY <1>11, <1>14 DEF Close, callVars
<1>15. ASSUME NEW c \in Callers, Refuse(c)  PROVE Places'
  <2>1. DiscardCached({at[c]}) /\ {at[c]} \in SUBSET Venues
    BY <1>15 DEF Refuse, NeedsLoad, HasLock, CallType
  <2> QED
    BY <1>15, <2>1, <1>a, DiscardCachedPlaces
    DEF Refuse, NeedsLoad, HasLock, Leave, Goto, Places, CatalogType, Placed, LoadSafe,
        UseSafe, Kept, Borrowed, CallType
<1>16. ASSUME NEW c \in Callers, Construct(c)  PROVE Places'
  <2>1. /\ DiscardCached({at[c]}) /\ {at[c]} \in SUBSET Venues
        /\ \A d \in Callers : pc[d] \in Loading => at[d] # at[c]
        /\ pc[c] = "lock"
    BY <1>16 DEF Construct, NeedsLoad, HasLock, CallType
  <2>2. PICK e \in Exchanges \ (open \cup soon) :
           /\ open' = open \cup {e}
           /\ client' = [client EXCEPT ![c] = e]
    BY <1>16 DEF Construct
  <2>3. pc' = [pc EXCEPT ![c] = "wait"] /\ UNCHANGED <<at, users>>
    BY <1>16 DEF Construct, NeedsLoad, Goto
  <2>4. catalog'[at[c]] = None
    BY <2>1, DiscardCachedPlaces
  <2>5. e \notin ClientsOf(catalog') \cup retired' \cup closing'
    BY <2>1, <2>2, <1>a, DiscardCachedPlaces DEF Places, Placed, ClientsOf
  <2>6. CatalogType' /\ CatalogSafe'
    BY <2>1, <2>2, <2>3, DiscardCachedPlaces
    DEF Places, CatalogType, Placed, Borrowed
  <2>7. LoadSafe'
    BY <2>1, <2>2, <2>3, <2>4, <2>5, <1>a, DiscardCachedPlaces
    DEF Places, CatalogType, LoadSafe, CallType
  <2>8. UseSafe' /\ Kept'
    BY <2>1, <2>2, <2>3, <1>a, DiscardCachedPlaces
    DEF Places, UseSafe, Kept, CallType
  <2> QED
    BY <2>6, <2>7, <2>8 DEF Places
<1>17. ASSUME NEW c \in Callers, Loaded(c)  PROVE Places'
  <2> DEFINE e == client[c]
             v == at[c]
  <2>1. /\ pc[c] = "load" /\ v \in Venues /\ e \in Exchanges /\ catalog[v] = None
        /\ e \in open \ (retired \cup closing \cup ClientsOf(catalog))
        /\ ~Borrowed(e) /\ open' = open
    BY <1>17, <1>a, <1>b
    DEF Loaded, CallType, Places, LoadSafe, UseSafe
  <2>2. PICK bytes \in Sizes : Retain(v, e, bytes)
    BY <1>17 DEF Loaded
  <2> DEFINE cat == [catalog EXCEPT ![v] = [client |-> e, bytes |-> bytes, age |-> 0]]
  <2>3. PICK D \in SUBSET (Held(cat) \ {v}) : Discard(D, cat, Inserted(v))
    BY <2>1, <2>2, RetainDiscardsIdle
  <2>4. /\ cat \in [Venues -> Entries \cup {None}]
        /\ Held(cat) = Held(catalog) \cup {v}
        /\ cat[v].client = e
        /\ \A u \in Held(catalog) : cat[u] = catalog[u]
    BY <2>1, EntriesAssumption, LimitsAssumption
    DEF Places, CatalogType, Held, Entries
  <2> HIDE DEF cat
  <2>5. ClientsOf(cat) = ClientsOf(catalog) \cup {e}
    BY <2>1, <2>4 DEF ClientsOf
  <2>6. Placed(cat, retired, closing)
    BY <2>1, <2>4, <2>5 DEF Places, Placed, ClientsOf
  <2>7. D \in SUBSET Venues /\ v \notin D
    BY DEF Held
  <2>c. CatalogType
    BY DEF Places
  <2>8. /\ catalog' \in [Venues -> Entries \cup {None}]
        /\ retired' \subseteq Exchanges /\ closing' \subseteq Exchanges
        /\ Placed(catalog', retired', closing')
        /\ ClientsOf(catalog') \subseteq ClientsOf(cat)
        /\ ClientsOf(catalog') \cup retired' \cup closing'
             = ClientsOf(cat) \cup retired \cup closing
        /\ \A f \in ClientsOf(cat) \cup retired :
               Borrowed(f) => f \in ClientsOf(catalog') \cup retired'
        /\ \A u \in Venues : u \in D \/ cat[u] = None => catalog'[u] = None
    <3>1. cat \in [Venues -> Entries \cup {None}] /\ D \in SUBSET Venues
      BY <2>4, <2>7
    <3> HIDE DEF e, v
    <3> QED
      BY <3>1, <2>c, <2>3, <2>6, DiscardMoves, SMTT(60)
  <2>9. e \in ClientsOf(catalog')
    <3>1. catalog' = [u \in Venues |-> IF u \in D THEN None ELSE cat[u]]
      BY <2>3 DEF Discard
    <3>2. catalog'[v] = cat[v] /\ v \in Held(catalog')
      BY <3>1, <2>1, <2>4, <2>7 DEF Held
    <3> QED
      BY <3>2, <2>4 DEF ClientsOf
  <2>10. /\ \A f \in Exchanges : Borrowed(f) => users'[f] > 0
         /\ pc' \in {[pc EXCEPT ![c] = "use"], [pc EXCEPT ![c] = "idle"]}
         /\ client'[c] # e => pc'[c] = "idle"
         /\ \A d \in Callers \ {c} : client'[d] = client[d] /\ at'[d] = at[d]
    BY <1>17, <2>1 DEF Loaded, Borrow, Leave, Goto, OneMoreUser, Borrowed, CallType
  <2>11. CatalogType' /\ CatalogSafe'
    BY <2>1, <2>8, <2>10 DEF Places, CatalogType, Placed, Borrowed
  <2>12. LoadSafe'
    <3>1. ASSUME NEW d \in Callers, pc'[d] \in Loading
          PROVE  /\ d # c /\ pc[d] \in Loading /\ at[d] # v /\ client[d] # e
                 /\ at'[d] = at[d] /\ client'[d] = client[d] /\ at[d] \in Venues
      BY <2>1, <2>10, <3>1 DEF Places, LoadSafe, CallType
    <3>2. ASSUME NEW d \in Callers, pc'[d] \in Loading
          PROVE  cat[at[d]] = None
      BY <3>1, <3>2, <2>4 DEF Places, LoadSafe, Held, CatalogType
    <3>3. ASSUME NEW d \in Callers, pc'[d] \in Loading
          PROVE  client[d] \notin ClientsOf(catalog') \cup retired' \cup closing'
      BY <3>1, <3>3, <2>5, <2>8, <1>a DEF Places, LoadSafe
    <3> QED
      BY <3>1, <3>2, <3>3, <2>1, <2>8, <1>a DEF Places, LoadSafe
  <2>13. UseSafe'
    BY <1>b, <2>1, <2>5, <2>8, <2>9, <2>10, <1>a DEF Places, UseSafe, CallType
  <2>14. Kept'
    BY <2>1, <2>5, <2>8, <2>10, <1>a DEF Places, Kept, CallType
  <2> QED
    BY <2>11, <2>12, <2>13, <2>14 DEF Places
<1>18. ASSUME NEW c \in Callers, Release(c)  PROVE Places'
  <2>1. /\ pc[c] = "use" /\ client[c] \in Exchanges
        /\ pc' = [pc EXCEPT ![c] = "idle"]
        /\ at' = [at EXCEPT ![c] = None] /\ client' = [client EXCEPT ![c] = None]
        /\ users' = [users EXCEPT ![client[c]] = @ - 1]
        /\ UNCHANGED <<catalog, open>>
    BY <1>18 DEF Release, Leave, Goto, CallType
  <2>2. ClientsOf(catalog') = ClientsOf(catalog)
    BY <2>1 DEF ClientsOf, Held
  <2>3. CASE ~LastBorrower(client[c])
    <3>1. UNCHANGED <<retired, closing>>
      BY <1>18, <2>3 DEF Release
    <3>2. users[client[c]] > 0 /\ users'[client[c]] > 0
      BY <1>b, <2>1, <2>3 DEF Borrowed, LastBorrower, CallType
    <3>3. CatalogType' /\ CatalogSafe'
      BY <2>1, <3>1, <3>2 DEF Places, CatalogType, Placed, Held, Borrowed, CallType
    <3> QED
      BY <2>1, <2>2, <3>1, <3>3, <1>a DEF Places, LoadSafe, UseSafe, Kept, CallType
  <2>4. CASE LastBorrower(client[c])
    <3>1. /\ retired' = retired \ {client[c]}
          /\ closing' = closing \cup (retired \cap {client[c]})
      BY <1>18, <2>4 DEF Release
    <3>2. users'[client[c]] = 0
      BY <2>1, <2>4 DEF LastBorrower, CallType
    <3>3. \A d \in Callers : pc'[d] = "use" => client'[d] # client[c]
      <4> DEFINE S == {d \in Callers : pc'[d] = "use" /\ client'[d] = client[c]}
      <4>1. Cardinality(S) = 0
        BY <2>1, <3>2 DEF UsersCounted
      <4>2. IsFiniteSet(S)
        BY LimitsAssumption, FS_Subset
      <4>3. S = {}
        BY <4>1, <4>2, FS_EmptySet
      <4> QED
        BY <4>3
    <3>4. CatalogType' /\ CatalogSafe'
      BY <2>1, <3>1 DEF Places, CatalogType, Placed, Held, Borrowed, CallType
    <3> QED
      BY <2>1, <2>2, <3>1, <3>3, <3>4, <1>a DEF Places, LoadSafe, UseSafe, Kept, CallType
  <2> QED
    BY <2>3, <2>4
<1>19. ASSUME NEW e \in Exchanges, Closed(e)  PROVE Places'
  BY <1>19, <1>a
  DEF Closed, callVars, Places, CatalogType, Placed, LoadSafe, UseSafe, Kept, ClientsOf,
      Held, Borrowed
<1>20. CASE Tick
  <2>1. /\ catalog' = [v \in Venues |-> IF v \in Held(catalog) /\ catalog[v].age < Ttl
                                         THEN [catalog[v] EXCEPT !.age = @ + 1]
                                         ELSE catalog[v]]
        /\ UNCHANGED <<retired, closing, open, pc, at, client, users>>
    BY <1>20 DEF Tick, callVars
  <2>2. ASSUME NEW v \in Held(catalog)
        PROVE  /\ catalog'[v] \in Entries /\ catalog'[v].client = catalog[v].client
               /\ v \in Held(catalog')
    BY <2>1, <2>2, LimitsAssumption, EntriesAssumption DEF Places, CatalogType, Held, Entries
  <2>3. ASSUME NEW v \in Venues \ Held(catalog)  PROVE catalog'[v] = None
    BY <2>1, <2>3 DEF Held
  <2>4. Held(catalog') = Held(catalog) /\ ClientsOf(catalog') = ClientsOf(catalog)
    BY <2>2, <2>3 DEF Held, ClientsOf
  <2>5. CatalogType'
    BY <2>1, <2>2, <2>3 DEF Places, CatalogType
  <2>6. CatalogSafe'
    <3>1. \A v \in Held(catalog) : catalog'[v].client = catalog[v].client
      BY <2>2
    <3> QED
      BY <3>1, <2>1, <2>4 DEF Places, Placed, Borrowed
  <2>7. LoadSafe'
    <3>1. \A c \in Callers : pc[c] \in Loading => catalog'[at[c]] = None
      BY <2>3 DEF Places, LoadSafe, Held, CallType
    <3> QED
      BY <3>1, <2>1, <2>4, <1>a DEF Places, LoadSafe
  <2>8. UseSafe' /\ Kept'
    BY <2>1, <2>4, <1>a DEF Places, UseSafe, Kept
  <2> QED
    BY <2>5, <2>6, <2>7, <2>8 DEF Places
<1> QED
  BY <1>1, <1>3, <1>4, <1>5, <1>6, <1>7, <1>9, <1>10, <1>12, <1>13, <1>14, <1>15,
     <1>16, <1>17, <1>18, <1>19, <1>20, <1>21 DEF Next, CallerStep

-----------------------------------------------------------------------------
(* The theorems.                                                           *)

\* In every reachable state the counters are right and each open client is in one
\* place: cached for one venue, retired by its borrowers, being closed or loaded.
THEOREM ClientInvariant == Spec => []ClientInv
<1>1. Init => ClientInv
  <2>1. ASSUME Init  PROVE UsersCounted
    <3>1. \A e \in Exchanges : {c \in Callers : pc[c] = "use" /\ client[c] = e} = {}
      BY <2>1 DEF Init
    <3> QED
      BY <2>1, <3>1, FS_EmptySet DEF Init, UsersCounted
  <2>2. Init => CallType /\ CatalogType
    BY DEF Init, CallType, CatalogType, Loading
  <2>3. Init => CatalogSafe /\ LoadSafe /\ UseSafe /\ Kept
    BY DEF Init, CatalogSafe, Placed, LoadSafe, UseSafe, Kept, Held, Loading
  <2> QED
    BY <2>1, <2>2, <2>3 DEF ClientInv
<1>2. ClientInv /\ [Next]_vars => ClientInv'
  BY CallsNext, PlacesNext DEF ClientInv, Places
<1> QED
  BY <1>1, <1>2, PTL DEF Spec

\* A client that a fetch works with is open and nobody closes it, whatever
\* expiry, refresh, limit or close() dropped its catalog meanwhile.
THEOREM ClientsInUseStayOpen == Spec => []InUseStaysOpen
<1>1. ClientInv => InUseStaysOpen
  <2> SUFFICES ASSUME ClientInv, NEW c \in Callers, pc[c] = "use"
               PROVE  client[c] \in open \ closing
    BY DEF InUseStaysOpen
  <2> QED
    BY DEF ClientInv, UseSafe, CatalogSafe, Placed, Clients
<1> QED
  BY <1>1, ClientInvariant, PTL

\* No client is leaked: what will close it is there in every reachable state.
THEOREM NoClientIsOrphaned == Spec => []NoOrphan
<1>1. ClientInv => NoOrphan
  <2> SUFFICES ASSUME ClientInv, NEW e \in open
               PROVE  \/ e \in Clients /\ e \notin retired \cup closing
                      \/ e \in retired \ closing
                           /\ \E c \in Callers : pc[c] = "use" /\ client[c] = e
                      \/ e \in closing
                      \/ \E c \in Callers : pc[c] \in Loading /\ client[c] = e
    BY DEF NoOrphan
  <2>1. e \in Exchanges
    BY DEF ClientInv, CatalogType
  <2>2. e \in retired => \E c \in Callers : pc[c] = "use" /\ client[c] = e
    BY <2>1, BorrowedIfUsed DEF ClientInv, CatalogSafe, Placed
  <2> QED
    BY <2>2 DEF ClientInv, CatalogSafe, Placed, Kept, Clients
<1> QED
  BY <1>1, ClientInvariant, PTL

\* _users counts the fetches that work with a client, so the last one is known.
THEOREM BorrowersAreCounted == Spec => []UsersCounted
  BY ClientInvariant, PTL DEF ClientInv

-----------------------------------------------------------------------------
(* When catalogs are loaded.  A catalog that nobody took away is at most as *)
(* old as the time since its venue's last load; without one, that time and  *)
(* what is left of the cooldown make up the refresh interval.               *)

SpacingType ==
    /\ cooldown \in [Venues -> 0 .. MissRefresh]
    /\ since \in [Venues -> 0 .. MissRefresh]
    /\ soon \subseteq Exchanges
    /\ dropped \subseteq Venues

\* A scheduled discard takes only catalogs that a limit has dropped.
SoonSafe ==
    /\ \A v \in Held(catalog) : catalog[v].client \in soon => v \in dropped
    /\ \A c \in Callers : pc[c] \in Loading => client[c] \notin soon

Spacing ==
    \A v \in Venues \ dropped :
        /\ v \in Held(catalog) => since[v] = MissRefresh \/ since[v] >= catalog[v].age
        /\ v \notin Held(catalog) => cooldown[v] + since[v] >= MissRefresh

SpacingInv == SpacingType /\ SoonSafe /\ Spacing

\* An entry is an entry of the cache with a client and an age.
LEMMA HeldEntries ==
    ASSUME CatalogType, NEW v \in Held(catalog)
    PROVE  /\ v \in Venues /\ catalog[v] \in Entries
           /\ catalog[v].client \in Exchanges /\ catalog[v].age \in 0 .. Ttl
  BY DEF CatalogType, Held, Entries

\* A discard that takes only what is dropped, or old enough to be loaded again.
LEMMA DiscardSpacing ==
    ASSUME SpacingInv, CatalogType, NEW D \in SUBSET Venues, DiscardCached(D),
           \A v \in D \cap Held(catalog) : v \in dropped \/ catalog[v].age >= MissRefresh,
           UNCHANGED <<since, cooldown, dropped>>
    PROVE  Spacing'
<1>1. catalog' = [v \in Venues |-> IF v \in D THEN None ELSE catalog[v]]
  BY DEF DiscardCached, Discard
<1>2. \A v \in Venues : /\ v \in Held(catalog') <=> v \in Held(catalog) \ D
                        /\ v \notin D => catalog'[v] = catalog[v]
  BY <1>1 DEF Held
<1>3. ASSUME NEW v \in Venues \ dropped, v \in D, v \in Held(catalog)
      PROVE  cooldown[v] + since[v] >= MissRefresh
  <2>1. catalog[v].age >= MissRefresh /\ catalog[v].age \in 0 .. Ttl
    BY <1>3, HeldEntries
  <2>2. since[v] = MissRefresh \/ since[v] >= catalog[v].age
    BY <1>3 DEF SpacingInv, Spacing
  <2>3. since[v] \in 0 .. MissRefresh /\ cooldown[v] \in 0 .. MissRefresh
    BY DEF SpacingInv, SpacingType
  <2> QED
    BY <2>1, <2>2, <2>3, LimitsAssumption
<1> QED
  BY <1>2, <1>3 DEF SpacingInv, Spacing

\* The inductive step, where a catalog lives at least as long as the time before
\* which it is not refreshed.
LEMMA SpacingInvNext ==
    ASSUME MissRefresh <= Ttl, CallType, CatalogType, LoadSafe, SpacingInv, [Next]_vars
    PROVE  SpacingInv'
<1> USE DEF CallType, Loading
<1>a. Clients = ClientsOf(catalog)
  BY DEF Clients, ClientsOf
<1>1. ASSUME UNCHANGED <<catalog, soon, cooldown, since, dropped>>,
             \A c \in Callers : pc'[c] \in Loading => pc[c] \in Loading /\ client'[c] = client[c]
      PROVE  SpacingInv'
  BY <1>1 DEF SpacingInv, SpacingType, SoonSafe, Spacing, Held
<1>2. ASSUME NEW c \in Callers, NEW v \in Venues, Call(c, v)  PROVE SpacingInv'
  BY <1>1, <1>2 DEF Call, Goto, catalogVars, ghostVars
<1>19. ASSUME NEW c \in Callers, Arrive(c)  PROVE SpacingInv'
  BY <1>1, <1>19 DEF Arrive, Goto, catalogVars, ghostVars
<1>3. ASSUME NEW c \in Callers, LookupHit(c)  PROVE SpacingInv'
  BY <1>1, <1>3 DEF LookupHit, Borrow, Goto, catalogVars, ghostVars
<1>4. ASSUME NEW c \in Callers, LookupMiss(c)  PROVE SpacingInv'
  BY <1>1, <1>4 DEF LookupMiss, Leave, Goto, catalogVars, ghostVars
<1>5. ASSUME NEW c \in Callers, StartLoad(c) \/ LoadFailed(c)  PROVE SpacingInv'
  BY <1>1, <1>5 DEF StartLoad, LoadFailed, Goto, catalogVars, ghostVars
<1>6. ASSUME NEW c \in Callers, Release(c) \/ CancelledClosed(c)  PROVE SpacingInv'
  BY <1>1, <1>6 DEF Release, CancelledClosed, Leave, Goto, catalogVars, ghostVars
<1>7. ASSUME NEW c \in Callers, Cancel(c)  PROVE SpacingInv'
  BY <1>1, <1>7 DEF Cancel, Leave, Goto, catalogVars, ghostVars
<1>8. ASSUME NEW e \in Exchanges, Closed(e)  PROVE SpacingInv'
  BY <1>1, <1>8 DEF Closed, callVars, ghostVars
<1>9. CASE CloseGathered \/ UNCHANGED vars
  BY <1>1, <1>9 DEF CloseGathered, vars, catalogVars, callVars, ghostVars
\* A refresh discards a catalog that is older than the interval.
<1>10. ASSUME NEW c \in Callers, NeedsLoad(c), UNCHANGED cooldown,
              \A d \in Callers : pc'[d] \in Loading =>
                  \/ pc[d] \in Loading /\ client'[d] = client[d]
                  \/ client'[d] \notin soon
       PROVE  SpacingInv'
  <2>1. /\ pc[c] = "lock" /\ at[c] \in Venues /\ DiscardCached({at[c]})
        /\ catalog[at[c]] # None => catalog[at[c]].age >= MissRefresh
        /\ UNCHANGED <<since, dropped, soon>>
    BY <1>10 DEF NeedsLoad, HasLock, Aged, ghostVars
  <2>2. Spacing'
    BY <1>10, <2>1, DiscardSpacing DEF Held
  <2>3. \A v \in Held(catalog') : v \in Held(catalog) /\ catalog'[v] = catalog[v]
    BY <2>1 DEF DiscardCached, Discard, Held
  <2> QED
    BY <1>10, <2>1, <2>2, <2>3 DEF SpacingInv, SpacingType, SoonSafe
<1>11. ASSUME NEW c \in Callers, Refuse(c)  PROVE SpacingInv'
  BY <1>10, <1>11 DEF Refuse, Leave, Goto
<1>12. ASSUME NEW c \in Callers, Construct(c)  PROVE SpacingInv'
  <2>1. PICK e \in Exchanges \ (open \cup soon) : client' = [client EXCEPT ![c] = e]
    BY <1>12 DEF Construct
  <2> QED
    BY <1>10, <1>12, <2>1 DEF Construct, Goto
<1>13. ASSUME NEW c \in Callers, Loaded(c)  PROVE SpacingInv'
  <2> DEFINE e == client[c]
             v == at[c]
  <2>1. /\ pc[c] = "load" /\ v \in Venues /\ e \in Exchanges /\ catalog[v] = None
        /\ e \notin ClientsOf(catalog) /\ e \notin soon
        /\ \A d \in Callers \ {c} : pc[d] \in Loading => client[d] # e
    BY <1>13, <1>a DEF Loaded, LoadSafe, SpacingInv, SoonSafe
  <2>2. PICK bytes \in Sizes : Retain(v, e, bytes)
    BY <1>13 DEF Loaded
  <2> DEFINE entry == [client |-> e, bytes |-> bytes, age |-> 0]
             cat == [catalog EXCEPT ![v] = entry]
  <2>b. v \in Venues
    BY <2>1
  <2>a. \E D \in SUBSET (Held(cat) \ {v}) :
            /\ \A u \in D : ~Borrowed(cat[u].client)
            /\ Discard(D, cat, Inserted(v))
            /\ \/ /\ soon' = soon /\ dropped' = (dropped \ {v}) \cup D
                  /\ Within(Held(cat) \ D, cat)
               \/ soon' = soon \cup {e} /\ dropped' = dropped \cup D \cup {v}
    BY <2>b, <2>2, RetainDiscardsIdle, Zenon
  <2>3. PICK D \in SUBSET (Held(cat) \ {v}) :
            /\ Discard(D, cat, Inserted(v))
            /\ \/ soon' = soon /\ dropped' = (dropped \ {v}) \cup D
               \/ soon' = soon \cup {e} /\ dropped' = dropped \cup D \cup {v}
    BY <2>a
  <2>4. catalog' = [u \in Venues |-> IF u \in D THEN None ELSE cat[u]]
    BY <2>3 DEF Discard
  <2>5. /\ catalog'[v] = entry /\ entry # None
        /\ \A u \in Venues \ {v} : catalog'[u] = IF u \in D THEN None ELSE catalog[u]
        /\ D \subseteq Venues
    BY <2>1, <2>3, <2>4, LimitsAssumption, EntriesAssumption
    DEF CatalogType, Entries, Held
  <2>6. /\ entry.client = e /\ entry.age = 0
    OBVIOUS
  <2> HIDE DEF entry, cat, e, v
  <2>7. /\ since' = [since EXCEPT ![v] = 0] /\ UNCHANGED cooldown
        /\ \A d \in Callers : pc'[d] \in Loading =>
               d # c /\ pc[d] \in Loading /\ client'[d] = client[d]
    BY <1>13, <2>1 DEF Loaded, Borrow, Leave, Goto, v
  <2>8. SpacingType'
    BY <2>1, <2>3, <2>5, <2>7, LimitsAssumption DEF SpacingInv, SpacingType
  <2>9. SoonSafe'
    <3>1. \A u \in Held(catalog') \ {v} :
              u \in Held(catalog) /\ catalog'[u] = catalog[u] /\ catalog[u].client # e
      BY <2>1, <2>5 DEF Held, ClientsOf
    <3>2. \A u \in Held(catalog') : catalog'[u].client \in soon' => u \in dropped'
      BY <2>1, <2>3, <2>5, <2>6, <3>1 DEF SpacingInv, SoonSafe, Held
    <3>3. \A d \in Callers : pc'[d] \in Loading => client'[d] \notin soon'
      BY <2>1, <2>3, <2>7 DEF SpacingInv, SoonSafe
    <3> QED
      BY <3>2, <3>3 DEF SoonSafe
  <2>10. Spacing'
    <3>1. ASSUME NEW u \in Venues \ dropped', u # v
          PROVE  /\ u \notin dropped /\ catalog'[u] = catalog[u]
                 /\ since'[u] = since[u] /\ cooldown'[u] = cooldown[u]
      BY <2>3, <2>5, <2>7, <3>1 DEF SpacingInv, SpacingType
    <3>2. since'[v] >= 0 /\ v \in Held(catalog')
      BY <2>1, <2>5, <2>7 DEF SpacingInv, SpacingType, Held
    <3> QED
      BY <2>5, <2>6, <3>1, <3>2 DEF SpacingInv, Spacing, Held
  <2> QED
    BY <2>8, <2>9, <2>10 DEF SpacingInv
\* A failed load starts the cooldown of its venue, which has no catalog.
<1>14. ASSUME NEW c \in Callers, FailedClosed(c)  PROVE SpacingInv'
  <2>1. /\ at[c] \in Venues /\ catalog[at[c]] = None
        /\ UNCHANGED <<catalog, soon>>
        /\ \A d \in Callers : pc'[d] \in Loading => pc[d] \in Loading /\ client'[d] = client[d]
    BY <1>14 DEF FailedClosed, LoadSafe, Leave, Goto, catalogVars
  <2>2. CASE UNCHANGED <<cooldown, ghostVars>>
    BY <1>1, <2>1, <2>2 DEF ghostVars
  <2>3. CASE /\ cooldown' = [cooldown EXCEPT ![at[c]] = MissRefresh]
             /\ since' = [since EXCEPT ![at[c]] = 0]
             /\ dropped' = dropped \ {at[c]}
    <3>1. SpacingType'
      BY <2>1, <2>3, LimitsAssumption DEF SpacingInv, SpacingType
    <3>2. SoonSafe'
      BY <2>1, <2>3 DEF SpacingInv, SoonSafe, Held
    <3>3. cooldown'[at[c]] + since'[at[c]] >= MissRefresh
      BY <2>1, <2>3, LimitsAssumption DEF SpacingInv, SpacingType
    <3>4. Spacing'
      BY <2>1, <2>3, <3>3 DEF SpacingInv, SpacingType, Spacing, Held
    <3> QED
      BY <3>1, <3>2, <3>4 DEF SpacingInv
  <2> QED
    BY <1>14, <2>2, <2>3 DEF FailedClosed
\* An expired catalog is older than the interval.
<1>15. ASSUME NEW v \in Venues, Expire(v)  PROVE SpacingInv'
  <2>1. /\ v \in Held(catalog) /\ catalog[v].age >= Ttl /\ DiscardCached({v})
        /\ UNCHANGED <<since, cooldown, dropped, soon, pc, client>>
    BY <1>15 DEF Expire, Due, Held, callVars, ghostVars
  <2>2. catalog[v].age >= MissRefresh
    BY <2>1, HeldEntries, LimitsAssumption
  <2>3. Spacing'
    BY <2>1, <2>2, DiscardSpacing
  <2>4. \A u \in Held(catalog') : u \in Held(catalog) /\ catalog'[u] = catalog[u]
    BY <2>1 DEF DiscardCached, Discard, Held
  <2> QED
    BY <2>1, <2>3, <2>4 DEF SpacingInv, SpacingType, SoonSafe
<1>16. ASSUME NEW e \in Exchanges, DropOversized(e)  PROVE SpacingInv'
  <2> DEFINE D == {v \in Held(catalog) : catalog[v].client = e}
  <2>1. /\ e \in soon /\ soon' = soon \ {e} /\ DiscardCached(D)
        /\ UNCHANGED <<since, cooldown, dropped, pc, client>>
    BY <1>16 DEF DropOversized, callVars, ghostVars
  <2>2. D \in SUBSET Venues /\ \A v \in D : v \in dropped
    BY <2>1 DEF Held, SpacingInv, SoonSafe
  <2> HIDE DEF D
  <2>3. Spacing'
    BY <2>1, <2>2, DiscardSpacing
  <2>4. \A u \in Held(catalog') : u \in Held(catalog) /\ catalog'[u] = catalog[u]
    BY <2>1 DEF DiscardCached, Discard, Held
  <2> QED
    BY <2>1, <2>3, <2>4 DEF SpacingInv, SpacingType, SoonSafe
<1>17. CASE Close
  <2>1. /\ catalog' = [v \in Venues |-> None] /\ dropped' = Venues
        /\ cooldown' = [v \in Venues |-> 0] /\ UNCHANGED <<since, soon, pc, client>>
    BY <1>17 DEF Close, DiscardCached, Discard, callVars
  <2> QED
    BY <2>1, LimitsAssumption DEF SpacingInv, SpacingType, SoonSafe, Spacing, Held
<1>18. CASE Tick
  <2>1. /\ catalog' = [v \in Venues |-> IF v \in Held(catalog) /\ catalog[v].age < Ttl
                                         THEN [catalog[v] EXCEPT !.age = @ + 1]
                                         ELSE catalog[v]]
        /\ cooldown' = [v \in Venues |-> IF cooldown[v] > 0 THEN cooldown[v] - 1 ELSE 0]
        /\ since' = [v \in Venues |-> IF since[v] < MissRefresh THEN since[v] + 1 ELSE since[v]]
        /\ UNCHANGED <<soon, pc, client, dropped>>
    BY <1>18 DEF Tick, callVars
  <2>2. ASSUME NEW v \in Held(catalog)
        PROVE  /\ v \in Held(catalog') /\ catalog'[v].client = catalog[v].client
               /\ catalog'[v].age \in {catalog[v].age, catalog[v].age + 1}
    BY <2>1, <2>2, LimitsAssumption, EntriesAssumption DEF CatalogType, Held, Entries
  <2>3. Held(catalog') = Held(catalog)
    BY <2>1, <2>2 DEF Held
  <2>4. SpacingType'
    BY <2>1, LimitsAssumption DEF SpacingInv, SpacingType
  <2>5. SoonSafe'
    BY <2>1, <2>2, <2>3 DEF SpacingInv, SoonSafe
  <2>6. ASSUME NEW v \in Venues \ dropped
        PROVE  /\ v \in Held(catalog') => since'[v] = MissRefresh \/ since'[v] >= catalog'[v].age
               /\ v \notin Held(catalog') => cooldown'[v] + since'[v] >= MissRefresh
    <3>1. /\ since[v] \in 0 .. MissRefresh /\ cooldown[v] \in 0 .. MissRefresh
          /\ since'[v] = IF since[v] < MissRefresh THEN since[v] + 1 ELSE since[v]
          /\ cooldown'[v] = IF cooldown[v] > 0 THEN cooldown[v] - 1 ELSE 0
      BY <2>1 DEF SpacingInv, SpacingType
    <3>2. CASE v \in Held(catalog)
      <4>1. since[v] = MissRefresh \/ since[v] >= catalog[v].age
        BY <3>2 DEF SpacingInv, Spacing
      <4>2. catalog[v].age \in 0 .. Ttl /\ catalog'[v].age \in {catalog[v].age, catalog[v].age + 1}
        BY <3>2, <2>2, HeldEntries
      <4> QED
        BY <2>3, <3>1, <3>2, <4>1, <4>2, LimitsAssumption
    <3>3. CASE v \notin Held(catalog)
      <4>1. cooldown[v] + since[v] >= MissRefresh
        BY <3>3 DEF SpacingInv, Spacing
      <4> QED
        BY <2>3, <3>1, <3>3, <4>1, LimitsAssumption
    <3> QED
      BY <3>2, <3>3
  <2> QED
    BY <2>1, <2>4, <2>5, <2>6 DEF SpacingInv, Spacing
<1> QED
  BY <1>2, <1>3, <1>4, <1>5, <1>6, <1>7, <1>8, <1>9, <1>11, <1>12, <1>13, <1>14, <1>15,
     <1>16, <1>17, <1>18, <1>19 DEF Next, CallerStep

\* Where a catalog is kept no shorter than it must be before a miss refreshes it (900
\* and 60 seconds by default), no venue is asked for its catalog again before the
\* refresh interval has passed since its last load that ended in a catalog or in a
\* cooldown (ccxt.py:334-371), unless a limit or close() took the catalog.
THEOREM LoadsAreSpaced == MissRefresh <= Ttl /\ Spec => LoadsSpaced
<1> SUFFICES ASSUME MissRefresh <= Ttl  PROVE Spec => LoadsSpaced
  OBVIOUS
<1> DEFINE Inv == ClientInv /\ SpacingInv
<1>1. Init => SpacingInv
  BY LimitsAssumption
  DEF Init, SpacingInv, SpacingType, SoonSafe, Spacing, Held, Loading
<1>2. ClientInv /\ SpacingInv /\ [Next]_vars => SpacingInv'
  BY SpacingInvNext DEF ClientInv
<1>3. ClientInv /\ SpacingInv /\ [Next]_vars =>
        [\A c \in Callers : pc[c] = "lock" /\ pc'[c] = "wait" =>
            since[at[c]] = MissRefresh \/ at[c] \in dropped]_vars
  <2> SUFFICES ASSUME ClientInv, SpacingInv, Next, NEW c \in Callers,
                      pc[c] = "lock", pc'[c] = "wait", at[c] \notin dropped
               PROVE  since[at[c]] = MissRefresh
    BY DEF vars
  <2>1. Construct(c)
    <3>1. ASSUME NEW d \in Callers, CallerStep(d)  PROVE Construct(c)
      BY <3>1 DEF CallerStep, Call, Arrive, LookupHit, LookupMiss, Refuse, StartLoad, Construct,
         Loaded, LoadFailed, FailedClosed, CancelledClosed, Release, Cancel, Borrow, Leave,
         Goto, ClientInv, CallType
    <3>2. ~(UNCHANGED pc)
      OBVIOUS
    <3> QED
      BY <3>1, <3>2 DEF Next, Expire, DropOversized, Closed, Close, CloseGathered, Tick,
         callVars
  <2>2. /\ at[c] \in Venues \ dropped /\ cooldown[at[c]] \in 0 .. MissRefresh
        /\ since[at[c]] \in 0 .. MissRefresh
    BY DEF ClientInv, CallType, SpacingInv, SpacingType
  <2>3. /\ catalog[at[c]] # None => catalog[at[c]].age >= MissRefresh
        /\ ~(cooldown[at[c]] > 0)
    BY <2>1 DEF Construct, NeedsLoad, Aged, CoolingDown
  <2>4. CASE at[c] \in Held(catalog)
    <3>1. since[at[c]] = MissRefresh \/ since[at[c]] >= catalog[at[c]].age
      BY <2>2, <2>4 DEF SpacingInv, Spacing
    <3>2. catalog[at[c]].age >= MissRefresh /\ catalog[at[c]].age \in 0 .. Ttl
      BY <2>3, <2>4, HeldEntries DEF Held, ClientInv
    <3> QED
      BY <2>2, <3>1, <3>2, LimitsAssumption
  <2>5. CASE at[c] \notin Held(catalog)
    <3>1. cooldown[at[c]] + since[at[c]] >= MissRefresh
      BY <2>2, <2>5 DEF SpacingInv, Spacing
    <3> QED
      BY <2>2, <2>3, <3>1, LimitsAssumption
  <2> QED
    BY <2>4, <2>5
<1> QED
  BY <1>1, <1>2, <1>3, ClientInvariant, PTL DEF Spec, LoadsSpaced

-----------------------------------------------------------------------------
(* The order and the size of the cache.                                    *)

\* The catalogs cat stand in the order old.
Ordered(cat, old) ==
    /\ old \in [Venues -> SUBSET Venues]
    /\ \A u, v \in Venues : u \in old[v] => cat[u] # None /\ cat[v] # None
    /\ \A u, v \in Venues :
           cat[u] # None /\ cat[v] # None /\ u # v => (u \in old[v] <=> v \notin old[u])
    /\ \A v \in Venues : v \notin old[v] /\ \A u \in old[v] : old[u] \subseteq old[v]

\* Catalogs whose clients stay in the cache: no discard of them is scheduled.
Staying == {v \in Held(catalog) : catalog[v].client \notin soon}

\* The retained catalogs would fit if the scheduled discards ran now.
Limited == Within(Staying, catalog)

\* What TypeOK says beyond the types of the calls and the catalogs.
RestType ==
    /\ Ordered(catalog, older)
    /\ cooldown \in [Venues -> 0 .. MissRefresh] /\ since \in [Venues -> 0 .. MissRefresh]
    /\ soon \subseteq Exchanges /\ awaited \subseteq Exchanges /\ dropped \subseteq Venues
    /\ closer \in {"open", "gather", "closed"}

\* Every set of cached catalogs has a size, and fewer catalogs are not larger.
LEMMA FewerFit ==
    ASSUME NEW T \in SUBSET Venues, NEW S \in SUBSET T, NEW cat, NEW now,
           \A v \in T : cat[v].bytes \in Nat,
           \A v \in S : now[v].bytes = cat[v].bytes,
           Within(T, cat)
    PROVE  Within(S, now)
<1> DEFINE Bytes(v) == {v} \X (1 .. cat[v].bytes)
           All == UNION {Bytes(v) : v \in T}
           Some == UNION {{v} \X (1 .. now[v].bytes) : v \in S}
<1>1. IsFiniteSet(T) /\ IsFiniteSet(S)
  BY LimitsAssumption, FS_Subset
<1>2. IsFiniteSet({Bytes(v) : v \in T})
  <2>1. [v \in T |-> Bytes(v)] \in Surjection(T, {Bytes(v) : v \in T})
    BY DEF Surjection
  <2> QED
    BY <1>1, <2>1, FS_Surjection
<1>3. \A v \in T : IsFiniteSet(Bytes(v))
  <2> TAKE v \in T
  <2>1. IsFiniteSet(1 .. cat[v].bytes)
    BY FS_Interval
  <2>2. IsFiniteSet({v})
    BY FS_Singleton
  <2> QED
    BY <2>1, <2>2, FS_Product
<1>4. IsFiniteSet(All)
  BY <1>2, <1>3, FS_UNION
<1>5. Some \subseteq All
  OBVIOUS
<1>6. Cardinality(Some) <= Cardinality(All) /\ Cardinality(S) <= Cardinality(T)
  BY <1>1, <1>4, <1>5, FS_Subset
<1>7. /\ Cardinality(Some) \in Nat /\ Cardinality(All) \in Nat
      /\ Cardinality(S) \in Nat /\ Cardinality(T) \in Nat
  BY <1>1, <1>4, <1>5, FS_Subset, FS_CardinalityType
<1>8. TotalBytes(T, cat) = Cardinality(All) /\ TotalBytes(S, now) = Cardinality(Some)
  BY DEF TotalBytes
<1> HIDE DEF All, Some
<1> QED
  BY <1>6, <1>7, <1>8, LimitsAssumption DEF Within

\* Discarded catalogs leave the order of the others as it is.
LEMMA DiscardOrder ==
    ASSUME NEW D, NEW cat \in [Venues -> Entries \cup {None}], NEW old,
           Ordered(cat, old), Discard(D, cat, old)
    PROVE  Ordered(catalog', older')
<1>1. /\ \A v \in Venues : catalog'[v] = IF v \in D THEN None ELSE cat[v]
      /\ older' = [v \in Venues |-> IF v \in D THEN {} ELSE old[v] \ D]
  BY DEF Discard, Without
<1>2. older' \in [Venues -> SUBSET Venues]
  BY <1>1 DEF Ordered
<1>3. \A u, v \in Venues : u \in older'[v] <=> u \in old[v] /\ u \notin D /\ v \notin D
  BY <1>1
<1> QED
  BY <1>1, <1>2, <1>3 DEF Ordered

\* A new catalog is the youngest.
LEMMA InsertOrder ==
    ASSUME Ordered(catalog, older), NEW v \in Venues, catalog[v] = None,
           catalog \in [Venues -> Entries \cup {None}], NEW entry \in Entries
    PROVE  Ordered([catalog EXCEPT ![v] = entry], Inserted(v))
<1> DEFINE cat == [catalog EXCEPT ![v] = entry]
           old == Inserted(v)
<1>1. \A u \in Venues : cat[u] = IF u = v THEN entry ELSE catalog[u]
  OBVIOUS
<1>2. old \in [Venues -> SUBSET Venues]
  BY DEF Inserted, Ordered, Held
<1>3. \A t, u \in Venues : t \in old[u] <=> IF u = v THEN catalog[t] # None ELSE t \in older[u]
  BY DEF Inserted, Ordered, Held
<1>4. entry # None
  BY EntriesAssumption
<1> HIDE DEF cat, old
<1>5. \A u \in Venues : v \notin older[u]
  BY DEF Ordered
<1>6. \A t, u \in Venues : t \in old[u] => cat[t] # None /\ cat[u] # None
  BY <1>1, <1>3, <1>4, <1>5 DEF Ordered
<1>7. \A t, u \in Venues :
          cat[t] # None /\ cat[u] # None /\ t # u => (t \in old[u] <=> u \notin old[t])
  BY <1>1, <1>3, <1>4, <1>5 DEF Ordered
<1>8. \A u \in Venues : u \notin old[u] /\ \A t \in old[u] : old[t] \subseteq old[u]
  <2> SUFFICES ASSUME NEW u \in Venues
               PROVE  u \notin old[u] /\ \A t \in old[u] : \A s \in old[t] : s \in old[u]
    OBVIOUS
  <2> QED
    BY <1>2, <1>3, <1>5 DEF Ordered
<1>9. Ordered(cat, old)
  BY <1>2, <1>6, <1>7, <1>8 DEF Ordered
<1> QED
  BY <1>9 DEF cat, old

\* When no other catalog stays and none grows, the cache still fits.
LEMMA LimitedKept ==
    ASSUME CatalogType, Limited,
           \A v \in Staying' : v \in Staying /\ catalog'[v].bytes = catalog[v].bytes
    PROVE  Limited'
<1>1. Staying \in SUBSET Venues /\ Staying' \in SUBSET Staying
  BY DEF Staying, Held
<1>2. \A v \in Staying : catalog[v].bytes \in Nat
  BY LimitsAssumption DEF CatalogType, Staying, Held, Entries
<1>3. Within(Staying', catalog')
  BY <1>1, <1>2, FewerFit DEF Limited
<1> QED
  BY <1>3 DEF Limited

\* A discard of cached catalogs: fewer stay, in the same order.
LEMMA DiscardRest ==
    ASSUME CatalogType, RestType, Limited, NEW D, DiscardCached(D), NEW e,
           soon' = soon \/ (soon' = soon \ {e} /\ \A v \in Held(catalog) :
                                catalog[v].client = e => v \in D)
    PROVE  Ordered(catalog', older') /\ Limited'
<1>1. Ordered(catalog', older')
  BY DiscardOrder DEF CatalogType, RestType, DiscardCached
<1>2. catalog' = [v \in Venues |-> IF v \in D THEN None ELSE catalog[v]]
  BY DEF DiscardCached, Discard
<1>3. \A v \in Staying' : v \in Staying /\ catalog'[v].bytes = catalog[v].bytes
  BY <1>2 DEF Staying, Held
<1> QED
  BY <1>1, <1>3, LimitedKept

\* A loaded catalog: either the limits hold with it, or without it and with what
\* stayed before, and then its discard is scheduled.
LEMMA LoadedRest ==
    ASSUME CallType, CatalogType, LoadSafe, RestType, Limited, NEW c \in Callers, Loaded(c)
    PROVE  RestType' /\ Limited'
<1> DEFINE e == client[c]
           v == at[c]
<1>1. v \in Venues /\ e \in Exchanges /\ catalog[v] = None
  BY DEF Loaded, CallType, LoadSafe, Loading
<1>2. PICK bytes \in Sizes : Retain(v, e, bytes)
  BY DEF Loaded
<1> DEFINE entry == [client |-> e, bytes |-> bytes, age |-> 0]
           cat == [catalog EXCEPT ![v] = entry]
<1>3. PICK D \in SUBSET (Held(cat) \ {v}) :
          /\ \A u \in D : ~Borrowed(cat[u].client)
          /\ Discard(D, cat, Inserted(v))
          /\ \/ /\ soon' = soon /\ dropped' = (dropped \ {v}) \cup D
                /\ Within(Held(cat) \ D, cat)
             \/ soon' = soon \cup {e} /\ dropped' = dropped \cup D \cup {v}
  BY <1>1, <1>2, RetainDiscardsIdle, Zenon
<1>4. entry \in Entries /\ entry.client = e /\ entry # None
  BY <1>1, LimitsAssumption, EntriesAssumption DEF Entries
<1>5. UNCHANGED <<cooldown, closer, awaited>> /\ since' = [since EXCEPT ![v] = 0]
  BY DEF Loaded, closeVars
<1> HIDE DEF entry, e, v
<1>6. cat \in [Venues -> Entries \cup {None}] /\ Ordered(cat, Inserted(v))
  BY <1>1, <1>4, InsertOrder DEF CatalogType, RestType
<1>7. /\ cat[v] = entry /\ \A u \in Venues \ {v} : cat[u] = catalog[u]
      /\ Held(cat) \subseteq Venues
  BY <1>1 DEF CatalogType, Held
<1>8. catalog' = [u \in Venues |-> IF u \in D THEN None ELSE cat[u]]
  BY <1>3 DEF Discard
<1> HIDE DEF cat
<1>9. RestType'
  <2>1. Ordered(catalog', older')
    BY <1>3, <1>6, DiscardOrder
  <2>2. since' \in [Venues -> 0 .. MissRefresh]
    <3>1. 0 \in 0 .. MissRefresh
      BY LimitsAssumption
    <3> QED
      BY <1>5, <3>1 DEF RestType
  <2>3. soon' \subseteq Exchanges /\ dropped' \subseteq Venues
    BY <1>1, <1>3, <1>7 DEF RestType
  <2> QED
    BY <1>5, <2>1, <2>2, <2>3 DEF RestType
<1>10. Limited'
  <2>1. Staying' = {u \in Held(cat) \ D : cat[u].client \notin soon'}
    BY <1>7, <1>8 DEF Staying, Held
  <2>2. CASE soon' = soon /\ Within(Held(cat) \ D, cat)
    <3>1. \A u \in Held(cat) \ D : cat[u].bytes \in Nat
      BY <1>6, LimitsAssumption DEF Held, Entries
    <3>2. \A u \in Staying' : catalog'[u].bytes = cat[u].bytes
      BY <1>8, <2>1 DEF Held
    <3>3. Held(cat) \ D \in SUBSET Venues /\ Staying' \in SUBSET (Held(cat) \ D)
      BY <1>7, <2>1
    <3>4. Within(Staying', catalog')
      BY <2>2, <3>1, <3>2, <3>3, FewerFit
    <3> QED
      BY <3>4 DEF Limited
  <2>3. CASE soon' = soon \cup {e}
    <3>1. \A u \in Staying' : u \in Staying /\ catalog'[u].bytes = catalog[u].bytes
      BY <1>4, <1>7, <1>8, <2>1, <2>3 DEF Staying, Held
    <3> QED
      BY <3>1, LimitedKept
  <2> QED
    BY <1>3, <2>2, <2>3
<1> QED
  BY <1>9, <1>10

\* As time passes a catalog keeps its client and its size.
LEMMA TickAges ==
    ASSUME CatalogType, Tick, NEW v \in Held(catalog)
    PROVE  /\ catalog'[v] # None /\ catalog'[v].client = catalog[v].client
           /\ catalog'[v].bytes = catalog[v].bytes
<1>1. catalog' = [u \in Venues |-> IF u \in Held(catalog) /\ catalog[u].age < Ttl
                                   THEN [catalog[u] EXCEPT !.age = @ + 1]
                                   ELSE catalog[u]]
  BY DEF Tick
<1>2. v \in Venues /\ catalog[v] \in Entries /\ catalog[v].age \in 0 .. Ttl
  BY DEF Held, CatalogType, Entries
<1>3. CASE catalog[v].age < Ttl
  <2>1. catalog'[v] = [catalog[v] EXCEPT !.age = @ + 1]
    BY <1>1, <1>2, <1>3
  <2>2. [catalog[v] EXCEPT !.age = @ + 1] \in Entries
    BY <1>2, <1>3, LimitsAssumption DEF Entries
  <2> QED
    BY <1>2, <2>1, <2>2, EntriesAssumption DEF Entries
<1>4. CASE ~(catalog[v].age < Ttl)
  BY <1>1, <1>2, <1>4, EntriesAssumption
<1> QED
  BY <1>3, <1>4

\* The inductive step.
LEMMA RestNext ==
    ASSUME CallType, CatalogType, LoadSafe, RestType, Limited, [Next]_vars, closing' \subseteq Exchanges
    PROVE  RestType' /\ Limited'
<1>1. ASSUME UNCHANGED <<catalog, older, soon>>  PROVE Ordered(catalog', older') /\ Limited'
  <2>1. \A v \in Staying' : v \in Staying /\ catalog'[v].bytes = catalog[v].bytes
    BY <1>1 DEF Staying, Held
  <2> QED
    BY <1>1, <2>1, LimitedKept DEF RestType
<1> DEFINE Same == UNCHANGED <<cooldown, since, soon, awaited, dropped, closer>>
<1>2. ASSUME Same, Ordered(catalog', older'), Limited'  PROVE RestType' /\ Limited'
  BY <1>2 DEF RestType
<1>3. ASSUME UNCHANGED <<catalog, older>>, Same  PROVE RestType' /\ Limited'
  BY <1>1, <1>2, <1>3
<1>4. ASSUME NEW c \in Callers, CallerStep(c)  PROVE RestType' /\ Limited'
  <2>1. ASSUME NEW v \in Venues, Call(c, v)  PROVE RestType' /\ Limited'
    BY <1>3, <2>1 DEF Call, catalogVars, closeVars, ghostVars
  <2>8. CASE Arrive(c)
    BY <1>3, <2>8 DEF Arrive, catalogVars, closeVars, ghostVars
  <2>2. CASE LookupHit(c) \/ LookupMiss(c)
    BY <1>3, <2>2 DEF LookupHit, LookupMiss, catalogVars, closeVars, ghostVars
  <2>3. CASE Refuse(c) \/ Construct(c)
    <3>1. Same /\ DiscardCached({at[c]})
      BY <2>3 DEF Refuse, Construct, NeedsLoad, closeVars, ghostVars
    <3>2. Ordered(catalog', older') /\ Limited'
      BY <3>1, DiscardRest
    <3> QED
      BY <1>2, <3>1, <3>2
  <2>4. CASE StartLoad(c) \/ LoadFailed(c) \/ CancelledClosed(c) \/ Cancel(c)
    BY <1>3, <2>4
    DEF StartLoad, LoadFailed, CancelledClosed, Cancel, catalogVars, closeVars, ghostVars
  <2>5. CASE Loaded(c)
    BY <2>5, LoadedRest
  <2>6. CASE FailedClosed(c)
    <3>1. UNCHANGED <<catalog, older, soon, awaited, closer>>
      BY <2>6 DEF FailedClosed, catalogVars, closeVars
    <3>2. /\ cooldown' \in [Venues -> 0 .. MissRefresh] /\ since' \in [Venues -> 0 .. MissRefresh]
          /\ dropped' \subseteq Venues
      BY <2>6, LimitsAssumption DEF FailedClosed, RestType, ghostVars
    <3> QED
      BY <1>1, <3>1, <3>2 DEF RestType
  <2>7. CASE Release(c)
    BY <1>3, <2>7 DEF Release, closeVars, ghostVars
  <2> QED
    BY <1>4, <2>1, <2>2, <2>3, <2>4, <2>5, <2>6, <2>7, <2>8 DEF CallerStep
<1>5. ASSUME NEW v \in Venues, Expire(v)  PROVE RestType' /\ Limited'
  <2>1. Same /\ DiscardCached({v})
    BY <1>5 DEF Expire, closeVars, ghostVars
  <2>2. Ordered(catalog', older') /\ Limited'
    BY <2>1, DiscardRest
  <2> QED
    BY <1>2, <2>1, <2>2
<1>6. ASSUME NEW e \in Exchanges, DropOversized(e)  PROVE RestType' /\ Limited'
  <2> DEFINE D == {v \in Held(catalog) : catalog[v].client = e}
  <2>1. DiscardCached(D) /\ soon' = soon \ {e} /\ UNCHANGED <<cooldown, closeVars, ghostVars>>
    BY <1>6 DEF DropOversized
  <2>2. \A v \in Held(catalog) : catalog[v].client = e => v \in D
    OBVIOUS
  <2> HIDE DEF D
  <2>3. Ordered(catalog', older') /\ Limited'
    BY <2>1, <2>2, DiscardRest
  <2> QED
    BY <2>1, <2>3 DEF RestType, closeVars, ghostVars
<1>7. ASSUME NEW e \in Exchanges, Closed(e)  PROVE RestType' /\ Limited'
  <2>1. /\ UNCHANGED <<catalog, older, soon, cooldown, since, dropped, closer>>
        /\ awaited' = awaited \ {e}
    BY <1>7 DEF Closed, ghostVars
  <2> QED
    BY <1>1, <2>1 DEF RestType
<1>8. CASE Close
  <2>1. /\ DiscardCached(Venues) /\ awaited' = closing' /\ closer' = "gather"
        /\ cooldown' = [v \in Venues |-> 0] /\ dropped' = Venues /\ UNCHANGED <<soon, since>>
    BY <1>8 DEF Close
  <2>2. Ordered(catalog', older') /\ Limited'
    BY <2>1, DiscardRest
  <2> QED
    BY <2>1, <2>2, LimitsAssumption DEF RestType
<1>9. CASE CloseGathered
  <2>1. /\ UNCHANGED <<catalog, older, soon, cooldown, since, dropped, awaited>>
        /\ closer' = "closed"
    BY <1>9 DEF CloseGathered, catalogVars, ghostVars
  <2> QED
    BY <1>1, <2>1 DEF RestType
\* Catalogs age, and keep their clients and sizes.
<1>10. CASE Tick
  <2>1. /\ UNCHANGED <<older, soon, awaited, dropped, closer>>
        /\ catalog' = [v \in Venues |-> IF v \in Held(catalog) /\ catalog[v].age < Ttl
                                        THEN [catalog[v] EXCEPT !.age = @ + 1]
                                        ELSE catalog[v]]
        /\ cooldown' = [v \in Venues |-> IF cooldown[v] > 0 THEN cooldown[v] - 1 ELSE 0]
        /\ since' = [v \in Venues |-> IF since[v] < MissRefresh
                                      THEN since[v] + 1 ELSE since[v]]
    BY <1>10 DEF Tick, closeVars
  <2>2. ASSUME NEW v \in Held(catalog)
        PROVE  /\ catalog'[v] # None /\ catalog'[v].client = catalog[v].client
               /\ catalog'[v].bytes = catalog[v].bytes
    BY <1>10, TickAges
  <2>3. \A v \in Venues : catalog'[v] # None <=> catalog[v] # None
    BY <2>1, <2>2 DEF Held
  <2>4. Ordered(catalog', older')
    BY <2>1, <2>3 DEF RestType, Ordered
  <2>5. \A v \in Staying' : v \in Staying /\ catalog'[v].bytes = catalog[v].bytes
    BY <2>1, <2>2, <2>3 DEF Staying, Held
  <2>6. cooldown' \in [Venues -> 0 .. MissRefresh] /\ since' \in [Venues -> 0 .. MissRefresh]
    BY <2>1, LimitsAssumption DEF RestType
  <2> QED
    BY <2>1, <2>4, <2>5, <2>6, LimitedKept DEF RestType
<1>11. CASE UNCHANGED vars
  BY <1>3, <1>11 DEF vars, catalogVars, closeVars, ghostVars
<1> QED
  BY <1>4, <1>5, <1>6, <1>7, <1>8, <1>9, <1>10, <1>11 DEF Next

\* In every reachable state the cache is ordered, and would be within its limits
\* once the scheduled discards have run.
LEMMA RestInvariant == Spec => [](RestType /\ Limited)
<1>1. Init => RestType /\ Limited
  <2> SUFFICES ASSUME Init  PROVE RestType /\ Limited
    OBVIOUS
  <2>1. RestType
    BY LimitsAssumption DEF Init, RestType, Ordered
  <2>2. Staying = {}
    BY DEF Init, Staying, Held
  <2>3. UNION {{v} \X (1 .. catalog[v].bytes) : v \in {}} = {}
    OBVIOUS
  <2>4. TotalBytes({}, catalog) = 0 /\ Cardinality({}) = 0
    BY <2>3, FS_EmptySet DEF TotalBytes
  <2> QED
    BY <2>1, <2>2, <2>4, LimitsAssumption DEF Limited, Within
<1>2. RestType /\ Limited /\ ClientInv /\ ClientInv' /\ [Next]_vars => RestType' /\ Limited'
  BY RestNext DEF ClientInv, CatalogType
<1> QED
  BY <1>1, <1>2, ClientInvariant, PTL DEF Spec

\* Type correctness; the order of the dictionary of catalogs is a total order.
THEOREM CatalogTypeCorrect == Spec => []TypeOK
<1>1. ClientInv /\ RestType => TypeOK
  BY DEF ClientInv, CallType, CatalogType, RestType, Ordered, TypeOK, AgeOrder, Loading
<1> QED
  BY <1>1, ClientInvariant, RestInvariant, PTL

\* The cache keeps at most so many catalogs of at most so many bytes together,
\* whatever is borrowed: what _retain_catalog() cannot evict at once is gone when
\* the callback it schedules has run.
THEOREM CatalogsAreBounded == Spec => []RetentionBounded
<1>1. Limited => RetentionBounded
  <2> SUFFICES ASSUME Limited, soon = {}
               PROVE  /\ Cardinality(Held(catalog)) <= MaxEntries
                      /\ TotalBytes(Held(catalog), catalog) <= MaxBytes
    BY DEF RetentionBounded
  <2>1. Staying = Held(catalog)
    BY DEF Staying
  <2> QED
    BY <2>1 DEF Limited, Within
<1> QED
  BY <1>1, RestInvariant, PTL

-----------------------------------------------------------------------------
(* The refinement of LentClients.                                          *)

\* The client in preparation for a venue is the one of its loader.
LoadersPrepare ==
    /\ \A c \in Callers : pc[c] \in Loading =>
           at[c] \in Venues /\ Preparing[at[c]] = client[c] /\ client[c] # None
    /\ \A v \in Venues : (\A c \in Callers : pc[c] \in Loading => at[c] # v)
           => Preparing[v] = None

\* It is the only one, thanks to the lock.
LEMMA LoadersKnown == ClientInv => LoadersPrepare
<1> SUFFICES ASSUME ClientInv  PROVE LoadersPrepare
  OBVIOUS
<1>1. ASSUME NEW c \in Callers, pc[c] \in Loading
      PROVE  at[c] \in Venues /\ Preparing[at[c]] = client[c] /\ client[c] # None
  <2>1. at[c] \in Venues /\ client[c] \in Exchanges
    BY <1>1 DEF ClientInv, CallType, Loading
  <2>2. LoaderOf(at[c]) = {c}
    BY <1>1 DEF ClientInv, LoadSafe, LoaderOf
  <2>3. (CHOOSE d \in LoaderOf(at[c]) : TRUE) = c
    BY <2>2
  <2> QED
    BY <2>1, <2>2, <2>3, LimitsAssumption DEF Preparing
<1>2. ASSUME NEW v \in Venues, \A c \in Callers : pc[c] \in Loading => at[c] # v
      PROVE  Preparing[v] = None
  <2>1. LoaderOf(v) = {}
    BY <1>2 DEF LoaderOf
  <2> QED
    BY <2>1 DEF Preparing
<1> QED
  BY <1>1, <1>2 DEF LoadersPrepare

\* The same fetches load the same clients.
LEMMA SamePreparing ==
    ASSUME ClientInv, ClientInv',
           \A c \in Callers : /\ pc[c] \in Loading <=> pc'[c] \in Loading
                              /\ pc[c] \in Loading => at'[c] = at[c] /\ client'[c] = client[c]
    PROVE  UNCHANGED Preparing
<1>1. LoadersPrepare /\ LoadersPrepare'
  BY LoadersKnown, PTL
<1>2. ASSUME NEW v \in Venues  PROVE Preparing'[v] = Preparing[v]
  <2>1. CASE \E c \in Callers : pc[c] \in Loading /\ at[c] = v
    BY <1>1, <2>1 DEF LoadersPrepare
  <2>2. CASE \A c \in Callers : pc[c] \in Loading => at[c] # v
    BY <1>1, <2>2 DEF LoadersPrepare
  <2> QED
    BY <2>1, <2>2
<1>3. /\ Preparing = [v \in Venues |-> Preparing[v]]
      /\ Preparing' = [v \in Venues |-> Preparing'[v]]
  BY DEF Preparing
<1> QED
  BY <1>2, <1>3

\* A fetch that loads no more: its venue has no client in preparation then.
LEMMA OneLessPreparing ==
    ASSUME ClientInv, ClientInv', NEW c \in Callers, pc[c] \in Loading, pc'[c] \notin Loading,
           \A d \in Callers \ {c} : pc'[d] = pc[d] /\ at'[d] = at[d] /\ client'[d] = client[d]
    PROVE  /\ at[c] \in Venues /\ Preparing[at[c]] = client[c] /\ client[c] # None
           /\ Preparing' = [Preparing EXCEPT ![at[c]] = None]
<1>1. LoadersPrepare /\ LoadersPrepare'
  BY LoadersKnown, PTL
<1>2. at[c] \in Venues /\ Preparing[at[c]] = client[c] /\ client[c] # None
  BY <1>1 DEF LoadersPrepare
<1>3. Preparing'[at[c]] = None
  BY <1>1, <1>2 DEF ClientInv, LoadSafe, LoadersPrepare
<1>4. ASSUME NEW v \in Venues, v # at[c]  PROVE Preparing'[v] = Preparing[v]
  <2>1. CASE \E d \in Callers : pc[d] \in Loading /\ at[d] = v
    BY <1>1, <1>4, <2>1 DEF LoadersPrepare
  <2>2. CASE \A d \in Callers : pc[d] \in Loading => at[d] # v
    BY <1>1, <1>4, <2>2 DEF LoadersPrepare
  <2> QED
    BY <2>1, <2>2
<1>5. /\ Preparing = [v \in Venues |-> Preparing[v]]
      /\ Preparing' = [v \in Venues |-> Preparing'[v]]
  BY DEF Preparing
<1> QED
  BY <1>2, <1>3, <1>4, <1>5

\* The counter of a client is positive exactly when it is lent.
LEMMA BorrowedIsLent ==
    ASSUME ClientInv, NEW e \in Exchanges
    PROVE  Borrowed(e) <=> Lending!InUse(e)
<1>1. Borrowed(e) <=> \E c \in Callers : pc[c] = "use" /\ client[c] = e
  BY BorrowedIfUsed DEF ClientInv
<1> QED
  BY <1>1, LimitsAssumption DEF Lending!InUse, Lent

\* What a discard of cached catalogs is to the borrowers.
LEMMA DiscardWithdraws ==
    ASSUME ClientInv, NEW D \in SUBSET Venues, DiscardCached(D)
    PROVE  Offered' = Lending!Without(D) /\ Lending!Discard(D)
<1> DEFINE gone == {catalog[v].client : v \in D \cap Held(catalog)}
<1>1. /\ catalog' = [v \in Venues |-> IF v \in D THEN None ELSE catalog[v]]
      /\ retired' = retired \cup {e \in gone : Borrowed(e)}
      /\ closing' = closing \cup {e \in gone : ~Borrowed(e)}
  BY DEF DiscardCached, Discard
<1>2. Offered' = Lending!Without(D)
  BY <1>1 DEF Offered, Lending!Without
<1>3. gone \subseteq Exchanges
  BY DEF ClientInv, CatalogType, Held, Entries
<1>4. Lending!Withdrawn(D) = gone
  BY <1>3, LimitsAssumption DEF Lending!Withdrawn, Offered, Held
<1>5. \A e \in gone : Borrowed(e) <=> Lending!InUse(e)
  BY <1>3, BorrowedIsLent
<1> HIDE DEF gone
<1> QED
  BY <1>1, <1>2, <1>4, <1>5 DEF Lending!Discard

\* The same fetches have the same clients.
LEMMA SameLent ==
    ASSUME \A c \in Callers : /\ pc[c] = "use" <=> pc'[c] = "use"
                              /\ pc[c] = "use" => client'[c] = client[c]
    PROVE  UNCHANGED Lent
BY DEF Lent

\* A fetch that borrows a client has it from then on.
LEMMA BorrowLends ==
    ASSUME ClientInv, NEW c \in Callers, NEW e \in Exchanges, pc[c] # "use", Borrow(c, e)
    PROVE  Lent[c] = None /\ Lent' = [Lent EXCEPT ![c] = e]
<1>1. pc' = [pc EXCEPT ![c] = "use"] /\ client' = [client EXCEPT ![c] = e]
  BY DEF Borrow, Goto
<1> QED
  BY <1>1 DEF ClientInv, CallType, Lent

\* Steps that take no client from one place to another change nothing for the
\* borrowers.
LEMMA LendingStutters ==
    ASSUME ClientInv, ClientInv', UNCHANGED <<retired, closing, Offered>>,
           \A c \in Callers :
               /\ pc[c] \in Loading \cup {"use"} <=> pc'[c] \in Loading \cup {"use"}
               /\ pc[c] = "use" <=> pc'[c] = "use"
               /\ pc[c] \in Loading \cup {"use"} => at'[c] = at[c] /\ client'[c] = client[c]
    PROVE  UNCHANGED Lending!vars
<1>1. UNCHANGED Lent
  BY SameLent
<1>2. UNCHANGED Preparing
  BY SamePreparing DEF Loading
<1> QED
  BY <1>1, <1>2 DEF Lending!vars

\* The client of a load that failed or was cancelled is abandoned.
LEMMA LoadAbandons ==
    ASSUME ClientInv, ClientInv', NEW c \in Callers, pc[c] \in Loading,
           Leave(c), UNCHANGED <<catalog, retired, closing>>
    PROVE  Lending!Next
<1>1. /\ pc' = [pc EXCEPT ![c] = "idle"] /\ at' = [at EXCEPT ![c] = None]
      /\ client' = [client EXCEPT ![c] = None]
  BY DEF Leave, Goto
<1>2. /\ at[c] \in Venues /\ Preparing[at[c]] = client[c] /\ client[c] # None
      /\ Preparing' = [Preparing EXCEPT ![at[c]] = None]
  <2>1. /\ pc'[c] \notin Loading
        /\ \A d \in Callers \ {c} : pc'[d] = pc[d] /\ at'[d] = at[d] /\ client'[d] = client[d]
    BY <1>1 DEF ClientInv, CallType, Loading
  <2> QED
    BY <2>1, OneLessPreparing
<1>3. UNCHANGED Lent
  BY <1>1, SameLent DEF ClientInv, CallType, Loading
<1>4. UNCHANGED Offered
  BY DEF Offered
<1>5. Lending!Abandon(at[c])
  BY <1>2, <1>3, <1>4 DEF Lending!Abandon
<1> QED
  BY <1>2, <1>5 DEF Lending!Next

\* A catalog that is refreshed makes room for a client in preparation.
LEMMA ConstructPrepares ==
    ASSUME ClientInv, ClientInv', NEW c \in Callers, Construct(c)
    PROVE  Lending!Next
<1>1. /\ pc[c] = "lock" /\ at[c] \in Venues /\ DiscardCached({at[c]})
      /\ \A d \in Callers : pc[d] \in Loading => at[d] # at[c]
      /\ pc' = [pc EXCEPT ![c] = "wait"] /\ at' = at
  BY DEF Construct, NeedsLoad, HasLock, Goto, ClientInv, CallType
<1>2. PICK e \in Exchanges \ (open \cup soon) : client' = [client EXCEPT ![c] = e]
  BY DEF Construct
<1>3. LoadersPrepare /\ LoadersPrepare'
  BY LoadersKnown, PTL
<1>4. Preparing[at[c]] = None
  BY <1>1, <1>3 DEF LoadersPrepare
<1>5. Lending!Fresh(e)
  <2>1. e \notin retired \cup closing
    BY <1>2 DEF ClientInv, CatalogSafe, Placed
  <2>2. ASSUME NEW v \in Venues  PROVE e # Preparing[v]
    <3>1. CASE \E d \in Callers : pc[d] \in Loading /\ at[d] = v
      BY <1>2, <1>3, <3>1 DEF LoadersPrepare, ClientInv, LoadSafe
    <3>2. CASE \A d \in Callers : pc[d] \in Loading => at[d] # v
      BY <1>2, <1>3, <3>2, LimitsAssumption DEF LoadersPrepare
    <3> QED
      BY <3>1, <3>2
  <2>3. ASSUME NEW v \in Venues  PROVE e # Offered[v]
    BY <1>2, LimitsAssumption DEF Offered, ClientInv, CatalogSafe, Placed, Held
  <2> QED
    BY <2>1, <2>2, <2>3 DEF Lending!Fresh
<1>6. Preparing' = [Preparing EXCEPT ![at[c]] = e]
  <2>1. Preparing'[at[c]] = e
    BY <1>1, <1>2, <1>3 DEF LoadersPrepare, ClientInv, CallType, Loading
  <2>2. ASSUME NEW v \in Venues, v # at[c]  PROVE Preparing'[v] = Preparing[v]
    <3>1. \A d \in Callers : pc[d] \in Loading => /\ pc'[d] \in Loading
                                                  /\ at'[d] = at[d] /\ client'[d] = client[d]
      BY <1>1, <1>2 DEF ClientInv, CallType, Loading
    <3>2. \A d \in Callers : pc'[d] \in Loading => d = c \/ pc[d] \in Loading
      BY <1>1 DEF ClientInv, CallType
    <3>3. CASE \E d \in Callers : pc[d] \in Loading /\ at[d] = v
      BY <1>3, <3>1, <3>3 DEF LoadersPrepare
    <3>4. CASE \A d \in Callers : pc[d] \in Loading => at[d] # v
      BY <1>1, <1>3, <2>2, <3>2, <3>4 DEF LoadersPrepare
    <3> QED
      BY <3>3, <3>4
  <2>3. /\ Preparing = [v \in Venues |-> Preparing[v]]
        /\ Preparing' = [v \in Venues |-> Preparing'[v]]
    BY DEF Preparing
  <2> QED
    BY <1>1, <2>1, <2>2, <2>3
<1>7. UNCHANGED Lent
  BY <1>1, <1>2, SameLent DEF ClientInv, CallType
<1>8. Offered' = Lending!Without({at[c]}) /\ Lending!Discard({at[c]})
  BY <1>1, DiscardWithdraws
<1>9. Lending!Prepare(at[c], e)
  BY <1>4, <1>5, <1>6, <1>7, <1>8 DEF Lending!Prepare
<1> QED
  BY <1>1, <1>2, <1>9 DEF Lending!Next

\* A loaded catalog offers its client, which is lent at once when the instrument
\* resolves; only idle clients of other venues make room for it.
LEMMA LoadedOffers ==
    ASSUME ClientInv, ClientInv', NEW c \in Callers, Loaded(c)
    PROVE  Lending!Next
<1> DEFINE v == at[c]
           e == client[c]
<1>1. pc[c] = "load" /\ v \in Venues /\ e \in Exchanges /\ catalog[v] = None
  BY DEF Loaded, ClientInv, CallType, LoadSafe, Loading
<1>2. Borrow(c, e) \/ Leave(c)
  BY DEF Loaded
<1>3. /\ pc'[c] \notin Loading
      /\ \A d \in Callers \ {c} : pc'[d] = pc[d] /\ at'[d] = at[d] /\ client'[d] = client[d]
  BY <1>1, <1>2 DEF Borrow, Leave, Goto, ClientInv, CallType, Loading
<1>4. Preparing[v] = e /\ e # None /\ Preparing' = [Preparing EXCEPT ![v] = None]
  <2>1. pc[c] \in Loading
    BY <1>1 DEF Loading
  <2> QED
    BY <1>3, <2>1, OneLessPreparing
<1>5. PICK bytes \in Sizes : Retain(v, e, bytes)
  BY DEF Loaded
<1> DEFINE cat == [catalog EXCEPT ![v] = [client |-> e, bytes |-> bytes, age |-> 0]]
<1>6. PICK D \in SUBSET (Held(cat) \ {v}) :
          /\ \A u \in D : ~Borrowed(cat[u].client)
          /\ Discard(D, cat, Inserted(v))
  BY <1>1, <1>5, RetainDiscardsIdle, Zenon
<1> DEFINE gone == {cat[u].client : u \in D \cap Held(cat)}
<1>7. /\ catalog' = [u \in Venues |-> IF u \in D THEN None ELSE cat[u]]
      /\ retired' = retired \cup {f \in gone : Borrowed(f)}
      /\ closing' = closing \cup {f \in gone : ~Borrowed(f)}
  BY <1>6 DEF Discard
<1>8. /\ D \in SUBSET Venues /\ v \notin D
      /\ \A u \in D : cat[u] = catalog[u] /\ catalog[u] # None
  BY <1>1, <1>6 DEF Held, ClientInv, CatalogType
<1>9. gone \subseteq Exchanges /\ Lending!Withdrawn(D) = gone
  <2>1. gone = {catalog[u].client : u \in D}
    BY <1>8, <1>6
  <2>2. \A u \in D : catalog[u].client \in Exchanges /\ Offered[u] = catalog[u].client
    BY <1>8 DEF Offered, ClientInv, CatalogType, Entries
  <2> HIDE DEF gone
  <2>3. gone \subseteq Exchanges /\ {Offered[u] : u \in D} = gone
    BY <2>1, <2>2
  <2>4. None \notin gone
    BY <2>3, LimitsAssumption
  <2> QED
    BY <2>3, <2>4 DEF Lending!Withdrawn
<1>10. \A f \in gone : ~Borrowed(f) /\ ~Lending!InUse(f)
  BY <1>6, <1>9, BorrowedIsLent
<1>11. Offered' = [Lending!Without(D) EXCEPT ![v] = e]
  <2>1. cat[v] = [client |-> e, bytes |-> bytes, age |-> 0] /\ \A u \in Venues \ {v} : cat[u] = catalog[u]
    BY <1>1 DEF ClientInv, CatalogType
  <2>2. cat[v] # None
    BY <1>1, <2>1, <1>5, LimitsAssumption, EntriesAssumption DEF Entries
  <2>3. catalog'[v].client = e /\ catalog'[v] # None
    BY <1>1, <1>7, <1>8, <2>1, <2>2
  <2>4. \A u \in Venues \ {v} : catalog'[u] = IF u \in D THEN None ELSE catalog[u]
    BY <1>7, <2>1
  <2> HIDE DEF cat
  <2> QED
    BY <1>1, <2>3, <2>4 DEF Offered, Lending!Without
<1> HIDE DEF cat, gone
<1>12. Lending!Discard(D)
  BY <1>7, <1>9, <1>10 DEF Lending!Discard
<1>13. \/ UNCHANGED Lent
       \/ Lent[c] = None /\ Lent' = [Lent EXCEPT ![c] = e]
  <2>1. CASE Borrow(c, e)
    BY <1>1, <2>1, BorrowLends
  <2>2. CASE Leave(c)
    BY <1>1, <2>2, SameLent DEF Leave, Goto, ClientInv, CallType
  <2> QED
    BY <1>2, <2>1, <2>2
<1> HIDE DEF v, e
<1>14. Lending!Offer(v, D)
  BY <1>4, <1>8, <1>9, <1>10, <1>11, <1>12, <1>13 DEF Lending!Offer
<1> QED
  BY <1>1, <1>8, <1>14 DEF Lending!Next

\* A fetch that ends returns its client; the last borrower of a retired one has it
\* closed.
LEMMA ReleaseReturns ==
    ASSUME ClientInv, ClientInv', NEW c \in Callers, Release(c)
    PROVE  Lending!Next
<1> DEFINE e == client[c]
<1>1. pc[c] = "use" /\ e \in Exchanges /\ Lent[c] = e /\ e # None
  BY LimitsAssumption DEF Release, ClientInv, CallType, Lent
<1>2. /\ pc' = [pc EXCEPT ![c] = "idle"] /\ at' = [at EXCEPT ![c] = None]
      /\ client' = [client EXCEPT ![c] = None] /\ UNCHANGED catalog
  BY DEF Release, Leave, Goto
<1>3. Lent' = [Lent EXCEPT ![c] = None]
  BY <1>1, <1>2 DEF Lent, ClientInv, CallType
<1>4. UNCHANGED <<Preparing, Offered>>
  BY <1>1, <1>2, SamePreparing DEF ClientInv, CallType, Loading, Offered
<1>5. LastBorrower(e) <=> \A d \in Callers \ {c} : Lent[d] # e
  <2>1. IsFiniteSet(Using(e)) /\ c \in Using(e)
    BY <1>1, LimitsAssumption, FS_Subset DEF Using
  <2>2. users[e] = Cardinality(Using(e))
    BY <1>1 DEF ClientInv, UsersCounted, Using
  <2>a. /\ IsFiniteSet(Using(e) \ {c})
        /\ Cardinality(Using(e) \ {c}) = Cardinality(Using(e)) - 1
    BY <2>1, FS_RemoveElement
  <2>b. Cardinality(Using(e) \ {c}) = 0 <=> Using(e) \ {c} = {}
    BY <2>a, FS_EmptySet
  <2>c. users[e] \in Nat
    BY <1>1 DEF ClientInv, CallType
  <2>3. /\ Cardinality(Using(e) \ {c}) = users[e] - 1
        /\ Cardinality(Using(e) \ {c}) = 0 <=> Using(e) \ {c} = {}
        /\ users[e] \in Nat
    BY <2>2, <2>a, <2>b, <2>c
  <2>4. LastBorrower(e) <=> Using(e) \ {c} = {}
    BY <2>3 DEF LastBorrower
  <2>5. \A d \in Callers : d \in Using(e) <=> Lent[d] = e
    BY <1>1, LimitsAssumption DEF Using, Lent
  <2>6. Using(e) \subseteq Callers
    BY DEF Using
  <2> HIDE DEF e
  <2> QED
    BY <2>4, <2>5, <2>6
<1>6. Lending!Return(c)
  <2>1. /\ retired' = IF LastBorrower(e) THEN retired \ {e} ELSE retired
        /\ closing' = IF LastBorrower(e) THEN closing \cup (retired \cap {e}) ELSE closing
    BY DEF Release
  <2> HIDE DEF e
  <2>2. CASE e \in retired
    BY <1>1, <1>3, <1>4, <1>5, <2>1, <2>2 DEF Lending!Return
  <2>3. CASE e \notin retired
    BY <1>1, <1>3, <1>4, <1>5, <2>1, <2>3 DEF Lending!Return
  <2> QED
    BY <2>2, <2>3
<1> QED
  BY <1>6 DEF Lending!Next

\* Whatever discards cached catalogs and does not touch the borrowers withdraws
\* clients from offer.
LEMMA DiscardStep ==
    ASSUME ClientInv, NEW D \in SUBSET Venues, DiscardCached(D), UNCHANGED <<Preparing, Lent>>
    PROVE  Lending!Next
<1>1. Lending!Withdraw(D)
  BY DiscardWithdraws DEF Lending!Withdraw
<1> QED
  BY <1>1 DEF Lending!Next

\* Every step is a step of LentClients, or nothing changes for the borrowers.
LEMMA LendingNext ==
    ASSUME ClientInv, ClientInv', [Next]_vars
    PROVE  [Lending!Next]_(Lending!vars)
<1>t. CallType
  BY DEF ClientInv
<1>1. ASSUME NEW c \in Callers, CallerStep(c)  PROVE [Lending!Next]_(Lending!vars)
  <2>1. ASSUME NEW v \in Venues, Call(c, v)  PROVE UNCHANGED Lending!vars
    BY <2>1, <1>t, LendingStutters
    DEF Call, Goto, catalogVars, CallType, Loading, Offered
  <2>9. ASSUME Arrive(c)  PROVE UNCHANGED Lending!vars
    BY <2>9, <1>t, LendingStutters
    DEF Arrive, Goto, catalogVars, CallType, Loading, Offered
  <2>2. ASSUME LookupHit(c)  PROVE Lending!Next
    <3> DEFINE e == catalog[at[c]].client
    <3>1. /\ pc[c] = "lock" /\ at[c] \in Venues /\ catalog[at[c]] # None
          /\ Borrow(c, e) /\ UNCHANGED catalogVars
      BY <2>2, <1>t DEF LookupHit, HasLock, CallType
    <3>2. e \in Exchanges /\ Offered[at[c]] = e /\ e # None
      BY <3>1, LimitsAssumption DEF ClientInv, CatalogType, Entries, Offered
    <3>3. Lent[c] = None /\ Lent' = [Lent EXCEPT ![c] = e]
      BY <3>1, <3>2, BorrowLends
    <3>4. UNCHANGED Preparing
      BY <3>1, SamePreparing, <1>t DEF Borrow, Goto, Loading, CallType
    <3>5. Lending!Lend(c, at[c])
      BY <3>1, <3>2, <3>3, <3>4 DEF Lending!Lend, catalogVars, Offered
    <3> QED
      BY <3>1, <3>5 DEF Lending!Next
  <2>3. ASSUME LookupMiss(c)  PROVE UNCHANGED Lending!vars
    BY <2>3, <1>t, LendingStutters
    DEF LookupMiss, HasLock, Leave, Goto, catalogVars, CallType, Loading, Offered
  <2>4. ASSUME Refuse(c)  PROVE Lending!Next
    <3>1. /\ pc[c] = "lock" /\ {at[c]} \in SUBSET Venues /\ DiscardCached({at[c]})
          /\ Leave(c)
      BY <2>4, <1>t DEF Refuse, NeedsLoad, HasLock, CallType
    <3>2. UNCHANGED Preparing
      BY <3>1, <1>t, SamePreparing DEF Leave, Goto, CallType, Loading
    <3>3. UNCHANGED Lent
      BY <3>1, <1>t, SameLent DEF Leave, Goto, CallType
    <3> QED
      BY <3>1, <3>2, <3>3, DiscardStep
  <2>5. ASSUME StartLoad(c)  PROVE UNCHANGED Lending!vars
    BY <2>5, <1>t, LendingStutters
    DEF StartLoad, Goto, catalogVars, CallType, Loading, Offered
  <2>6. ASSUME LoadFailed(c)  PROVE UNCHANGED Lending!vars
    BY <2>6, <1>t, LendingStutters
    DEF LoadFailed, Goto, catalogVars, CallType, Loading, Offered
  <2>7. ASSUME FailedClosed(c) \/ CancelledClosed(c)  PROVE Lending!Next
    BY <2>7, LoadAbandons DEF FailedClosed, CancelledClosed, catalogVars, Loading
  <2>8. ASSUME Cancel(c)  PROVE Lending!Next \/ UNCHANGED Lending!vars
    <3>1. CASE pc[c] \in {"probe", "lock"} /\ Leave(c)
      BY <2>8, <3>1, <1>t, LendingStutters
      DEF Cancel, Leave, Goto, catalogVars, CallType, Loading, Offered
    <3>2. CASE pc[c] \in {"wait", "load"} /\ Goto(c, "closecancel") /\ UNCHANGED <<at, client>>
      BY <2>8, <3>2, <1>t, LendingStutters
      DEF Cancel, Goto, catalogVars, CallType, Loading, Offered
    <3>3. CASE pc[c] \in {"closefail", "closecancel"} /\ Leave(c)
      BY <2>8, <3>3, LoadAbandons DEF Cancel, catalogVars, Loading
    <3> QED
      BY <2>8, <3>1, <3>2, <3>3 DEF Cancel
  <2> QED
    BY <1>1, <2>1, <2>2, <2>3, <2>4, <2>5, <2>6, <2>7, <2>8, <2>9,
       ConstructPrepares,
       LoadedOffers, ReleaseReturns DEF CallerStep
<1>2. UNCHANGED callVars => UNCHANGED <<Preparing, Lent>>
  BY SamePreparing, SameLent DEF callVars
<1>3. ASSUME NEW v \in Venues, Expire(v)  PROVE Lending!Next
  BY <1>2, <1>3, DiscardStep DEF Expire
<1>4. ASSUME NEW e \in Exchanges, DropOversized(e)  PROVE Lending!Next
  <2>1. {v \in Held(catalog) : catalog[v].client = e} \in SUBSET Venues
    BY DEF Held
  <2> QED
    BY <1>2, <1>4, <2>1, DiscardStep DEF DropOversized
<1>5. ASSUME NEW e \in Exchanges, Closed(e)  PROVE Lending!Next
  <2>1. Lending!Closed(e)
    BY <1>2, <1>5 DEF Closed, Lending!Closed, Offered
  <2> QED
    BY <2>1 DEF Lending!Next
<1>6. CASE Close
  BY <1>2, <1>6, DiscardStep DEF Close
<1>7. CASE CloseGathered \/ UNCHANGED vars
  BY <1>2, <1>7 DEF CloseGathered, vars, catalogVars, callVars, Lending!vars, Offered
<1>8. CASE Tick
  <2>1. \A v \in Venues \ Held(catalog) : catalog'[v] = catalog[v]
    BY <1>8 DEF Tick
  <2>2. ASSUME NEW v \in Venues  PROVE Offered'[v] = Offered[v]
    <3>1. CASE v \in Held(catalog)
      BY <1>8, <3>1, TickAges DEF Offered, Held, ClientInv
    <3>2. CASE v \notin Held(catalog)
      BY <2>1, <3>2 DEF Offered
    <3> QED
      BY <3>1, <3>2
  <2>3. Offered = [v \in Venues |-> Offered[v]] /\ Offered' = [v \in Venues |-> Offered'[v]]
    BY DEF Offered
  <2>4. UNCHANGED Offered
    BY <2>2, <2>3
  <2> QED
    BY <1>2, <1>8, <2>4 DEF Tick, Lending!vars
<1> QED
  BY <1>1, <1>3, <1>4, <1>5, <1>6, <1>7, <1>8 DEF Next

\* The cache is an implementation of LentClients: to the fetches, its catalogs,
\* locks, counters, limits and timers come down to a client per venue that is lent
\* while it is on offer and closed, once, when it is withdrawn and nobody has it.
THEOREM ClientsAreLent == Spec => ClientsLent
<1>1. Init => Lending!Init
  <2> SUFFICES ASSUME Init  PROVE Lending!Init
    OBVIOUS
  <2>1. \A v \in Venues : LoaderOf(v) = {}
    BY DEF Init, LoaderOf, Loading
  <2>2. Preparing = [v \in Venues |-> None]
    BY <2>1 DEF Preparing
  <2> QED
    BY <2>2 DEF Init, Lending!Init, Offered, Lent
<1>2. ClientInv /\ ClientInv' /\ [Next]_vars => [Lending!Next]_(Lending!vars)
  BY LendingNext
<1> QED
  BY <1>1, <1>2, ClientInvariant, PTL DEF Spec, ClientsLent, Lending!Spec

=============================================================================
