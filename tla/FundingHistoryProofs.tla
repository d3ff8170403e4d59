------------------------- MODULE FundingHistoryProofs -------------------------
(***************************************************************************)
(* Theorems about the funding adapters' fetches: for every adapter, range, *)
(* venue and page size, and with pages that the transport answers from its *)
(* cache, histories are complete and no window skips a settlement.         *)
(*                                                                         *)
(* Pages may be stale, so what a page promises is stated of the known      *)
(* settlements: those that were published when the transport held nothing. *)
(* The inductive invariant says that of every page held, and which known   *)
(* settlements still lie ahead of the walk.                                *)
(***************************************************************************)
EXTENDS FundingHistory, HistoryTheorems, SequenceTheorems

-----------------------------------------------------------------------------
(* What the adapters have in common.                                       *)

Kinds   == {"once", "closed", "recent", "settled", "since", "download"}
Walks   == {"forward", "numbered", "before", "follow", "token"}
Lowered == {"before", "follow", "token"}

\* The parts of an adapter's description that have to fit each other.
WellFormed(a) ==
    /\ a.walk \in Kinds \cup Walks \cup {"none"}
    /\ a.walk = "forward" =>
           a.ranged /\ a.stops = {"unranged", "short", "end"}
    /\ a.walk = "numbered" => /\ "short" \in a.stops \/ "last" \in a.stops
                             /\ a.stops \subseteq {"rangeless", "short", "empty", "last", "start"}
    /\ a.walk = "before" => ~a.ranged /\ a.stops = {"short", "empty", "start"}
    /\ a.walk = "follow" => ~a.ranged /\ a.stops = {"rangeless", "empty", "last", "start"}
    /\ a.walk = "token" => a.ranged /\ a.stops = {"last"}
    /\ a.walk = "download" => ~a.ranged
    /\ a.walk = "settled" => a.ranged
    /\ a.extras => a.walk = "forward"

LEMMA DeclaredWellFormed ==
    ASSUME NEW a \in DOMAIN Declared  PROVE WellFormed(Declared[a])
<1> USE DEF WellFormed, Kinds, Walks
<1>1. WellFormed(Binance) /\ WellFormed(Bybit) /\ WellFormed(Gate) /\ WellFormed(Okx)
  BY DEF Binance, Bybit, Gate, Okx, Window
<1>2. WellFormed(Hyperliquid) /\ WellFormed(Kraken) /\ WellFormed(Deepcoin)
  BY DEF Hyperliquid, Kraken, Deepcoin, Window
<1>3. WellFormed(Kucoin) /\ WellFormed(Htx) /\ WellFormed(Toobit) /\ WellFormed(Lighter)
  BY DEF Kucoin, Htx, Toobit, Lighter, Window
<1>4. WellFormed(Grvt) /\ WellFormed(Btse) /\ WellFormed(Bingx) /\ WellFormed(Mexc)
  BY DEF Grvt, Btse, Bingx, Mexc, Window
<1>5. WellFormed(Xt) /\ WellFormed(Bitfinex) /\ WellFormed(Ccxt)
  BY DEF Xt, Bitfinex, Ccxt, Window
<1> HIDE DEF WellFormed
<1>6. QED
  BY <1>1, <1>2, <1>3, <1>4, <1>5 DEF Declared

\* The arguments of the fetches, and what the venue has published.
Given ==
    /\ call \in Calls /\ now \in Times /\ venue \in Venues
    /\ published \subseteq Times /\ known \subseteq published

LEMMA GivenTypes ==
    ASSUME Given
    PROVE  /\ WellFormed(Adapter) /\ call.history \in BOOLEAN
           /\ Start \in Times \cup {None} /\ End \in Times \cup {None}
           /\ Start = None => End = None
           /\ Times = 0 .. Horizon /\ Times \subseteq Nat /\ Horizon \in Nat
           /\ published \subseteq 0 .. Horizon /\ published \subseteq Nat
           /\ known \subseteq Nat /\ known \subseteq Times
           /\ None \notin Int /\ None # Live /\ Live \notin Int
           /\ Limit \in Nat \ {0} /\ Lookback \in Nat /\ MaxPages \in Nat \ {0}
<1>1. call.adapter \in DOMAIN Declared /\ call.range \in Ranges /\ call.history \in BOOLEAN
  BY AdaptersAssumption DEF Given, Calls
<1>2. WellFormed(Adapter)
  BY <1>1, DeclaredWellFormed DEF Adapter
<1>3. call.range \in HistoryRange \cup {None}
  BY <1>1, InputAssumption
<1>4. /\ Start \in Times \cup {None} /\ End \in Times \cup {None}
      /\ Start = None => End = None
  BY <1>1, <1>3, InputAssumption DEF HistoryRange, Start, End
<1>5. Times = 0 .. Horizon /\ Horizon \in Nat /\ Times \subseteq Nat
  BY BoundsAssumption DEF Times
<1>6. QED
  BY <1>1, <1>2, <1>4, <1>5, InputAssumption, BoundsAssumption DEF Given

\* The arguments do not change, nor what depends on them alone.
LEMMA SameFetch ==
    ASSUME UNCHANGED <<call, venue>>
    PROVE  /\ Adapter' = Adapter /\ Start' = Start /\ End' = End
           /\ (Paged <=> Paged') /\ (OffersHistory <=> OffersHistory')
  BY DEF Adapter, Start, End, Paged, OffersHistory

-----------------------------------------------------------------------------
(* The inductive invariant.                                                *)

\* The known settlements of the requested range.
Wanted == Between(known, Start, End)

\* No known settlement is missing between two of the rows.
Contiguous(S) == \A t, u \in S : \A s \in known : t < s /\ s < u => s \in S

\* None is missing above, or below, any of the rows.
UpToNewest(S)   == \A t \in S : \A s \in Wanted : t <= s => s \in S
DownToOldest(S) == \A t \in S : \A s \in Wanted : s <= t => s \in S

\* What requests from a cursor on will still ask for.
Ahead(c, t) ==
    c \in Int => (IF Adapter.walk = "forward" THEN c <= t ELSE t < c)
Rest(c) == {t \in Wanted : Ahead(c, t)}

SettledFrom(u) ==
    IF Start = None THEN u - (IF call.history THEN Lookback ELSE 2) ELSE Start

\* What a page that was asked for with a cursor and an end has to hold.
Lowest(c, found, more) ==
    /\ \A t \in Rest(c) : \A x \in found : x <= t => t \in found
    /\ found = {} => Rest(c) = {}
    /\ venue # "capped" /\ Cardinality(found) < Limit => Rest(c) \subseteq found
    /\ ~more => Rest(c) \subseteq found
    /\ more => found # {}
Highest(c, found) ==
    /\ c \in Int => /\ \A t \in Rest(c) : \A x \in found : t <= x => t \in found
                    /\ Cardinality(found) < Limit => Rest(c) \subseteq found
    /\ found \subseteq Between(Times, Start, End)
Holds(key, found, more) ==
    /\ found \subseteq Times
    /\ key[1] = "latest" => /\ Between(known, key[3] - 2, key[3]) \subseteq found
                            /\ found \subseteq Between(Times, key[3] - 2, key[3])
    /\ key[1] = "history" =>
           /\ Adapter.walk # "numbered" => Contiguous(found)
           /\ Adapter.walk \in Lowered => Lowest(key[3], found, more)
           /\ Adapter.walk = "forward" => Highest(key[3], found)
           /\ Adapter.walk = "download" => Wanted \subseteq found
           /\ Adapter.walk = "settled" =>
                  /\ Between(known, SettledFrom(key[4]), key[4]) \subseteq found
                  /\ found \subseteq Between(Times, SettledFrom(key[4]), key[4])

PagesHold ==
    \A i \in DOMAIN responses :
        Holds(responses[i].key, responses[i].found, responses[i].more)

\* Where a fetch stands.
FirstPage == page = 1 /\ rows = {} /\ cursor = None

Before ==
    /\ stage = "current" => current = None
    /\ stage = "extras" => current = Live
    /\ stage \in {"current", "extras"} =>
           /\ page = 1 /\ rows = {}
           /\ cursor = IF Adapter.walk = "forward" THEN Start ELSE None
           /\ Adapter.walk # "settled"

Walking ==
    /\ Adapter.walk # "none"
    /\ Adapter.walk = "settled" => current = None /\ until \in Times
    /\ Adapter.walk \in Walks \cup {"download"} => until = End
    /\ Adapter.walk \in Kinds => FirstPage
    /\ Adapter.walk = "forward" /\ Start = None => FirstPage
    /\ Adapter.walk = "forward" /\ Start # None => cursor \in Int
    /\ Adapter.walk \in Lowered \cup {"forward"} =>
           \A t \in Wanted : t \in rows \/ Ahead(cursor, t)
    /\ Adapter.walk \in Lowered => UpToNewest(rows)
    /\ Adapter.walk = "forward" => DownToOldest(rows)
    /\ Adapter.walk = "numbered" /\ ~reused =>
           /\ UpToNewest(rows)
           /\ venue # "stuck" => Wanted \cap Newest((page - 1) * Limit, published) \subseteq rows
    /\ Adapter.walk \in Walks => rows \subseteq Between(Times, Start, End)

FetchInv ==
    /\ TypeOK
    /\ stage # "idle" => outcome = None /\ issue = None
    /\ Before
    /\ stage = "history" => Walking
    /\ stage = "latest" => /\ Adapter.walk = "settled" /\ current = None /\ until \in Times
                          /\ Contiguous(rows)
    /\ PagesHold
    /\ HistoryComplete /\ WindowsObserved

-----------------------------------------------------------------------------
(* What a fresh page holds.                                                *)

\* A request asks for rows without a gap, and gets some without a gap.
LEMMA AskedIsContiguous ==
    ASSUME Given, NEW a \in Int \cup {None}, NEW b \in Int \cup {None}
    PROVE  /\ Contiguous(Between(published, a, b))
           /\ \A c \in Int :
                  /\ Contiguous({t \in Between(published, a, b) : t >= c})
                  /\ Contiguous({t \in Between(published, a, b) : t < c})
<1>1. \A s \in known : s \in published /\ s \in Int
  BY GivenTypes DEF Given
<1>2. \A t \in published : t \in Int
  BY GivenTypes
<1> DEFINE S == Between(published, a, b)
<1>3. ASSUME NEW t \in S, NEW u \in S, NEW s \in known, t < s, s < u
      PROVE  s \in S
  BY <1>1, <1>2, <1>3 DEF Between, Within
<1>4. S \subseteq published
  BY DEF Between
<1> HIDE DEF S
<1>5. Contiguous(S)
  BY <1>3 DEF Contiguous
<1>6. ASSUME NEW c \in Int
      PROVE  Contiguous({t \in S : t >= c}) /\ Contiguous({t \in S : t < c})
  BY <1>1, <1>2, <1>3, <1>4 DEF Contiguous
<1>7. QED
  BY <1>5, <1>6 DEF S

LEMMA PageIsContiguous ==
    ASSUME Given, NEW S, S \subseteq published, Contiguous(S), NEW k \in Nat \ {0}
    PROVE  /\ Contiguous(Newest(k, S)) /\ Newest(k, S) \subseteq S
           /\ Contiguous(Oldest(k, S)) /\ Oldest(k, S) \subseteq S
<1>1. /\ \A s \in known : s \in Int
      /\ \A t \in S : t \in Int
      /\ S \subseteq 0 .. Horizon /\ Horizon \in Nat
  BY GivenTypes
<1>2. /\ Newest(k, S) \subseteq S
      /\ \A t \in Newest(k, S) : \A u \in S : t <= u => u \in Newest(k, S)
  BY <1>1, NewestRows
<1>3. /\ Oldest(k, S) \subseteq S
      /\ \A t \in Oldest(k, S) : \A u \in S : u <= t => u \in Oldest(k, S)
  BY <1>1, OldestRows
<1>4. Contiguous(Newest(k, S))
  <2>1. ASSUME NEW t \in Newest(k, S), NEW u \in Newest(k, S), NEW s \in known, t < s, s < u
        PROVE  s \in Newest(k, S)
    <3>1. s \in S /\ t \in S /\ u \in S
      BY <1>2, <2>1 DEF Contiguous
    <3>2. t <= s
      BY <1>1, <2>1, <3>1
    <3>3. QED  BY <1>2, <3>1, <3>2
  <2>2. QED  BY <2>1 DEF Contiguous
<1>5. Contiguous(Oldest(k, S))
  <2>1. ASSUME NEW t \in Oldest(k, S), NEW u \in Oldest(k, S), NEW s \in known, t < s, s < u
        PROVE  s \in Oldest(k, S)
    <3>1. s \in S /\ t \in S /\ u \in S
      BY <1>3, <2>1 DEF Contiguous
    <3>2. s <= u
      BY <1>1, <2>1, <3>1
    <3>3. QED  BY <1>3, <3>1, <3>2
  <2>2. QED  BY <2>1 DEF Contiguous
<1>6. QED
  BY <1>2, <1>3, <1>4, <1>5

\* Some of the newest rows of a set; all of them where the venue fills its pages.
TopOf(S, found) ==
    /\ found \subseteq S
    /\ \A t \in found : \A u \in S : t <= u => u \in found
    /\ S # {} => found # {}
    /\ venue # "capped" /\ Cardinality(found) < Limit => found = S

LEMMA LowestPage ==
    ASSUME Given, NEW c \in Int \cup {None}, NEW S, S \subseteq published,
           Adapter.walk # "forward", Rest(c) \subseteq S,
           NEW found, TopOf(S, found), NEW more,
           more <=> found # {} /\ (venue = "stuck" \/ \E t \in S : t < First(found))
    PROVE  Lowest(c, found, more)
<1>1. S \subseteq Nat
  BY GivenTypes
<1>2. /\ found \subseteq S
      /\ \A t \in found : \A u \in S : t <= u => u \in found
      /\ S # {} => found # {}
      /\ venue # "capped" /\ Cardinality(found) < Limit => found = S
  BY DEF TopOf
<1>3. ASSUME ~more, NEW t \in S  PROVE t \in found
  <2>1. found # {}
    BY <1>2
  <2>2. First(found) \in found /\ ~ (t < First(found))
    <3>1. found \subseteq Nat
      BY <1>1, <1>2
    <3>2. QED  BY <1>3, <2>1, <3>1, FirstExists
  <2>3. t \in Nat /\ First(found) \in Nat
    BY <1>1, <1>2, <2>2
  <2>4. First(found) <= t
    BY <2>2, <2>3
  <2>5. QED  BY <1>2, <2>2, <2>4
<1>4. QED
  BY <1>2, <1>3 DEF Lowest

\* What a venue serves of a full page, capped or not.
LEMMA ServedTop ==
    ASSUME Given, NEW S, S \subseteq published, Contiguous(S), NEW found,
           \/ venue = "capped" /\ \E k \in 1 .. Limit : found = Newest(k, Newest(Limit, S))
           \/ found = Newest(Limit, S)
    PROVE  TopOf(S, found) /\ Contiguous(found)
<1> DEFINE N == Newest(Limit, S)
<1>1. /\ S \subseteq 0 .. Horizon /\ Horizon \in Nat /\ Limit \in Nat \ {0}
      /\ 1 .. Limit \subseteq Nat \ {0} /\ S \subseteq Nat
  BY GivenTypes
<1>2. /\ N \subseteq S
      /\ \A t \in N : \A u \in S : t <= u => u \in N
      /\ S # {} => N # {}
      /\ Cardinality(N) < Limit => N = S
  BY <1>1, NewestRows
<1>3. Contiguous(N) /\ N \subseteq published
  BY <1>1, <1>2, PageIsContiguous
<1> HIDE DEF N
<1>4. CASE found = N
  BY <1>2, <1>3, <1>4 DEF TopOf
<1>5. ASSUME venue = "capped", NEW k \in 1 .. Limit, found = Newest(k, N)
      PROVE  TopOf(S, found) /\ Contiguous(found)
  <2>1. N \subseteq 0 .. Horizon /\ k \in Nat \ {0}
    BY <1>1, <1>2
  <2>2. /\ found \subseteq N
        /\ \A t \in found : \A u \in N : t <= u => u \in found
        /\ N # {} => found # {}
    BY <1>1, <1>5, <2>1, NewestRows
  <2>3. Contiguous(found)
    BY <1>3, <1>5, <2>1, PageIsContiguous
  <2>4. QED  BY <1>2, <1>5, <2>2, <2>3 DEF TopOf
<1>6. QED
  BY <1>4, <1>5 DEF N

\* What a page of the history served now has to hold, for the cursor and the end
\* that it was asked for with.
HistoryPage(found, more) ==
    /\ Adapter.walk # "numbered" => Contiguous(found)
    /\ Adapter.walk \in Lowered => Lowest(cursor, found, more)
    /\ Adapter.walk = "forward" => Highest(cursor, found)
    /\ Adapter.walk = "download" => Wanted \subseteq found
    /\ Adapter.walk = "settled" =>
           /\ Between(known, SettledFrom(until), until) \subseteq found
           /\ found \subseteq Between(Times, SettledFrom(until), until)

LEMMA ServedHolds ==
    ASSUME TypeOK, Walking, NEW found \in Served(cursor, page)
    PROVE  found \subseteq published /\ HistoryPage(found, More(cursor, page, found))
<1>1. Given
  BY DEF TypeOK, Given
<1>2. /\ WellFormed(Adapter) /\ call.history \in BOOLEAN
      /\ Start \in Times \cup {None} /\ End \in Times \cup {None}
      /\ Times \subseteq Nat /\ published \subseteq Nat /\ published \subseteq Times
      /\ None \notin Int /\ Limit \in Nat \ {0} /\ Lookback \in Nat
      /\ known \subseteq Nat
  BY <1>1, GivenTypes DEF Given
<1>3. known \subseteq published
  BY <1>1 DEF Given
<1>4. until \in Times \cup {None} /\ cursor \in Int \cup {None}
  BY BoundsAssumption DEF TypeOK, Cursors
<1>5. Adapter.walk \in Kinds \cup Walks
  BY <1>2 DEF Walking, WellFormed
<1> DEFINE more == More(cursor, page, found)
<1>6. CASE Adapter.walk \in Lowered
  <2> DEFINE S == Asked(cursor)
  <2>1. until = End /\ Adapter.walk \in {"before", "follow", "token"}
    BY <1>6 DEF Walking, Walks, Lowered
  <2>2. \/ From = None /\ To = None
        \/ From = Start /\ To = End
    BY <1>2, <2>1 DEF From, To, WellFormed
  <2>3. \/ S = Between(published, From, To)
        \/ cursor \in Int /\ S = {t \in Between(published, From, To) : t < cursor}
    <3>1. CASE cursor = None \/ venue = "stuck"
      <4>1. S = Between(published, From, To)
        BY <3>1, Zenon DEF Asked
      <4>2. QED  BY <4>1
    <3>2. CASE ~(cursor = None \/ venue = "stuck")
      <4>1. cursor \in Int
        BY <1>4, <3>2
      <4>2. S = {t \in Between(published, From, To) : t < cursor}
        BY <2>1, <3>2 DEF Asked
      <4>3. QED  BY <4>1, <4>2
    <3>3. QED  BY <3>1, <3>2
  <2>4. S \subseteq published /\ Rest(cursor) \subseteq S
    <3>1. Wanted \subseteq Between(published, From, To)
      BY <1>2, <1>3, <2>2 DEF Wanted, Between, Within
    <3>2. \A t \in Rest(cursor) : t \in Wanted /\ (cursor \in Int => t < cursor)
      BY <2>1 DEF Rest, Ahead
    <3>3. QED  BY <2>3, <3>1, <3>2 DEF Between
  <2>5. Contiguous(S)
    <3>1. /\ Contiguous(Between(published, From, To))
          /\ \A c \in Int : Contiguous({t \in Between(published, From, To) : t < c})
      <4>1. From \in Int \cup {None} /\ To \in Int \cup {None}
        BY <1>2, <2>2
      <4>2. QED  BY <1>1, <4>1, AskedIsContiguous, Zenon
    <3> HIDE DEF S
    <3>2. QED  BY <2>3, <3>1
  <2>6. FullPages(cursor, page) = {Newest(Limit, S)}
    BY <2>1 DEF FullPages
  <2> HIDE DEF S
  <2>7. \/ venue = "capped" /\ \E k \in 1 .. Limit : found = Newest(k, Newest(Limit, S))
        \/ found = Newest(Limit, S)
    <3>1. CASE venue = "capped"
      <4>1. Served(cursor, page) =
                {Newest(k, T) : k \in 1 .. Limit, T \in FullPages(cursor, page)}
        BY <2>1, <3>1 DEF Served
      <4>2. QED  BY <2>6, <3>1, <4>1
    <3>2. CASE venue # "capped"
      BY <2>6, <3>2 DEF Served
    <3>3. QED  BY <3>1, <3>2
  <2>8. TopOf(S, found) /\ Contiguous(found)
    BY <1>1, <2>4, <2>5, <2>7, ServedTop
  <2>9. more <=> found # {} /\ (venue = "stuck" \/ \E t \in S : t < First(found))
    BY <2>1 DEF More, S
  <2> HIDE DEF more
  <2>10. PICK c \in Int \cup {None} : c = cursor
    BY <1>4
  <2>11. Lowest(cursor, found, more)
    BY <1>1, <2>1, <2>4, <2>8, <2>9, <2>10, LowestPage
  <2>12. QED
    BY <2>1, <2>4, <2>8, <2>11 DEF HistoryPage, TopOf, Lowered, more
<1>7. CASE Adapter.walk = "forward" /\ cursor \in Int
  <2> DEFINE S == Asked(cursor)
  <2>1. until = End /\ From = Start /\ To = End
    BY <1>2, <1>7 DEF Walking, Walks, WellFormed, From, To
  <2>2. \/ S = Between(published, Start, End)
        \/ S = {t \in Between(published, Start, End) : t >= cursor}
    BY <1>2, <1>7, <2>1 DEF Asked
  <2>3. S \subseteq published /\ S \subseteq Between(Times, Start, End)
    BY <1>2, <2>2 DEF Between
  <2>4. Contiguous(S)
    <3>1. /\ Contiguous(Between(published, Start, End))
          /\ \A c \in Int : Contiguous({t \in Between(published, Start, End) : t >= c})
      <4>1. Start \in Int \cup {None} /\ End \in Int \cup {None}
        BY <1>2
      <4>2. QED  BY <1>1, <4>1, AskedIsContiguous, Zenon
    <3> HIDE DEF S
    <3>2. QED  BY <1>7, <2>2, <3>1
  <2>5. Rest(cursor) \subseteq S
    <3>1. \A t \in Rest(cursor) : t \in Between(published, Start, End) /\ t >= cursor
      BY <1>2, <1>3, <1>7 DEF Rest, Ahead, Wanted, Between
    <3>2. QED  BY <2>2, <3>1
  <2>6. found = Oldest(Limit, S)
    <3>1. FullPages(cursor, page) = {Oldest(Limit, S)}
      BY <1>2, <1>7 DEF FullPages
    <3>2. QED  BY <1>7, <3>1 DEF Served
  <2> HIDE DEF S
  <2>7. S \subseteq 0 .. Horizon /\ Horizon \in Nat
    BY <1>1, <2>3, GivenTypes
  <2>8. /\ found \subseteq S
        /\ \A t \in found : \A u \in S : u <= t => u \in found
        /\ Cardinality(found) < Limit => found = S
    BY <1>2, <2>6, <2>7, OldestRows
  <2>9. Contiguous(found)
    BY <1>1, <1>2, <2>3, <2>4, <2>6, PageIsContiguous
  <2>10. Highest(cursor, found)
    BY <2>3, <2>5, <2>8 DEF Highest
  <2>11. QED  BY <1>7, <2>3, <2>8, <2>9, <2>10 DEF HistoryPage, Lowered
<1>8. CASE Adapter.walk = "forward" /\ cursor = None
  <2>1. until = End /\ From = Start /\ To = End
    BY <1>2, <1>8 DEF Walking, Walks, WellFormed, From, To
  <2>2. Asked(cursor) = Between(published, Start, End)
    BY <1>8, <2>1 DEF Asked
  <2>3. found = Newest(Limit, Between(published, Start, End))
    <3>1. FullPages(cursor, page) = {Newest(Limit, Asked(cursor))}
      BY <1>8 DEF FullPages
    <3>2. QED  BY <1>8, <2>2, <3>1 DEF Served
  <2>4. PICK S : S = Between(published, Start, End)
    OBVIOUS
  <2>5. S \subseteq published /\ Contiguous(S)
    BY <1>1, <1>2, <2>4, AskedIsContiguous DEF Between
  <2>6. Contiguous(found) /\ found \subseteq S
    BY <1>1, <1>2, <2>3, <2>4, <2>5, PageIsContiguous
  <2>7. found \subseteq Between(Times, Start, End)
    BY <1>2, <2>4, <2>6 DEF Between
  <2>8. Highest(cursor, found)
    BY <1>2, <1>8, <2>7 DEF Highest
  <2>9. QED  BY <1>8, <2>5, <2>6, <2>8 DEF HistoryPage, Lowered
<1>9. CASE Adapter.walk = "numbered"
  <2>1. PICK k \in Int, n \in Int : found = Newest(k, published) \ Newest(n, published)
    <3> DEFINE p == IF venue = "stuck" THEN 1 ELSE page
    <3>1. FullPages(cursor, page) =
              {Newest(p * Limit, published) \ Newest((p - 1) * Limit, published)}
      BY <1>9 DEF FullPages
    <3>2. found = Newest(p * Limit, published) \ Newest((p - 1) * Limit, published)
      BY <1>9, <3>1 DEF Served
    <3>3. p * Limit \in Int /\ (p - 1) * Limit \in Int
      BY <1>2, BoundsAssumption DEF TypeOK
    <3>4. QED  BY <3>2, <3>3
  <2>2. found \subseteq published
    BY <2>1 DEF Newest
  <2>3. QED  BY <1>9, <2>2 DEF HistoryPage, Lowered
<1>10. CASE Adapter.walk \in {"once", "closed", "recent"}
  <2>1. From \in Int \cup {None} /\ To \in Int \cup {None}
    BY <1>2, <1>4, <1>10 DEF From, To
  <2>2. Asked(None) = Between(published, From, To)
    BY DEF Asked
  <2>3. found \in {Newest(Limit, Asked(None)), Oldest(Limit, Asked(None))}
    <3>1. FullPages(cursor, page) = {Newest(Limit, Asked(None)), Oldest(Limit, Asked(None))}
      BY <1>10 DEF FullPages
    <3>2. QED  BY <1>10, <3>1 DEF Served
  <2>4. PICK S : S = Between(published, From, To)
    OBVIOUS
  <2>5. S \subseteq published /\ Contiguous(S)
    BY <1>1, <2>1, <2>4, AskedIsContiguous DEF Between
  <2>6. Contiguous(found) /\ found \subseteq published
    BY <1>1, <1>2, <2>2, <2>3, <2>4, <2>5, PageIsContiguous
  <2>7. QED  BY <1>10, <2>6 DEF HistoryPage, Lowered
<1>11. CASE Adapter.walk = "since"
  <2>1. PICK k \in Nat \ {0} :
            found = IF Start = None THEN Newest(k, published)
                    ELSE Oldest(k, Between(published, Start, None))
    <3> DEFINE k == IF call.history THEN Limit ELSE 1
    <3>1. FullPages(cursor, page) = {IF Start = None THEN Newest(k, published)
                                     ELSE Oldest(k, Between(published, Start, None))}
      BY <1>11 DEF FullPages
    <3>2. found = IF Start = None THEN Newest(k, published)
                  ELSE Oldest(k, Between(published, Start, None))
      BY <1>11, <3>1 DEF Served
    <3>3. k \in Nat \ {0}
      BY <1>2
    <3>4. QED  BY <3>2, <3>3
  <2>2. Between(published, None, None) = published
    BY <1>2 DEF Between, Within
  <2>3. PICK S : S = IF Start = None THEN published ELSE Between(published, Start, None)
    OBVIOUS
  <2>4. S \subseteq published /\ Contiguous(S)
    <3>1. /\ Contiguous(Between(published, None, None))
          /\ Contiguous(Between(published, Start, None))
      <4>1. Start \in Int \cup {None} /\ None \in Int \cup {None}
        BY <1>2
      <4>2. QED  BY <1>1, <4>1, AskedIsContiguous, Zenon
    <3>2. QED  BY <2>2, <2>3, <3>1 DEF Between
  <2>5. Contiguous(found) /\ found \subseteq published
    BY <1>1, <2>1, <2>3, <2>4, PageIsContiguous
  <2>6. QED  BY <1>11, <2>5 DEF HistoryPage, Lowered
<1>12. CASE Adapter.walk = "download"
  <2>1. From = None /\ To = None
    BY <1>2, <1>12 DEF From, To, WellFormed
  <2>2. found = Between(published, None, None)
    BY <1>12, <2>1 DEF Served, FullPages, Asked
  <2>3. Between(published, None, None) = published
    BY <1>2 DEF Between, Within
  <2>4. Contiguous(found)
    BY <1>3, <2>2, <2>3 DEF Contiguous
  <2>5. Wanted \subseteq found
    BY <1>3, <2>2, <2>3 DEF Wanted, Between
  <2>6. QED  BY <1>12, <2>2, <2>3, <2>4, <2>5 DEF HistoryPage, Lowered
<1>13. CASE Adapter.walk = "settled"
  <2>1. until \in Times /\ From = SettledFrom(until) /\ To = until
    BY <1>2, <1>13 DEF Walking, WellFormed, From, To, SettledFrom
  <2>2. From \in Int /\ To \in Int
    BY <1>2, <2>1 DEF SettledFrom
  <2>3. found = Between(published, From, To)
    BY <1>13 DEF Served, FullPages, Asked
  <2>4. Contiguous(found)
    BY <1>1, <2>2, <2>3, AskedIsContiguous
  <2>5. /\ Between(known, From, To) \subseteq found /\ found \subseteq Between(Times, From, To)
        /\ found \subseteq published
    BY <1>2, <1>3, <2>3 DEF Between
  <2>6. QED  BY <1>13, <2>1, <2>4, <2>5 DEF HistoryPage, Lowered
<1>14. QED
  BY <1>4, <1>5, <1>6, <1>7, <1>8, <1>9, <1>10, <1>11, <1>12, <1>13
     DEF Kinds, Walks, Lowered

-----------------------------------------------------------------------------
(* Answers, fresh or from the transport's cache.                           *)

Awaiting == FetchInv /\ stage \in {"history", "latest"}

LEMMA KeyTypes ==
    ASSUME Awaiting
    PROVE  /\ Key[1] = stage /\ Key[4] = until
           /\ Key[3] = IF stage = "latest" THEN now ELSE cursor
           /\ Key \in {"history", "latest"} \X (1 .. MaxPages)
                       \X (Cursors \cup {None}) \X (Times \cup {None})
<1>1. TypeOK /\ stage \in {"history", "latest"}
  BY DEF Awaiting, FetchInv
<1>2. now \in Cursors /\ 1 \in 1 .. MaxPages
  BY <1>1, BoundsAssumption DEF TypeOK, Times, Cursors
<1>3. QED
  BY <1>1, <1>2 DEF TypeOK, Key

LEMMA FreshAnswerHolds ==
    ASSUME Awaiting, Held = {}, NEW answer \in Answers
    PROVE  /\ answer.key = Key /\ answer.found \subseteq Times /\ answer.more \in BOOLEAN
           /\ answer = [key |-> answer.key, found |-> answer.found, more |-> answer.more]
           /\ Holds(Key, answer.found, answer.more)
           /\ stage = "history" => /\ answer.found \in Served(cursor, page)
                                  /\ answer.more = More(cursor, page, answer.found)
<1>1. TypeOK /\ stage \in {"history", "latest"} /\ Given
  BY DEF Awaiting, FetchInv, TypeOK, Given
<1> DEFINE pages == IF stage = "latest" THEN {Between(published, now - 2, now)}
                    ELSE Served(cursor, page)
<1>2. Answers = {[key |-> Key, found |-> S, more |-> More(cursor, page, S)] : S \in pages}
  BY DEF Answers
<1> HIDE DEF pages
<1>3. PICK S \in pages :
          answer = [key |-> Key, found |-> S, more |-> More(cursor, page, S)]
  BY <1>2, Zenon
<1>4. answer.key = Key /\ answer.found = S /\ answer.more = More(cursor, page, S)
  BY <1>3
<1>5. answer.more \in BOOLEAN
  <2>1. CASE Adapter.walk = "numbered"
    <3>1. More(cursor, page, S) = (page * Limit < Cardinality(published))
      BY <2>1 DEF More
    <3>2. (page * Limit < Cardinality(published)) \in BOOLEAN
      OBVIOUS
    <3>3. QED  BY <1>4, <3>1, <3>2
  <2>2. CASE Adapter.walk # "numbered"
    <3>1. More(cursor, page, S) =
              (S # {} /\ (venue = "stuck" \/ \E t \in Asked(cursor) : t < First(S)))
      BY <2>2 DEF More
    <3>2. QED  BY <1>4, <3>1, Zenon
  <2>3. QED  BY <2>1, <2>2
<1>6. published \subseteq Times /\ known \subseteq published
  BY <1>1 DEF Given
<1>7. CASE stage = "latest"
  <2>1. S = Between(published, now - 2, now)
    BY <1>3, <1>7 DEF pages
  <2>2. Key[1] = "latest" /\ Key[3] = now
    BY <1>7, KeyTypes
  <2>3. /\ Between(known, now - 2, now) \subseteq S /\ S \subseteq Times
        /\ S \subseteq Between(Times, now - 2, now)
    BY <1>6, <2>1 DEF Between
  <2>4. Holds(Key, S, answer.more)
    BY <2>2, <2>3 DEF Holds
  <2>5. QED  BY <1>3, <1>4, <1>5, <1>7, <2>3, <2>4
<1>8. CASE stage = "history"
  <2>1. Walking /\ S \in Served(cursor, page)
    BY <1>3, <1>8 DEF Awaiting, FetchInv, pages
  <2>2. S \subseteq published /\ HistoryPage(S, More(cursor, page, S))
    BY <1>1, <2>1, ServedHolds
  <2>3. Key[1] = "history" /\ Key[3] = cursor /\ Key[4] = until
    BY <1>8, KeyTypes
  <2>4. Holds(Key, S, answer.more)
    BY <1>4, <1>6, <2>2, <2>3 DEF Holds, HistoryPage
  <2>5. QED  BY <1>3, <1>4, <1>5, <1>6, <1>8, <2>1, <2>2, <2>4
<1>9. QED  BY <1>1, <1>7, <1>8

LEMMA AnswerHolds ==
    ASSUME Awaiting, NEW answer \in Answers
    PROVE  /\ answer.key = Key /\ answer.found \subseteq Times /\ answer.more \in BOOLEAN
           /\ answer \in Pages
           /\ Holds(Key, answer.found, answer.more)
<1>1. TypeOK /\ PagesHold
  BY DEF Awaiting, FetchInv
<1>2. CASE Held = {}
  <2>1. /\ answer.key = Key /\ answer.found \subseteq Times /\ answer.more \in BOOLEAN
        /\ answer = [key |-> answer.key, found |-> answer.found, more |-> answer.more]
        /\ Holds(Key, answer.found, answer.more)
    BY <1>2, FreshAnswerHolds
  <2>2. answer.key \in {"history", "latest"} \X (1 .. MaxPages)
                       \X (Cursors \cup {None}) \X (Times \cup {None})
    BY <2>1, KeyTypes
  <2>3. answer \in Pages
    BY <2>1, <2>2 DEF Pages
  <2>4. QED  BY <2>1, <2>3
<1>3. CASE Held # {}
  <2>1. PICK i \in DOMAIN responses : responses[i].key = Key /\ answer = responses[i]
    BY <1>3 DEF Answers, Held
  <2>2. answer \in Pages
    BY <1>1, <2>1 DEF TypeOK
  <2>3. Holds(Key, answer.found, answer.more)
    BY <1>1, <2>1 DEF PagesHold
  <2>4. QED  BY <2>1, <2>2, <2>3 DEF Pages
<1>4. QED  BY <1>2, <1>3

\* What is known does not change while a page is held, so the pages keep holding it.
LEMMA HoldsStays ==
    ASSUME UNCHANGED <<call, venue, known>>
    PROVE  /\ Wanted' = Wanted
           /\ \A key, found, more : Holds(key, found, more) => Holds(key, found, more)'
<1>1. Adapter' = Adapter /\ Start' = Start /\ End' = End /\ Wanted' = Wanted
  BY SameFetch DEF Wanted
<1>2. \A c : Rest(c)' = Rest(c)
  BY <1>1 DEF Rest, Ahead
<1>3. \A u : SettledFrom(u)' = SettledFrom(u)
  BY <1>1 DEF SettledFrom
<1>4. \A key, found, more : Holds(key, found, more) => Holds(key, found, more)'
  BY <1>1, <1>2, <1>3 DEF Holds, Contiguous, Lowest, Highest
<1>5. QED  BY <1>1, <1>4

LEMMA ReceiveKeeps ==
    ASSUME Awaiting, NEW answer \in Answers, Receive(answer), UNCHANGED <<call, venue, known>>
    PROVE  responses' \in Seq(Pages) /\ PagesHold' /\ reused' \in BOOLEAN
<1>1. /\ responses \in Seq(Pages) /\ reused \in BOOLEAN
      /\ \A i \in DOMAIN responses :
             Holds(responses[i].key, responses[i].found, responses[i].more)
  BY DEF Awaiting, FetchInv, TypeOK, PagesHold
<1>2. answer.key = Key /\ answer \in Pages /\ Holds(answer.key, answer.found, answer.more)
  BY AnswerHolds
<1>3. \A key, found, more : Holds(key, found, more) => Holds(key, found, more)'
  BY HoldsStays
<1>4. CASE responses' = responses
  <2>1. ASSUME NEW i \in DOMAIN responses'
        PROVE  Holds(responses[i].key, responses[i].found, responses[i].more)'
    <3>1. PICK r : r = responses'[i]
      OBVIOUS
    <3>2. Holds(r.key, r.found, r.more)
      BY <1>1, <1>4, <3>1
    <3>3. Holds(r.key, r.found, r.more)'
      BY <1>3, <3>2, Zenon
    <3>4. QED  BY <3>1, <3>3, Zenon
  <2>2. QED  BY <1>1, <1>4, <2>1 DEF PagesHold, Receive
<1>5. CASE responses' = Append(responses, answer)
  <2>1. responses' \in Seq(Pages)
    BY <1>1, <1>2, <1>5, AppendProperties
  <2>2. ASSUME NEW i \in DOMAIN responses'
        PROVE  Holds(responses[i].key, responses[i].found, responses[i].more)'
    <3>1. PICK r : r = responses'[i]
      OBVIOUS
    <3>2. \/ i \in DOMAIN responses /\ r = responses[i]
          \/ r = answer
      BY <1>1, <1>5, <3>1, AppendProperties
    <3>3. Holds(r.key, r.found, r.more)
      BY <1>1, <1>2, <3>2
    <3>4. Holds(r.key, r.found, r.more)'
      BY <1>3, <3>3, Zenon
    <3>5. QED  BY <3>1, <3>4, Zenon
  <2>3. QED  BY <1>1, <2>1, <2>2 DEF PagesHold, Receive
<1>6. QED  BY <1>4, <1>5 DEF Receive

-----------------------------------------------------------------------------
(* Initial states, and the steps that end a fetch or change the world.     *)

LEMMA NoneIsNoResult ==
    /\ None \notin {"result", "error", "cancelled", "history_unavailable",
                   "history_range_required"}
    /\ None # Live /\ None \notin Int /\ Live \notin Int
  BY InputAssumption

LEMMA StartsIdle == Init => FetchInv
<1> SUFFICES ASSUME Init  PROVE FetchInv
  OBVIOUS
<1>1. /\ call \in Calls /\ venue \in Venues /\ now = FirstNow /\ published \in Backlogs
      /\ responses = <<>> /\ known = published /\ reused = FALSE
      /\ stage = "idle" /\ current = None /\ page = 1 /\ cursor = None
      /\ until = None /\ rows = {} /\ issue = None /\ outcome = None /\ fetches = 0
  BY DEF Init
<1>2. /\ now \in Times /\ published \subseteq Times /\ page \in 1 .. MaxPages
      /\ fetches \in 0 .. MaxFetches /\ responses \in Seq(Pages)
  BY <1>1, BoundsAssumption DEF Times
<1>3. TypeOK
  BY <1>1, <1>2 DEF TypeOK, Stages
<1>4. PagesHold /\ Before
  BY <1>1 DEF PagesHold, Before
<1>5. HistoryComplete /\ WindowsObserved
  BY <1>1, NoneIsNoResult DEF HistoryComplete, CompleteResult, WindowsObserved, ObservedWindows
<1>6. QED
  BY <1>1, <1>3, <1>4, <1>5 DEF FetchInv

\* The end of a fetch.
LEMMA FinishKeeps ==
    ASSUME FetchInv, UNCHANGED <<call, venue, now, published, known, fetches>>,
           responses' \in Seq(Pages), PagesHold', reused' \in BOOLEAN,
           NEW o \in {"result", "error", "cancelled"},
           NEW c \in Times \cup {None, Live},
           NEW r, r \subseteq Times,
           NEW i \in {None, "history_unavailable", "history_range_required"},
           Done(o, c, r, i), HistoryComplete', WindowsObserved'
    PROVE  FetchInv'
<1>1. /\ stage' = "idle" /\ outcome' = o /\ current' = c /\ rows' = r /\ issue' = i
      /\ page' = 1 /\ cursor' = None /\ until' = None
  BY DEF Done
<1>2. TypeOK'
  BY <1>1, BoundsAssumption DEF FetchInv, TypeOK, Stages
<1>3. Before'
  BY <1>1 DEF Before
<1>4. QED
  BY <1>1, <1>2, <1>3 DEF FetchInv

\* An end without rows needs no more than a reason for it.
LEMMA EndsWithoutRows ==
    ASSUME FetchInv, UNCHANGED <<call, venue, now, published, known, fetches>>,
           responses' \in Seq(Pages), PagesHold', reused' \in BOOLEAN,
           NEW o \in {"result", "error", "cancelled"},
           NEW c \in Times \cup {None, Live},
           NEW i \in {None, "history_unavailable", "history_range_required"},
           Done(o, c, {}, i),
           o # "result" \/ i # None \/ ~(call.history /\ OffersHistory)
    PROVE  FetchInv'
<1>1. outcome' = o /\ rows' = {} /\ issue' = i
  BY DEF Done
<1>2. OffersHistory <=> OffersHistory'
  BY SameFetch
<1>3. HistoryComplete'
  BY <1>1, <1>2 DEF HistoryComplete, CompleteResult
<1>4. WindowsObserved'
  BY <1>1 DEF WindowsObserved, ObservedWindows
<1>5. QED
  BY <1>3, <1>4, FinishKeeps

LEMMA SamePages ==
    ASSUME FetchInv, UNCHANGED <<call, venue, known, responses, reused>>
    PROVE  responses' \in Seq(Pages) /\ PagesHold' /\ reused' \in BOOLEAN
<1>1. /\ responses \in Seq(Pages) /\ reused \in BOOLEAN
      /\ \A i \in DOMAIN responses :
             Holds(responses[i].key, responses[i].found, responses[i].more)
  BY DEF FetchInv, TypeOK, PagesHold
<1>2. \A key, found, more : Holds(key, found, more) => Holds(key, found, more)'
  BY HoldsStays
<1>3. ASSUME NEW i \in DOMAIN responses'
      PROVE  Holds(responses[i].key, responses[i].found, responses[i].more)'
  <2>1. PICK r : r = responses'[i]
    OBVIOUS
  <2>2. Holds(r.key, r.found, r.more)
    BY <1>1, <2>1
  <2>3. Holds(r.key, r.found, r.more)'
    BY <1>2, <2>2, Zenon
  <2>4. QED  BY <2>1, <2>3, Zenon
<1>4. QED
  BY <1>1, <1>3 DEF PagesHold

LEMMA ErrorKeeps ==
    ASSUME FetchInv, Error, UNCHANGED <<call, venue, now, published, known, fetches>>,
           responses' \in Seq(Pages), PagesHold', reused' \in BOOLEAN
    PROVE  FetchInv'
  BY EndsWithoutRows DEF Error

LEMMA FailureKeeps ==
    ASSUME FetchInv, HistoryFailed, UNCHANGED <<call, venue, now, published, known, fetches>>,
           responses' \in Seq(Pages), PagesHold', reused' \in BOOLEAN
    PROVE  FetchInv'
<1>1. CASE KeepsCurrent
  <2>1. PICK c : c = current
    OBVIOUS
  <2>2. c \in Times \cup {None, Live}
    BY <2>1 DEF FetchInv, TypeOK
  <2>3. Done("result", c, {}, "history_unavailable")
    BY <1>1, <2>1 DEF HistoryFailed
  <2>4. QED  BY <2>2, <2>3, NoneIsNoResult, EndsWithoutRows
<1>2. CASE ~KeepsCurrent
  BY <1>2, ErrorKeeps DEF HistoryFailed
<1>3. QED  BY <1>1, <1>2

LEMMA CancelKeeps == FetchInv /\ Cancel => FetchInv'
<1> SUFFICES ASSUME FetchInv, Cancel  PROVE FetchInv'
  OBVIOUS
<1>1. UNCHANGED <<call, venue, now, published, known, responses, fetches, reused>>
  BY DEF Cancel, worldVars
<1>2. responses' \in Seq(Pages) /\ PagesHold' /\ reused' \in BOOLEAN
  BY <1>1, SamePages
<1>3. Done("cancelled", None, {}, None)
  BY DEF Cancel
<1>4. QED
  BY <1>1, <1>2, <1>3, EndsWithoutRows

LEMMA FailsKeep == FetchInv /\ (CurrentFails \/ PageFails \/ LatestFails) => FetchInv'
<1> SUFFICES ASSUME FetchInv, CurrentFails \/ PageFails \/ LatestFails  PROVE FetchInv'
  OBVIOUS
<1>1. UNCHANGED <<call, venue, now, published, known, responses, fetches, reused>>
  BY DEF CurrentFails, PageFails, LatestFails, worldVars
<1>2. responses' \in Seq(Pages) /\ PagesHold' /\ reused' \in BOOLEAN
  BY <1>1, SamePages
<1>3. Error \/ HistoryFailed
  BY DEF CurrentFails, PageFails, LatestFails
<1>4. QED
  BY <1>1, <1>2, <1>3, ErrorKeeps, FailureKeeps

\* What a fetch has left to do does not change while the world goes on: what is
\* published meanwhile makes a numbered page hold older rows, never newer ones.
LEMMA WorldKeeps ==
    ASSUME FetchInv, UNCHANGED <<call, venue, fetchVars, known, fetches, reused>>,
           now' \in Times, published \subseteq published', published' \subseteq Times,
           responses' \in Seq(Pages), PagesHold'
    PROVE  FetchInv'
<1>1. /\ stage' = stage /\ current' = current /\ page' = page /\ cursor' = cursor
      /\ until' = until /\ rows' = rows /\ issue' = issue /\ outcome' = outcome
      /\ call' = call /\ venue' = venue /\ known' = known /\ reused' = reused
      /\ fetches' = fetches
  BY DEF fetchVars
<1>2. /\ Adapter' = Adapter /\ Start' = Start /\ End' = End
      /\ (Paged <=> Paged') /\ (OffersHistory <=> OffersHistory')
      /\ Wanted' = Wanted
  BY <1>1, SameFetch, HoldsStays
<1>3. TypeOK'
  BY <1>1 DEF FetchInv, TypeOK
<1>4. Before'
  BY <1>1, <1>2 DEF FetchInv, Before
<1>5. ASSUME stage = "history"  PROVE Walking'
  <2>1. Walking
    BY <1>5 DEF FetchInv
  <2>2. \A t : Ahead(cursor, t) <=> Ahead(cursor, t)'
    BY <1>1, <1>2 DEF Ahead
  <2>3. /\ (UpToNewest(rows) <=> UpToNewest(rows)')
        /\ (DownToOldest(rows) <=> DownToOldest(rows)')
        /\ (FirstPage <=> FirstPage')
    BY <1>1, <1>2 DEF UpToNewest, DownToOldest, FirstPage
  <2>4. ASSUME Wanted \cap Newest((page - 1) * Limit, published) \subseteq rows
        PROVE  Wanted' \cap Newest((page' - 1) * Limit, published') \subseteq rows'
    <3>1. Limit \in Nat /\ page - 1 \in Nat /\ published \subseteq published'
          /\ published' \subseteq 0 .. Horizon /\ Horizon \in Nat
      BY BoundsAssumption DEF FetchInv, TypeOK, Times
    <3>2. (page - 1) * Limit \in Nat
      BY <3>1
    <3>3. Newest((page - 1) * Limit, published') \cap published
              \subseteq Newest((page - 1) * Limit, published)
      <4>1. PICK k \in Nat : k = (page - 1) * Limit
        BY <3>2
      <4>2. k <= k
        OBVIOUS
      <4>3. Newest(k, published') \cap published \subseteq Newest(k, published)
        BY <3>1, <4>2, NewestShrinks, Zenon
      <4>4. QED  BY <4>1, <4>3
    <3>4. Wanted \subseteq published
      BY DEF Wanted, Between, FetchInv, TypeOK
    <3>5. QED  BY <1>1, <1>2, <2>4, <3>3, <3>4
  <2>5. QED
    BY <1>1, <1>2, <2>1, <2>2, <2>3, <2>4 DEF Walking
<1>6. ASSUME stage = "latest", Contiguous(rows)  PROVE Contiguous(rows)'
  BY <1>1, <1>6 DEF Contiguous
<1>7. Trusted <=> Trusted'
  BY <1>1, <1>2 DEF Trusted
<1>8. HistoryComplete'
  BY <1>1, <1>2, <1>7 DEF FetchInv, HistoryComplete, CompleteResult, Wanted
<1>9. WindowsObserved'
  BY <1>1, <1>2 DEF FetchInv, WindowsObserved, ObservedWindows
<1>10. QED
  BY <1>1, <1>2, <1>3, <1>4, <1>5, <1>6, <1>8, <1>9 DEF FetchInv

LEMMA SettleKeeps == FetchInv /\ Settle => FetchInv'
<1> SUFFICES ASSUME FetchInv, Settle  PROVE FetchInv'
  OBVIOUS
<1>1. UNCHANGED <<call, venue, fetchVars, known, responses, fetches, reused>>
  BY DEF Settle
<1>2. responses' \in Seq(Pages) /\ PagesHold'
  BY <1>1, SamePages
<1>3. now' \in Times /\ published \subseteq published' /\ published' \subseteq Times
  BY BoundsAssumption DEF Settle, FetchInv, TypeOK, Times
<1>4. QED
  BY <1>1, <1>2, <1>3, WorldKeeps

LEMMA ExpireKeeps == FetchInv /\ Expire => FetchInv'
<1> SUFFICES ASSUME FetchInv, Expire  PROVE FetchInv'
  OBVIOUS
<1>1. UNCHANGED <<call, venue, fetchVars, now, published, known, fetches, reused>>
  BY DEF Expire
<1>2. /\ responses \in Seq(Pages) /\ responses # <<>> /\ responses' = Tail(responses)
      /\ now \in Times /\ published \subseteq Times
      /\ \A i \in DOMAIN responses :
             Holds(responses[i].key, responses[i].found, responses[i].more)
  BY DEF Expire, FetchInv, TypeOK, PagesHold
<1>3. /\ responses' \in Seq(Pages)
      /\ \A i \in DOMAIN responses' :
             i + 1 \in DOMAIN responses /\ responses'[i] = responses[i + 1]
  BY <1>2, HeadTailProperties
<1>4. \A key, found, more : Holds(key, found, more) => Holds(key, found, more)'
  BY <1>1, HoldsStays
<1>5. ASSUME NEW i \in DOMAIN responses'
      PROVE  Holds(responses[i].key, responses[i].found, responses[i].more)'
  <2>1. PICK r : r = responses'[i]
    OBVIOUS
  <2>2. Holds(r.key, r.found, r.more)
    BY <1>2, <1>3, <2>1
  <2>3. Holds(r.key, r.found, r.more)'
    BY <1>4, <2>2, Zenon
  <2>4. QED  BY <2>1, <2>3, Zenon
<1>6. PagesHold'
  BY <1>5 DEF PagesHold
<1>7. QED
  BY <1>1, <1>2, <1>3, <1>6, WorldKeeps

LEMMA StutterKeeps == FetchInv /\ UNCHANGED vars => FetchInv'
<1> SUFFICES ASSUME FetchInv, UNCHANGED vars  PROVE FetchInv'
  OBVIOUS
<1>1. UNCHANGED <<call, venue, fetchVars, now, published, responses, known, fetches, reused>>
  BY DEF vars, worldVars
<1>2. responses' \in Seq(Pages) /\ PagesHold'
  BY <1>1, SamePages
<1>3. now \in Times /\ published \subseteq Times
  BY DEF FetchInv, TypeOK
<1>4. QED
  BY <1>1, <1>2, <1>3, WorldKeeps

-----------------------------------------------------------------------------
(* How a fetch begins.                                                     *)

\* No row is among the newest none.
LEMMA NewestNone ==
    ASSUME NEW bound \in Nat, NEW S, S \subseteq 0 .. bound
    PROVE  Newest(0, S) = {}
<1>1. /\ Cardinality(Newest(0, S)) \in Nat /\ Cardinality(Newest(0, S)) <= 0
      /\ Newest(0, S) \subseteq S
  BY NewestCount
<1>2. IsFiniteSet(Newest(0, S)) /\ Cardinality(Newest(0, S)) = 0
  <2>1. Newest(0, S) \subseteq 0 .. bound
    BY <1>1
  <2>2. IsFiniteSet(Newest(0, S))
    BY <2>1, RowsFinite, Zenon
  <2>3. QED  BY <1>1, <2>2
<1>3. QED
  BY <1>2, FS_EmptySet

\* Where the first page of a history is asked for, all that is wanted lies ahead.
LEMMA WalkBegins ==
    ASSUME Given, known' \subseteq Nat, published' \subseteq Times, UNCHANGED <<call, venue>>,
           Adapter.walk # "none", Adapter.walk = "settled" => current' = None,
           page' = 1, rows' = {}, until' = ClosingTime,
           cursor' = IF Adapter.walk = "forward" THEN Start ELSE None
    PROVE  Walking'
<1>1. Adapter' = Adapter /\ Start' = Start /\ End' = End
  BY SameFetch
<1>2. /\ Start \in Times \cup {None} /\ End \in Times \cup {None} /\ now \in Times
      /\ Times \subseteq Nat /\ None \notin Int /\ Limit \in Nat
      /\ published' \subseteq 0 .. Horizon /\ Horizon \in Nat
  BY GivenTypes DEF Given
<1>3. Adapter.walk = "settled" => current' = None /\ until' \in Times
  BY <1>2 DEF ClosingTime
<1>4. Adapter.walk \in Walks \cup {"download"} => until' = End'
  BY <1>1 DEF ClosingTime, Walks
<1>5. /\ Adapter.walk \in Kinds => FirstPage'
      /\ Adapter.walk = "forward" /\ Start = None => FirstPage'
      /\ Adapter.walk = "forward" /\ Start # None => cursor' \in Int
  BY <1>2 DEF FirstPage, Kinds
<1>6. ASSUME NEW t \in Wanted'  PROVE Ahead(cursor, t)'
  <2>1. t \in Nat /\ (Start \in Int => Start <= t)
    BY <1>1, <1>6 DEF Wanted, Between, Within
  <2>2. QED  BY <1>1, <1>2, <2>1 DEF Ahead
<1>7. UpToNewest(rows)' /\ DownToOldest(rows)'
  BY DEF UpToNewest, DownToOldest
<1>8. Newest((page' - 1) * Limit, published') = {}
  <2>1. (page' - 1) * Limit = 0
    BY <1>2
  <2>2. QED  BY <1>2, <2>1, NewestNone
<1>9. QED
  BY <1>1, <1>3, <1>4, <1>5, <1>6, <1>7, <1>8 DEF Walking

LEMMA CallKeeps == FetchInv /\ Call => FetchInv'
<1> SUFFICES ASSUME FetchInv, Call  PROVE FetchInv'
  OBVIOUS
<1>1. /\ UNCHANGED <<call, venue, now, published, responses>> /\ reused' = FALSE
      /\ known' = IF responses = <<>> THEN published ELSE known
      /\ fetches < MaxFetches /\ fetches' = fetches + 1
  BY DEF Call
<1>2. TypeOK /\ Given
  BY DEF FetchInv, TypeOK, Given
<1>3. /\ Adapter' = Adapter /\ Start' = Start /\ End' = End
      /\ (OffersHistory <=> OffersHistory')
  BY <1>1, SameFetch
<1>4. /\ fetches' \in 0 .. MaxFetches /\ known' \subseteq published' /\ known' \subseteq Nat
      /\ published' \subseteq Times /\ responses' \in Seq(Pages) /\ reused' \in BOOLEAN
      /\ call' \in Calls /\ venue' \in Venues /\ now' \in Times /\ 1 \in 1 .. MaxPages
  <2>1. published \subseteq Times /\ known \subseteq published /\ Times \subseteq Nat
    BY <1>2, BoundsAssumption DEF Given, Times
  <2>2. fetches' \in 0 .. MaxFetches /\ 1 \in 1 .. MaxPages
    BY <1>1, <1>2, BoundsAssumption DEF TypeOK
  <2>3. QED  BY <1>1, <1>2, <2>1, <2>2 DEF TypeOK
<1>5. PagesHold'
  <2>1. CASE responses = <<>>
    BY <1>1, <2>1 DEF PagesHold
  <2>2. CASE responses # <<>>
    <3>1. UNCHANGED <<call, venue, known>>
      BY <1>1, <2>2
    <3>2. \A key, found, more : Holds(key, found, more) => Holds(key, found, more)'
      BY <3>1, HoldsStays
    <3>3. ASSUME NEW i \in DOMAIN responses'
          PROVE  Holds(responses[i].key, responses[i].found, responses[i].more)'
      <4>1. PICK r : r = responses'[i]
        OBVIOUS
      <4>2. Holds(r.key, r.found, r.more)
        BY <1>1, <4>1 DEF FetchInv, PagesHold
      <4>3. Holds(r.key, r.found, r.more)'
        BY <3>2, <4>2, Zenon
      <4>4. QED  BY <4>1, <4>3, Zenon
    <3>4. QED  BY <3>3 DEF PagesHold
  <2>3. QED  BY <2>1, <2>2
<1>6. CASE Error
  <2>1. /\ stage' = "idle" /\ outcome' = "error" /\ current' = None /\ rows' = {}
        /\ issue' = None /\ page' = 1 /\ cursor' = None /\ until' = None
    BY <1>6 DEF Error, Done
  <2>2. TypeOK'
    BY <1>4, <2>1 DEF TypeOK, Stages
  <2>3. HistoryComplete' /\ WindowsObserved' /\ Before'
    BY <2>1 DEF HistoryComplete, CompleteResult, WindowsObserved, ObservedWindows, Before
  <2>4. QED
    BY <1>5, <2>1, <2>2, <2>3 DEF FetchInv
<1>7. CASE /\ stage' = IF \/ Adapter.walk = "settled"
                          \/ Adapter.walk = "since" /\ "rate" \notin call.runtime
                      THEN "history" ELSE "current"
           /\ current' = None /\ rows' = {} /\ issue' = None /\ outcome' = None
           /\ page' = 1
           /\ cursor' = IF Adapter.walk = "forward" THEN Start ELSE None
           /\ until' = ClosingTime
  <2>1. /\ Start \in Times \cup {None} /\ End \in Times \cup {None}
        /\ None \notin {"result", "error", "cancelled"} /\ Times \subseteq Cursors
    BY <1>2, GivenTypes, NoneIsNoResult, BoundsAssumption DEF Times, Cursors
  <2>2. TypeOK'
    <3>1. until' \in Times \cup {None} /\ cursor' \in Cursors \cup {None}
      BY <1>2, <1>7, <2>1 DEF ClosingTime, TypeOK
    <3>2. QED  BY <1>4, <1>7, <3>1 DEF TypeOK, Stages
  <2>3. Before'
    BY <1>3, <1>7 DEF Before
  <2>4. ASSUME stage' = "history"  PROVE Walking'
    <3>1. Adapter.walk # "none"
      BY <1>7, <2>4
    <3>2. Given /\ known' \subseteq Nat /\ published' \subseteq Times /\ UNCHANGED <<call, venue>>
      BY <1>1, <1>2, <1>4
    <3>3. QED  BY <1>7, <3>1, <3>2, WalkBegins
  <2>5. HistoryComplete' /\ WindowsObserved'
    BY <1>7, <2>1 DEF HistoryComplete, CompleteResult, WindowsObserved, ObservedWindows
  <2>6. QED
    BY <1>5, <1>7, <2>2, <2>3, <2>4, <2>5 DEF FetchInv
<1>8. QED
  BY <1>6, <1>7 DEF Call

\* What follows the current value: the history, a result without one, or an error.
LEMMA WithCurrentKeeps ==
    ASSUME FetchInv, stage \in {"current", "extras"}, NEW c \in {None, Live}, WithCurrent(c),
           UNCHANGED <<call, venue, worldVars, fetches, reused>>
    PROVE  FetchInv'
<1>1. /\ UNCHANGED <<call, venue, now, published, known, responses, fetches, reused>>
      /\ TypeOK /\ Given /\ Before
  BY DEF worldVars, FetchInv, TypeOK, Given
<1>2. responses' \in Seq(Pages) /\ PagesHold' /\ reused' \in BOOLEAN
  BY <1>1, SamePages
<1>3. CASE Done("result", c, {}, "history_range_required")
  BY <1>1, <1>2, <1>3, NoneIsNoResult, EndsWithoutRows
<1>4. CASE Error
  BY <1>1, <1>2, <1>4, ErrorKeeps
<1>5. CASE Done("result", c, {}, None) /\ ~(call.history /\ OffersHistory)
  BY <1>1, <1>2, <1>5, EndsWithoutRows
<1>6. CASE current' = c /\ Await("history") /\ OffersHistory
  <2>1. /\ stage' = "history" /\ until' = ClosingTime /\ current' = c
        /\ UNCHANGED <<page, cursor, rows, issue, outcome>>
    BY <1>6 DEF Await
  <2>2. /\ page = 1 /\ rows = {} /\ Adapter.walk # "settled"
        /\ cursor = IF Adapter.walk = "forward" THEN Start ELSE None
    BY <1>1 DEF Before
  <2>3. Adapter.walk # "none"
    <3>1. Adapter.walk = "none" => call.adapter # "bingx"
      BY DEF Adapter, Declared, Bingx, Window
    <3>2. QED  BY <1>6, <3>1 DEF OffersHistory
  <2>4. published' \subseteq Times /\ known' \subseteq Nat
    BY <1>1, GivenTypes DEF Given
  <2>5. Walking'
    BY <1>1, <2>1, <2>2, <2>3, <2>4, WalkBegins
  <2>6. TypeOK'
    <3>1. until' \in Times \cup {None}
      BY <1>1, <2>1, GivenTypes DEF ClosingTime, TypeOK
    <3>2. QED  BY <1>1, <1>2, <2>1, <3>1 DEF TypeOK, Stages
  <2>7. Before'
    BY <2>1 DEF Before
  <2>8. outcome' = None /\ issue' = None
    BY <2>1 DEF FetchInv
  <2>9. HistoryComplete' /\ WindowsObserved'
    BY <2>8, NoneIsNoResult DEF HistoryComplete, CompleteResult, WindowsObserved,
           ObservedWindows
  <2>10. QED
    BY <1>2, <2>1, <2>5, <2>6, <2>7, <2>8, <2>9 DEF FetchInv
<1>7. QED
  BY <1>3, <1>4, <1>5, <1>6 DEF WithCurrent

LEMMA CurrentKeeps ==
    FetchInv /\ (CurrentArrives \/ CurrentMissing \/ Enriched) => FetchInv'
<1> SUFFICES ASSUME FetchInv, CurrentArrives \/ CurrentMissing \/ Enriched  PROVE FetchInv'
  OBVIOUS
<1>1. /\ UNCHANGED <<call, venue, worldVars, fetches, reused>>
      /\ UNCHANGED <<call, venue, now, published, known, responses, fetches, reused>>
      /\ stage \in {"current", "extras"}
  BY DEF CurrentArrives, CurrentMissing, Enriched, worldVars
<1>2. responses' \in Seq(Pages) /\ PagesHold' /\ reused' \in BOOLEAN
  BY <1>1, SamePages
<1>3. CASE Error
  BY <1>1, <1>2, <1>3, ErrorKeeps
<1>4. ASSUME NEW c \in {None, Live}, WithCurrent(c)  PROVE FetchInv'
  BY <1>1, <1>4, WithCurrentKeeps
<1>5. CASE Adapter.extras /\ stage = "current" /\ current' = Live /\ Await("extras")
  <2>1. /\ stage' = "extras" /\ until' = ClosingTime /\ current' = Live
        /\ UNCHANGED <<page, cursor, rows, issue, outcome>>
    BY <1>5 DEF Await
  <2>2. TypeOK /\ Given /\ Before
    BY DEF FetchInv, TypeOK, Given
  <2>3. TypeOK'
    <3>1. until' \in Times \cup {None}
      BY <2>1, <2>2, GivenTypes DEF ClosingTime, TypeOK
    <3>2. QED  BY <1>1, <1>2, <2>1, <2>2, <3>1 DEF TypeOK, Stages
  <2>4. Adapter' = Adapter /\ Start' = Start
    BY <1>1, SameFetch
  <2>5. Before'
    BY <1>5, <2>1, <2>2, <2>4 DEF Before
  <2>6. outcome' = None /\ issue' = None
    BY <1>1, <2>1 DEF FetchInv
  <2>7. HistoryComplete' /\ WindowsObserved'
    BY <2>6, NoneIsNoResult DEF HistoryComplete, CompleteResult, WindowsObserved,
           ObservedWindows
  <2>8. QED
    BY <1>2, <2>1, <2>3, <2>5, <2>6, <2>7 DEF FetchInv
<1>6. QED
  BY <1>3, <1>4, <1>5 DEF CurrentArrives, CurrentMissing, Enriched

-----------------------------------------------------------------------------
(* Pages.                                                                  *)

\* Rows without a gap have none within a range.
LEMMA RangeIsContiguous ==
    ASSUME Given, NEW S, S \subseteq Times, Contiguous(S),
           NEW a \in Int \cup {None}, NEW b \in Int \cup {None}
    PROVE  Contiguous(Between(S, a, b)) /\ Between(S, a, b) \subseteq Times
<1>1. \A s \in known : s \in Int
  BY GivenTypes
<1>2. \A t \in S : t \in Int
  BY GivenTypes
<1>3. \A t, u \in S : \A s \in known : t < s /\ s < u => s \in S
  BY DEF Contiguous
<1>4. ASSUME NEW t \in Between(S, a, b), NEW u \in Between(S, a, b), NEW s \in known,
             t < s, s < u
      PROVE  s \in Between(S, a, b)
  BY <1>1, <1>2, <1>3, <1>4 DEF Between, Within
<1>5. QED
  BY <1>4 DEF Contiguous, Between

\* What a result with rows has to show.
LEMMA ResultKeeps ==
    ASSUME FetchInv, UNCHANGED <<call, venue, now, published, known, fetches>>,
           responses' \in Seq(Pages), PagesHold', reused' \in BOOLEAN,
           NEW c \in Times \cup {None, Live}, NEW r, r \subseteq Times,
           Done("result", c, r, None),
           (Adapter.walk = "numbered" => ~reused') => Contiguous(r),
           Paged /\ Start # None /\ Trusted' => Wanted \subseteq r
    PROVE  FetchInv'
<1>1. outcome' = "result" /\ rows' = r /\ issue' = None /\ known' = known
  BY DEF Done
<1>2. /\ Adapter' = Adapter /\ Start' = Start /\ End' = End /\ (Paged <=> Paged')
  BY SameFetch
<1>3. HistoryComplete'
  BY <1>1, <1>2 DEF HistoryComplete, CompleteResult, Wanted
<1>4. WindowsObserved'
  BY <1>1, <1>2 DEF WindowsObserved, ObservedWindows, Contiguous
<1>5. QED
  BY <1>3, <1>4, FinishKeeps

\* A page after which the walk goes on.
LEMMA GoesOn ==
    ASSUME FetchInv, stage = "history",
           UNCHANGED <<call, venue, now, published, known, fetches>>,
           UNCHANGED <<stage, current, until, issue, outcome>>,
           responses' \in Seq(Pages), PagesHold', reused' \in BOOLEAN,
           page' \in 1 .. MaxPages, cursor' \in Cursors \cup {None}, rows' \subseteq Times,
           Walking'
    PROVE  FetchInv'
<1>1. TypeOK'
  BY DEF FetchInv, TypeOK
<1>2. outcome' = None /\ issue' = None /\ stage' = "history"
  BY DEF FetchInv
<1>3. Before'
  BY <1>2 DEF Before
<1>4. HistoryComplete' /\ WindowsObserved'
  BY <1>2, NoneIsNoResult DEF HistoryComplete, CompleteResult, WindowsObserved, ObservedWindows
<1>5. QED
  BY <1>1, <1>2, <1>3, <1>4 DEF FetchInv

\* Rows of the range that reach up to the newest, or down to the oldest, have no gap.
LEMMA ReachingIsContiguous ==
    ASSUME Given, NEW S, S \subseteq Between(Times, Start, End),
           UpToNewest(S) \/ DownToOldest(S)
    PROVE  Contiguous(S)
<1>1. /\ \A s \in known : s \in Int
      /\ Times \subseteq Int
  BY GivenTypes
<1>2. ASSUME NEW t \in S, NEW u \in S, NEW s \in known, t < s, s < u
      PROVE  s \in S
  <2>1. t \in Int /\ u \in Int /\ s \in Int /\ Within(t, Start, End) /\ Within(u, Start, End)
    BY <1>1, <1>2 DEF Between
  <2>2. s \in Wanted /\ t <= s /\ s <= u
    BY <1>2, <2>1 DEF Wanted, Between, Within
  <2>3. QED  BY <2>2 DEF UpToNewest, DownToOldest
<1>3. QED
  BY <1>2 DEF Contiguous

-----------------------------------------------------------------------------
(* Walks over several pages.                                               *)

\* What the actions see when a page of a walk arrives.
Arriving ==
    /\ FetchInv /\ stage = "history"
    /\ UNCHANGED <<call, venue, now, published, known, fetches>>
    /\ responses' \in Seq(Pages) /\ PagesHold' /\ reused' \in BOOLEAN

LEMMA ArrivingFacts ==
    ASSUME Arriving
    PROVE  /\ TypeOK /\ Given /\ Walking /\ current \in Times \cup {None, Live}
           /\ Adapter' = Adapter /\ Start' = Start /\ End' = End
           /\ (Paged <=> Paged') /\ Wanted' = Wanted
           /\ rows \subseteq Times /\ Wanted \subseteq Times /\ published \subseteq Times
<1>1. TypeOK /\ Given /\ Walking
  BY DEF Arriving, FetchInv, TypeOK, Given
<1>2. UNCHANGED <<call, venue, known>>
  BY DEF Arriving
<1>3. Adapter' = Adapter /\ Start' = Start /\ End' = End /\ (Paged <=> Paged')
  BY <1>2, SameFetch
<1>4. Wanted' = Wanted
  BY <1>2, HoldsStays
<1>5. Wanted \subseteq Times
  BY <1>1 DEF Given, Wanted, Between
<1>6. QED
  BY <1>1, <1>3, <1>4, <1>5 DEF TypeOK

\* A walk towards older rows: before, follow and token.
LEMMA LoweredKeeps ==
    ASSUME Arriving, Adapter.walk \in Lowered, NEW found, found \subseteq Times,
           NEW more \in BOOLEAN, Lowest(cursor, found, more), TakePage(found, more)
    PROVE  FetchInv'
<1> DEFINE kept == Between(found, Start, End)
<1>1. /\ TypeOK /\ Given /\ Walking /\ current \in Times \cup {None, Live}
      /\ Adapter' = Adapter /\ Start' = Start /\ End' = End /\ Wanted' = Wanted
      /\ rows \subseteq Times /\ Wanted \subseteq Times
  BY ArrivingFacts
<1>2. /\ WellFormed(Adapter) /\ Times \subseteq Nat
      /\ Start \in Times \cup {None} /\ End \in Times \cup {None} /\ None \notin Int
      /\ Times = 0 .. Horizon /\ Horizon \in Nat
  BY <1>1, GivenTypes
<1>3. /\ \A t \in Wanted : t \in rows \/ Ahead(cursor, t)
      /\ UpToNewest(rows) /\ rows \subseteq Between(Times, Start, End)
  BY <1>1 DEF Walking, Walks, Lowered
<1>4. PICK all : all = rows \cup kept
  OBVIOUS
<1>5. all \subseteq Between(Times, Start, End) /\ all \subseteq Times
  BY <1>1, <1>3, <1>4 DEF Between
<1>6. \A t \in Wanted : t \in found => t \in all
  BY <1>4 DEF Wanted, Between
<1>7. \A t \in Wanted : \A x \in found : x <= t => t \in all
  <2>1. ASSUME NEW t \in Wanted, NEW x \in found, x <= t  PROVE t \in all
    <3>1. CASE t \in rows
      BY <1>4, <3>1
    <3>2. CASE Ahead(cursor, t)
      BY <1>6, <2>1, <3>2 DEF Lowest, Rest
    <3>3. QED  BY <1>3, <3>1, <3>2
  <2>2. QED  BY <2>1
<1>8. UpToNewest(all)
  <2>1. ASSUME NEW t \in all, NEW u \in Wanted, t <= u  PROVE u \in all
    <3>1. CASE t \in rows
      BY <1>3, <1>4, <2>1, <3>1 DEF UpToNewest
    <3>2. CASE t \in found
      BY <1>7, <2>1, <3>2
    <3>3. QED  BY <1>4, <3>1, <3>2 DEF Between
  <2>2. QED  BY <2>1 DEF UpToNewest
<1>9. Contiguous(all)
  BY <1>1, <1>5, <1>8, ReachingIsContiguous
<1>10. Rest(cursor) \subseteq found => Wanted \subseteq all
  <2>1. \A t \in Wanted : t \in rows \/ t \in Rest(cursor)
    BY <1>3 DEF Rest
  <2>2. QED  BY <1>4, <1>6, <2>1
<1> HIDE DEF kept
<1>11. CASE Ends(found, kept, more) /\ Done("result", current, all, None)
  <2>1. ASSUME Start # None, Trusted'  PROVE Wanted \subseteq all
    <3>1. \/ "short" \in Adapter.stops /\ Cardinality(found) < Limit
          \/ "empty" \in Adapter.stops /\ found = {}
          \/ "last" \in Adapter.stops /\ ~more
          \/ found # {} /\ First(found) <= Start
      BY <1>11, <2>1 DEF Ends, ReachedStart, Lowered, Start
    <3>2. CASE "short" \in Adapter.stops /\ Cardinality(found) < Limit
      <4>1. venue # "capped"
        BY <1>1, <2>1, <3>2 DEF Trusted, Arriving
      <4>2. QED  BY <1>10, <3>2, <4>1 DEF Lowest
    <3>3. CASE found = {}
      BY <1>10, <3>3 DEF Lowest
    <3>4. CASE ~more
      BY <1>10, <3>4 DEF Lowest
    <3>5. CASE found # {} /\ First(found) <= Start
      <4>1. First(found) \in found /\ First(found) \in Nat /\ Start \in Int
        <5>1. found \subseteq Nat /\ Start \in Int
          BY <1>2, <2>1
        <5>2. First(found) \in found
          BY <3>5, <5>1, FirstExists
        <5>3. QED  BY <5>1, <5>2
      <4>2. ASSUME NEW t \in Wanted  PROVE First(found) <= t
        <5>1. Start <= t /\ t \in Nat
          BY <1>1, <1>2, <4>1, <4>2 DEF Wanted, Between, Within
        <5>2. QED  BY <3>5, <4>1, <5>1
      <4>3. QED  BY <1>7, <4>1, <4>2
    <3>6. QED  BY <3>1, <3>2, <3>3, <3>4, <3>5
  <2>2. PICK c : c = current
    OBVIOUS
  <2>3. QED
    BY <1>1, <1>5, <1>9, <1>11, <2>1, <2>2, ResultKeeps DEF Arriving
<1>12. CASE HistoryFailed
  BY <1>12, FailureKeeps DEF Arriving
<1>13. CASE /\ ~Ends(found, kept, more) /\ WithinBudget
            /\ page' = NextPage /\ cursor' = First(found) /\ rows' = all
            /\ UNCHANGED <<stage, current, until, issue, outcome>>
  <2>1. found # {}
    <3>1. "empty" \in Adapter.stops \/ "last" \in Adapter.stops
      BY <1>2 DEF WellFormed, Lowered
    <3>2. QED  BY <1>13, <3>1 DEF Ends, Lowest
  <2>2. First(found) \in found /\ First(found) \in Nat /\ First(found) \in Times
    BY <1>2, <2>1, FirstExists
  <2>3. ASSUME NEW t \in Wanted  PROVE t \in rows' \/ Ahead(cursor, t)'
    <3>1. t \in Nat
      BY <1>1, <1>2, <2>3
    <3>2. CASE First(found) <= t
      BY <1>7, <1>13, <2>2, <3>2
    <3>3. CASE t < First(found)
      BY <1>1, <1>13, <3>3 DEF Ahead, Lowered
    <3>4. QED  BY <2>2, <3>1, <3>2, <3>3
  <2>4. UpToNewest(rows)'
    BY <1>1, <1>8, <1>13 DEF UpToNewest
  <2>5. Walking'
    BY <1>1, <1>5, <1>13, <2>3, <2>4 DEF Walking, Walks, Lowered, Kinds
  <2>6. page' \in 1 .. MaxPages
    BY <1>1, <1>13, BoundsAssumption DEF WithinBudget, NextPage, TypeOK
  <2>7. cursor' \in Cursors \cup {None}
    BY <1>2, <1>13, <2>2 DEF Cursors
  <2>8. QED
    BY <1>5, <1>13, <2>5, <2>6, <2>7, GoesOn DEF Arriving
<1>14. QED
  <2>1. Adapter.walk \notin {"numbered", "forward"} /\ "end" \notin Adapter.stops
    BY <1>2 DEF WellFormed, Lowered
  <2>2. \/ Ends(found, kept, more) /\ Done("result", current, all, None)
        \/ HistoryFailed
        \/ /\ ~Ends(found, kept, more) /\ WithinBudget
           /\ page' = NextPage /\ cursor' = Advanced(found, kept) /\ rows' = all
           /\ UNCHANGED <<stage, current, until, issue, outcome>>
    BY <1>4, <2>1 DEF TakePage, kept
  <2>3. Advanced(found, kept) = First(found)
    BY <2>1 DEF Advanced
  <2>4. QED  BY <1>11, <1>12, <1>13, <2>2, <2>3

\* The walk towards newer rows: every page begins where the one before ended.
LEMMA ForwardKeeps ==
    ASSUME Arriving, Adapter.walk = "forward", NEW found, found \subseteq Times,
           NEW more \in BOOLEAN, Highest(cursor, found), Contiguous(found), TakePage(found, more)
    PROVE  FetchInv'
<1> DEFINE kept == Between(found, Start, End)
<1>1. /\ TypeOK /\ Given /\ Walking /\ current \in Times \cup {None, Live}
      /\ Adapter' = Adapter /\ Start' = Start /\ End' = End /\ Wanted' = Wanted
      /\ rows \subseteq Times /\ Wanted \subseteq Times
  BY ArrivingFacts
<1>2. /\ WellFormed(Adapter) /\ Times \subseteq Nat
      /\ Start \in Times \cup {None} /\ End \in Times \cup {None} /\ None \notin Int
      /\ Times = 0 .. Horizon /\ Horizon \in Nat /\ Limit \in Nat \ {0}
      /\ Start \in Int \cup {None} /\ End \in Int \cup {None}
  BY <1>1, GivenTypes
<1>3. /\ Adapter.stops = {"unranged", "short", "end"}
      /\ \A t \in Wanted : t \in rows \/ Ahead(cursor, t)
      /\ DownToOldest(rows) /\ rows \subseteq Between(Times, Start, End)
      /\ Start = None => rows = {}
      /\ Start # None => cursor \in Int
  BY <1>1, <1>2 DEF Walking, Walks, WellFormed, FirstPage
<1>4. PICK all : all = rows \cup kept
  OBVIOUS
<1>5. /\ all \subseteq Between(Times, Start, End) /\ all \subseteq Times
      /\ kept = found
  BY <1>1, <1>3, <1>4 DEF Between, Highest
<1>6. ASSUME Start # None
      PROVE  /\ \A t \in Wanted : \A x \in found : t <= x => t \in all
             /\ DownToOldest(all) /\ Contiguous(all)
             /\ Rest(cursor) \subseteq found => Wanted \subseteq all
  <2>1. \A t \in Wanted : t \in rows \/ t \in Rest(cursor)
    BY <1>3 DEF Rest
  <2>2. \A t \in Wanted : \A x \in found : t <= x => t \in all
    BY <1>3, <1>4, <1>5, <1>6, <2>1 DEF Highest
  <2>3. DownToOldest(all)
    <3>1. ASSUME NEW t \in all, NEW u \in Wanted, u <= t  PROVE u \in all
      BY <1>3, <1>4, <1>5, <2>2, <3>1 DEF DownToOldest
    <3>2. QED  BY <3>1 DEF DownToOldest
  <2>4. Contiguous(all)
    BY <1>1, <1>5, <2>3, ReachingIsContiguous
  <2>5. Rest(cursor) \subseteq found => Wanted \subseteq all
    BY <1>4, <1>5, <2>1
  <2>6. QED  BY <2>2, <2>3, <2>4, <2>5
<1>7. Contiguous(all)
  BY <1>3, <1>4, <1>5, <1>6
<1>8. ASSUME Done("result", current, all, None), Start # None => Wanted \subseteq all
      PROVE  FetchInv'
  <2>1. PICK c : c = current
    OBVIOUS
  <2>2. QED
    BY <1>1, <1>5, <1>7, <1>8, <2>1, ResultKeeps DEF Arriving
<1> HIDE DEF kept
<1>9. ASSUME ~Ends(found, kept, more)
      PROVE  /\ Start # None /\ Last(found) \in found /\ Last(found) \in Nat
             /\ Last(found) + 1 \in Cursors /\ \A t \in found : t <= Last(found)
  <2>1. Start # None /\ ~(Cardinality(found) < Limit)
    BY <1>3, <1>5, <1>9 DEF Ends
  <2>2. found # {}
    <3>1. Cardinality({}) = 0
      BY FS_EmptySet
    <3>2. QED  BY <1>2, <2>1, <3>1
  <2>3. Last(found) \in found /\ \A t \in found : t <= Last(found)
    BY <1>2, <2>2, LastExists
  <2>4. Last(found) \in 0 .. Horizon
    BY <1>2, <2>3
  <2>5. Last(found) \in Nat /\ Last(found) + 1 \in Cursors
    BY <1>2, <2>4 DEF Cursors
  <2>6. QED
    BY <2>1, <2>3, <2>5
<1>10. CASE Ends(found, kept, more) /\ Done("result", current, all, None)
  <2>1. ASSUME Start # None  PROVE Wanted \subseteq all
    <3>1. Cardinality(found) < Limit
      BY <1>3, <1>5, <1>10, <2>1 DEF Ends
    <3>2. QED  BY <1>3, <1>6, <2>1, <3>1 DEF Highest
  <2>2. QED  BY <1>8, <1>10, <2>1
<1>11. CASE HistoryFailed
  BY <1>11, FailureKeeps DEF Arriving
<1>12. CASE /\ ~Ends(found, kept, more) /\ End # None /\ Last(found) + 1 > End
            /\ Done("result", current, all, None)
  <2>1. ASSUME NEW t \in Wanted  PROVE t \in all
    <3>1. t <= End /\ t \in Nat /\ End \in Nat
      BY <1>1, <1>2, <1>12, <2>1 DEF Wanted, Between, Within
    <3>2. t <= Last(found)
      BY <1>9, <1>12, <3>1
    <3>3. QED  BY <1>6, <1>9, <1>12, <2>1, <3>2
  <2>2. QED  BY <1>8, <1>12, <2>1
<1>13. CASE /\ ~Ends(found, kept, more) /\ WithinBudget
            /\ page' = NextPage /\ cursor' = Last(found) + 1 /\ rows' = all
            /\ UNCHANGED <<stage, current, until, issue, outcome>>
  <2>1. ASSUME NEW t \in Wanted  PROVE t \in rows' \/ Ahead(cursor, t)'
    <3>1. t \in Nat
      BY <1>1, <1>2, <2>1
    <3>2. CASE t <= Last(found)
      BY <1>6, <1>9, <1>13, <2>1, <3>2
    <3>3. CASE Last(found) < t
      BY <1>1, <1>9, <1>13, <3>1, <3>3 DEF Ahead
    <3>4. QED  BY <1>9, <1>13, <3>1, <3>2, <3>3
  <2>2. DownToOldest(rows)'
    BY <1>1, <1>6, <1>9, <1>13 DEF DownToOldest
  <2>3. cursor' \in Int /\ Start # None
    BY <1>9, <1>13
  <2>4. Walking'
    BY <1>1, <1>5, <1>13, <2>1, <2>2, <2>3 DEF Walking, Walks, Lowered, Kinds
  <2>5. page' \in 1 .. MaxPages
    BY <1>1, <1>13, BoundsAssumption DEF WithinBudget, NextPage, TypeOK
  <2>6. cursor' \in Cursors \cup {None}
    BY <1>9, <1>13
  <2>7. QED
    BY <1>5, <1>13, <2>4, <2>5, <2>6, GoesOn DEF Arriving
<1>14. QED
  <2>1. Advanced(found, kept) = Last(found) + 1
    BY <1>5 DEF Advanced
  <2>2. \/ Ends(found, kept, more) /\ Done("result", current, all, None)
        \/ HistoryFailed
        \/ /\ ~Ends(found, kept, more) /\ End # None /\ Advanced(found, kept) > End
           /\ Done("result", current, all, None)
        \/ /\ ~Ends(found, kept, more) /\ WithinBudget
           /\ page' = NextPage /\ cursor' = Advanced(found, kept) /\ rows' = all
           /\ UNCHANGED <<stage, current, until, issue, outcome>>
    BY <1>4 DEF TakePage, kept
  <2>3. QED  BY <1>10, <1>11, <1>12, <1>13, <2>1, <2>2

\* Numbered pages count from the newest row: while all pages are fresh, what the
\* venue publishes meanwhile can only make pages overlap.
LEMMA NumberedKeeps ==
    ASSUME Arriving, Adapter.walk = "numbered", NEW found, found \subseteq Times,
           NEW more \in BOOLEAN, TakePage(found, more),
           ~reused' => /\ ~reused /\ found \in FullPages(cursor, page)
                       /\ more = More(cursor, page, found)
    PROVE  FetchInv'
<1> DEFINE kept  == Between(found, Start, End)
           top   == Newest(page * Limit, published)
           above == Newest((page - 1) * Limit, published)
<1>1. /\ TypeOK /\ Given /\ Walking /\ current \in Times \cup {None, Live}
      /\ Adapter' = Adapter /\ Start' = Start /\ End' = End /\ Wanted' = Wanted
      /\ rows \subseteq Times /\ Wanted \subseteq Times /\ page \in 1 .. MaxPages
  BY ArrivingFacts DEF TypeOK
<1>2. /\ WellFormed(Adapter) /\ Times \subseteq Nat
      /\ Start \in Times \cup {None} /\ End \in Times \cup {None} /\ None \notin Int
      /\ published \subseteq 0 .. Horizon /\ Horizon \in Nat /\ Limit \in Nat \ {0}
      /\ MaxPages \in Nat
  BY <1>1, GivenTypes
<1>3. rows \subseteq Between(Times, Start, End)
  BY <1>1 DEF Walking, Walks
<1>4. PICK all : all = rows \cup kept
  OBVIOUS
<1>5. all \subseteq Between(Times, Start, End) /\ all \subseteq Times
  BY <1>1, <1>3, <1>4 DEF Between
<1>6. \A t \in Wanted : t \in found => t \in all
  BY <1>4 DEF Wanted, Between
<1>7. /\ page \in Nat /\ (page - 1) * Limit \in Nat /\ page * Limit \in Nat \ {0}
      /\ (page - 1) * Limit + Limit = page * Limit
  <2>1. page \in Nat /\ page - 1 \in Nat
    BY <1>1, <1>2
  <2>2. (page - 1) * Limit + Limit = page * Limit /\ (page - 1) * Limit \in Nat
    BY <1>2, <2>1
  <2>3. QED  BY <1>2, <2>1, <2>2
<1>8. /\ top \subseteq published
      /\ \A t \in top : \A u \in published : t <= u => u \in top
      /\ Cardinality(published) <= page * Limit => top = published
  <2>1. PICK n \in Nat \ {0} : n = page * Limit
    BY <1>7
  <2>2. /\ Newest(n, published) \subseteq published
        /\ \A t \in Newest(n, published) : \A u \in published :
               t <= u => u \in Newest(n, published)
    BY <1>2, NewestRows
  <2>3. Cardinality(published) <= n => Newest(n, published) = published
    BY <1>2, NewestCount
  <2>4. QED  BY <2>1, <2>2, <2>3
<1>9. \A t \in Wanted : t \in published /\ t \in Nat
  BY <1>1, <1>2 DEF Wanted, Between, Given
<1> HIDE DEF kept, top, above
<1>10. ASSUME ~reused', venue # "stuck"
       PROVE  /\ top = found \cup above
              /\ Cardinality(found) < Limit => top = published
              /\ Wanted \cap top \subseteq all
              /\ \A t \in found : t \in top
  <2>1. found = Newest(page * Limit, published) \ Newest((page - 1) * Limit, published)
    BY <1>10 DEF FullPages
  <2>2. PICK k \in Nat : k = (page - 1) * Limit
    BY <1>7
  <2>3. k + Limit = page * Limit
    BY <1>7, <2>2
  <2>4. found = Newest(k + Limit, published) \ Newest(k, published)
    BY <2>1, <2>2, <2>3
  <2>5. /\ Newest(k + Limit, published) = found \cup Newest(k, published)
        /\ Cardinality(found) < Limit => Newest(k + Limit, published) = published
    BY <1>2, <2>4, NumberedPage
  <2>6. top = found \cup above /\ (Cardinality(found) < Limit => top = published)
    BY <2>2, <2>3, <2>5 DEF top, above
  <2>7. Wanted \cap above \subseteq rows
    BY <1>1, <1>10 DEF Walking, above
  <2>8. Wanted \cap top \subseteq all
    BY <1>4, <1>6, <2>6, <2>7
  <2>9. QED  BY <2>6, <2>8
<1>11. ASSUME ~reused'
       PROVE  \A t \in found : \A u \in Wanted : t <= u => u \in all
  <2>1. CASE venue # "stuck"
    BY <1>8, <1>9, <1>10, <1>11, <2>1
  <2>2. CASE venue = "stuck"
    <3>1. found = Newest(1 * Limit, published) \ Newest((1 - 1) * Limit, published)
      BY <1>11, <2>2 DEF FullPages
    <3>2. 1 * Limit = Limit /\ (1 - 1) * Limit = 0
      BY <1>2
    <3>3. found = Newest(Limit, published)
      BY <1>2, <3>1, <3>2, NewestNone
    <3>4. \A t \in found : \A u \in published : t <= u => u \in found
      BY <1>2, <3>3, NewestRows
    <3>5. QED  BY <1>6, <1>9, <3>4
  <2>3. QED  BY <2>1, <2>2
<1>12. ASSUME ~reused'  PROVE UpToNewest(all)
  <2>1. UpToNewest(rows)
    BY <1>1, <1>12 DEF Walking
  <2>2. ASSUME NEW t \in all, NEW u \in Wanted, t <= u  PROVE u \in all
    <3>1. CASE t \in rows
      BY <1>4, <2>1, <2>2, <3>1 DEF UpToNewest
    <3>2. CASE t \in found
      BY <1>11, <1>12, <2>2, <3>2
    <3>3. QED  BY <1>4, <2>2, <3>1, <3>2 DEF Between, kept
  <2>3. QED  BY <2>2 DEF UpToNewest
<1>13. CASE Ends(found, kept, more) /\ Done("result", current, all, None)
  <2>1. ASSUME Start # None, Trusted'  PROVE Wanted \subseteq all
    <3>1. ~reused' /\ venue # "stuck"
      BY <1>1, <2>1 DEF Trusted, Arriving
    <3>2. \/ Cardinality(found) < Limit
          \/ found = {}
          \/ ~more
          \/ found # {} /\ First(found) <= Start
      BY <1>13, <2>1 DEF Ends, ReachedStart, Start
    <3>3. ASSUME top = published  PROVE Wanted \subseteq all
      BY <1>9, <1>10, <3>1, <3>3
    <3>4. CASE Cardinality(found) < Limit
      BY <1>10, <3>1, <3>3, <3>4
    <3>5. CASE found = {}
      <4>1. Cardinality(found) = 0
        BY <3>5, FS_EmptySet
      <4>2. QED  BY <1>2, <3>4, <4>1
    <3>6. CASE ~more
      <4>1. ~(page * Limit < Cardinality(published))
        BY <3>1, <3>6 DEF More
      <4>2. Cardinality(published) \in Nat
        BY <1>2, RowsFinite
      <4>3. Cardinality(published) <= page * Limit
        <5>1. PICK n \in Nat : n = page * Limit
          BY <1>7
        <5>2. QED  BY <4>1, <4>2, <5>1
      <4>4. QED  BY <1>8, <3>3, <4>3
    <3>7. CASE found # {} /\ First(found) <= Start
      <4>1. First(found) \in found /\ First(found) \in Nat /\ Start \in Int
        <5>1. found \subseteq Nat /\ Start \in Int
          BY <1>2, <2>1
        <5>2. First(found) \in found
          BY <3>7, <5>1, FirstExists
        <5>3. QED  BY <5>1, <5>2
      <4>2. ASSUME NEW t \in Wanted  PROVE First(found) <= t
        <5>1. Start <= t /\ t \in Nat
          BY <1>1, <1>2, <4>1, <4>2 DEF Wanted, Between, Within
        <5>2. QED  BY <3>7, <4>1, <5>1
      <4>3. QED  BY <1>11, <3>1, <4>1, <4>2
    <3>8. QED  BY <3>2, <3>4, <3>5, <3>6, <3>7
  <2>2. ~reused' => Contiguous(all)
    BY <1>1, <1>5, <1>12, ReachingIsContiguous
  <2>3. PICK c : c = current
    OBVIOUS
  <2>4. QED
    BY <1>1, <1>5, <1>13, <2>1, <2>2, <2>3, ResultKeeps DEF Arriving
<1>14. CASE HistoryFailed
  BY <1>14, FailureKeeps DEF Arriving
<1>15. CASE /\ ~Ends(found, kept, more) /\ WithinBudget
            /\ page' = NextPage /\ rows' = all
            /\ UNCHANGED <<stage, current, cursor, until, issue, outcome>>
  <2>1. /\ page' = page + 1 /\ page' \in 1 .. MaxPages
        /\ (page' - 1) * Limit = page * Limit
    BY <1>1, <1>2, <1>15 DEF WithinBudget, NextPage
  <2>2. cursor' \in Cursors \cup {None}
    BY <1>1, <1>15 DEF TypeOK
  <2>3. ASSUME ~reused'
        PROVE  /\ UpToNewest(rows)'
               /\ venue # "stuck" =>
                      Wanted' \cap Newest((page' - 1) * Limit, published') \subseteq rows'
    <3>1. UpToNewest(rows)'
      BY <1>1, <1>12, <1>15, <2>3 DEF UpToNewest
    <3>2. published' = published
      BY DEF Arriving
    <3>3. QED  BY <1>1, <1>10, <1>15, <2>1, <2>3, <3>1, <3>2 DEF top
  <2>4. Walking'
    <3>1. venue' = venue
      BY DEF Arriving
    <3>2. QED  BY <1>1, <1>5, <1>15, <2>3, <3>1 DEF Walking, Walks, Lowered, Kinds
  <2>5. QED
    BY <1>5, <1>15, <2>1, <2>2, <2>4, GoesOn DEF Arriving
<1>16. QED
  <2>1. \/ Ends(found, kept, more) /\ Done("result", current, all, None)
        \/ HistoryFailed
        \/ /\ ~Ends(found, kept, more) /\ WithinBudget
           /\ page' = NextPage /\ rows' = all
           /\ UNCHANGED <<stage, current, cursor, until, issue, outcome>>
    BY <1>4 DEF TakePage, kept
  <2>2. QED  BY <1>13, <1>14, <1>15, <2>1

-----------------------------------------------------------------------------
(* Histories of one page, and the newest settlements.                      *)

\* A settled-only source has all known settlements from its first row to its end.
LEMMA SettledKeeps ==
    ASSUME Arriving, Adapter.walk = "settled", NEW found, found \subseteq Times,
           Contiguous(found), TakeSettled(found)
    PROVE  FetchInv'
<1> DEFINE points == Between(found, From, until)
<1>1. /\ TypeOK /\ Given /\ Walking /\ (Paged <=> Paged')
      /\ Adapter' = Adapter /\ known' = known
  BY ArrivingFacts DEF Arriving
<1>2. /\ WellFormed(Adapter) /\ Times \subseteq Nat /\ Times = 0 .. Horizon /\ Horizon \in Nat
      /\ Lookback \in Nat /\ Start \in Times \cup {None} /\ call.history \in BOOLEAN
  BY <1>1, GivenTypes
<1>3. current = None /\ until \in Times
  BY <1>1 DEF Walking
<1>4. From \in Int \cup {None} /\ until \in Int \cup {None}
  BY <1>2, <1>3 DEF From
<1>5. Contiguous(points) /\ points \subseteq found /\ points \subseteq Times
  BY <1>1, <1>4, RangeIsContiguous DEF Between
<1> HIDE DEF points
<1>6. CASE Error
  BY <1>6, ErrorKeeps DEF Arriving
<1>7. CASE /\ stage' = "latest" /\ rows' = points
           /\ UNCHANGED <<current, page, cursor, until, issue, outcome>>
  <2>1. UNCHANGED <<call, venue, now, published, known, fetches>>
    BY DEF Arriving
  <2>2. TypeOK'
    BY <1>1, <1>5, <1>7, <2>1 DEF Arriving, TypeOK, Stages
  <2>3. outcome' = None /\ issue' = None
    BY <1>7 DEF Arriving, FetchInv
  <2>4. HistoryComplete' /\ WindowsObserved'
    BY <2>3, NoneIsNoResult DEF HistoryComplete, CompleteResult, WindowsObserved,
           ObservedWindows
  <2>5. Contiguous(rows)'
    BY <1>1, <1>5, <1>7 DEF Contiguous
  <2>6. Before'
    BY <1>7 DEF Before
  <2>7. current' = None /\ until' \in Times' /\ Adapter'.walk = "settled"
    BY <1>1, <1>3, <1>7
  <2>8. QED
    BY <1>7, <2>2, <2>3, <2>4, <2>5, <2>6, <2>7 DEF FetchInv, Arriving
<1>8. CASE /\ points # {}
           /\ Done("result", Last(found), IF call.history THEN points ELSE {}, None)
  <2>1. Last(found) \in Times
    <3>1. found # {} /\ found \subseteq 0 .. Horizon
      BY <1>2, <1>5, <1>8
    <3>2. Last(found) \in found
      BY <1>2, <3>1, LastExists
    <3>3. QED  BY <3>2
  <2>2. ~Paged
    BY DEF Paged
  <2>3. PICK c, r : c = Last(found) /\ r = IF call.history THEN points ELSE {}
    OBVIOUS
  <2>4. Contiguous(r) /\ r \subseteq Times
    BY <1>5, <2>3 DEF Contiguous
  <2>5. QED
    BY <1>8, <2>1, <2>2, <2>3, <2>4, ResultKeeps DEF Arriving
<1>9. QED
  BY <1>6, <1>7, <1>8 DEF TakeSettled, points

\* The optional provider and the sources with one page return what they were given.
LEMMA SinglePageKeeps ==
    ASSUME Arriving, NEW found, found \subseteq Times, Contiguous(found),
           \/ Adapter.walk = "since" /\ TakeOptional(found)
           \/ /\ Adapter.walk \in {"once", "closed", "recent"}
              /\ Done("result", current, Between(found, Start, End), None)
           \/ /\ Adapter.walk = "download" /\ Wanted \subseteq found
              /\ Done("result", current, Between(found, Start, End), None)
    PROVE  FetchInv'
<1> DEFINE kept == Between(found, Start, End)
<1>1. /\ TypeOK /\ Given /\ current \in Times \cup {None, Live}
  BY ArrivingFacts
<1>2. /\ WellFormed(Adapter) /\ Times \subseteq Nat /\ Times = 0 .. Horizon /\ Horizon \in Nat
      /\ Start \in Int \cup {None} /\ End \in Int \cup {None} /\ call.history \in BOOLEAN
  BY <1>1, GivenTypes
<1>3. Contiguous(kept) /\ kept \subseteq Times
  BY <1>1, <1>2, RangeIsContiguous
<1>4. Wanted \subseteq found => Wanted \subseteq kept
  BY DEF Wanted, Between
<1>5. kept # {} => Last(kept) \in Times
  <2>1. kept \subseteq 0 .. Horizon
    BY <1>2, <1>3
  <2>2. kept # {} => Last(kept) \in kept
    BY <1>2, <2>1, LastExists
  <2>3. QED  BY <1>3, <2>2
<1> HIDE DEF kept
<1>6. CASE Error
  BY <1>6, ErrorKeeps DEF Arriving
<1>7. ASSUME NEW c \in Times \cup {None, Live}, NEW r, r = kept \/ r = {},
             Done("result", c, r, None), Paged => Wanted \subseteq r
      PROVE  FetchInv'
  <2>1. Contiguous(r) /\ r \subseteq Times
    BY <1>3, <1>7 DEF Contiguous
  <2>2. QED
    BY <1>7, <2>1, ResultKeeps DEF Arriving
<1>8. CASE Adapter.walk = "since" /\ TakeOptional(found)
  <2>1. PICK c, r : /\ c = IF current # None \/ kept = {} THEN current ELSE Last(kept)
                    /\ r = IF call.history THEN kept ELSE {}
    OBVIOUS
  <2>2. c \in Times \cup {None, Live} /\ (r = kept \/ r = {})
    BY <1>1, <1>2, <1>5, <2>1
  <2>3. Error \/ Done("result", c, r, None)
    BY <1>8, <2>1 DEF TakeOptional, kept
  <2>4. ~Paged
    BY <1>8 DEF Paged
  <2>5. QED  BY <1>6, <1>7, <2>2, <2>3, <2>4
<1>9. CASE /\ Adapter.walk \in {"once", "closed", "recent", "download"}
           /\ Done("result", current, kept, None)
           /\ Adapter.walk = "download" => Wanted \subseteq found
  <2>1. PICK c, r : c = current /\ r = kept
    OBVIOUS
  <2>2. Paged => Wanted \subseteq r
    BY <1>4, <1>9, <2>1 DEF Paged
  <2>3. QED  BY <1>1, <1>7, <1>9, <2>1, <2>2
<1>10. QED
  BY <1>8, <1>9 DEF kept

LEMMA PageKeeps == FetchInv /\ PageArrives => FetchInv'
<1> SUFFICES ASSUME FetchInv, PageArrives  PROVE FetchInv'
  OBVIOUS
<1>1. stage = "history" /\ UNCHANGED <<call, venue, now, published, known, fetches>>
  BY DEF PageArrives
<1>2. PICK answer \in Answers :
          /\ Receive(answer)
          /\ CASE Adapter.walk = "settled" -> TakeSettled(answer.found)
               [] Adapter.walk = "since"   -> TakeOptional(answer.found)
               [] Adapter.walk \in {"once", "closed", "recent"} ->
                      Done("result", current, Between(answer.found, Start, End), None)
               [] Adapter.walk = "download" ->
                      IF Cardinality(answer.found) > RowLimit THEN HistoryFailed
                      ELSE Done("result", current, Between(answer.found, Start, End), None)
               [] OTHER -> TakePage(answer.found, answer.more)
  BY DEF PageArrives
<1>3. PICK found, more : found = answer.found /\ more = answer.more
  OBVIOUS
<1>4. Awaiting
  BY <1>1 DEF Awaiting
<1>5. Arriving
  BY <1>1, <1>2, <1>4, ReceiveKeeps DEF Arriving
<1>6. found \subseteq Times /\ more \in BOOLEAN /\ Holds(Key, found, more)
  BY <1>3, <1>4, AnswerHolds
<1>7. Key[1] = "history" /\ Key[3] = cursor /\ Key[4] = until
  BY <1>1, <1>4, KeyTypes
<1>8. /\ Adapter.walk # "numbered" => Contiguous(found)
      /\ Adapter.walk \in Lowered => Lowest(cursor, found, more)
      /\ Adapter.walk = "forward" => Highest(cursor, found)
      /\ Adapter.walk = "download" => Wanted \subseteq found
  BY <1>6, <1>7 DEF Holds
<1>9. /\ Given /\ WellFormed(Adapter) /\ Adapter.walk # "none"
  <2>1. Given /\ Walking
    BY <1>5, ArrivingFacts
  <2>2. QED  BY <2>1, GivenTypes DEF Walking
<1>10. CASE Adapter.walk = "settled"
  BY <1>2, <1>3, <1>5, <1>6, <1>8, <1>10, SettledKeeps
<1>11. CASE Adapter.walk \in {"since", "once", "closed", "recent"}
  <2>1. \/ Adapter.walk = "since" /\ TakeOptional(found)
        \/ /\ Adapter.walk \in {"once", "closed", "recent"}
           /\ Done("result", current, Between(found, Start, End), None)
    BY <1>2, <1>3, <1>11
  <2>2. QED
    BY <1>5, <1>6, <1>8, <1>11, <2>1, SinglePageKeeps
<1>12. CASE Adapter.walk = "download"
  <2>1. \/ HistoryFailed
        \/ Done("result", current, Between(found, Start, End), None)
    BY <1>2, <1>3, <1>12
  <2>2. HistoryFailed => FetchInv'
    BY <1>5, FailureKeeps DEF Arriving
  <2>3. QED
    BY <1>5, <1>6, <1>8, <1>12, <2>1, <2>2, SinglePageKeeps
<1>13. CASE Adapter.walk \in Walks
  <2>1. TakePage(found, more)
    BY <1>2, <1>3, <1>13 DEF Walks
  <2>2. CASE Adapter.walk \in Lowered
    BY <1>5, <1>6, <1>8, <2>1, <2>2, LoweredKeeps
  <2>3. CASE Adapter.walk = "forward"
    <3>1. Contiguous(found) /\ Highest(cursor, found)
      BY <1>8, <2>3
    <3>2. QED  BY <1>5, <1>6, <2>1, <2>3, <3>1, ForwardKeeps
  <2>4. CASE Adapter.walk = "numbered"
    <3>1. ASSUME ~reused'
          PROVE  /\ ~reused /\ found \in FullPages(cursor, page)
                 /\ more = More(cursor, page, found)
      <4>1. ~reused /\ Held = {}
        BY <1>2, <3>1 DEF Receive
      <4>2. found \in Served(cursor, page) /\ more = More(cursor, page, found)
        BY <1>1, <1>3, <1>4, <4>1, FreshAnswerHolds
      <4>3. Served(cursor, page) = FullPages(cursor, page)
        BY <2>4 DEF Served
      <4>4. QED  BY <4>1, <4>2, <4>3
    <3>2. QED  BY <1>5, <1>6, <2>1, <2>4, <3>1, NumberedKeeps
  <2>5. QED  BY <1>13, <2>2, <2>3, <2>4 DEF Walks, Lowered
<1>14. QED
  BY <1>9, <1>10, <1>11, <1>12, <1>13 DEF WellFormed, Kinds, Walks

LEMMA LatestKeeps == FetchInv /\ LatestArrives => FetchInv'
<1> SUFFICES ASSUME FetchInv, LatestArrives  PROVE FetchInv'
  OBVIOUS
<1>1. stage = "latest" /\ UNCHANGED <<call, venue, now, published, known, fetches>>
  BY DEF LatestArrives
<1>2. PICK answer \in Answers :
          /\ Receive(answer)
          /\ IF answer.found = {} THEN Error
             ELSE Done("result", Last(answer.found), IF call.history THEN rows ELSE {}, None)
  BY DEF LatestArrives
<1>3. Awaiting
  BY <1>1 DEF Awaiting
<1>4. responses' \in Seq(Pages) /\ PagesHold' /\ reused' \in BOOLEAN
  BY <1>1, <1>2, <1>3, ReceiveKeeps
<1>5. answer.found \subseteq Times
  BY <1>3, AnswerHolds
<1>6. /\ Contiguous(rows) /\ rows \subseteq Times /\ ~Paged /\ Horizon \in Nat
      /\ Times = 0 .. Horizon
  BY <1>1, BoundsAssumption DEF FetchInv, TypeOK, Paged, Times
<1>7. CASE Error
  BY <1>1, <1>4, <1>7, ErrorKeeps
<1>8. CASE /\ answer.found # {}
           /\ Done("result", Last(answer.found), IF call.history THEN rows ELSE {}, None)
  <2>1. PICK c, r : c = Last(answer.found) /\ r = IF call.history THEN rows ELSE {}
    OBVIOUS
  <2>2. c \in Times
    <3>1. PICK found : found = answer.found
      OBVIOUS
    <3>2. found # {} /\ found \subseteq 0 .. Horizon
      BY <1>5, <1>6, <1>8, <3>1
    <3>3. Last(found) \in found
      BY <1>6, <3>2, LastExists
    <3>4. QED  BY <1>5, <2>1, <3>1, <3>3
  <2>3. Contiguous(r) /\ r \subseteq Times
    BY <1>6, <2>1 DEF Contiguous
  <2>4. QED
    BY <1>1, <1>4, <1>6, <1>8, <2>1, <2>2, <2>3, ResultKeeps
<1>9. QED  BY <1>2, <1>7, <1>8

-----------------------------------------------------------------------------
(* The theorems.                                                           *)

LEMMA StepKeeps == FetchInv /\ [Next]_vars => FetchInv'
<1> SUFFICES ASSUME FetchInv, [Next]_vars  PROVE FetchInv'
  OBVIOUS
<1>1. CASE Call
  BY <1>1, CallKeeps
<1>2. CASE CurrentArrives \/ CurrentMissing \/ Enriched
  BY <1>2, CurrentKeeps
<1>3. CASE PageArrives
  BY <1>3, PageKeeps
<1>4. CASE LatestArrives
  BY <1>4, LatestKeeps
<1>5. CASE CurrentFails \/ PageFails \/ LatestFails
  BY <1>5, FailsKeep
<1>6. CASE Cancel
  BY <1>6, CancelKeeps
<1>7. CASE Settle
  BY <1>7, SettleKeeps
<1>8. CASE Expire
  BY <1>8, ExpireKeeps
<1>9. CASE UNCHANGED vars
  BY <1>9, StutterKeeps
<1>10. QED
  BY <1>1, <1>2, <1>3, <1>4, <1>5, <1>6, <1>7, <1>8, <1>9 DEF Next, Answered

\* The inductive invariant: what every held page has of the known settlements, and
\* that a walk has collected all of them that do not lie ahead of its cursor.
THEOREM FetchInvariant == Spec => []FetchInv
<1>1. Init => FetchInv
  BY StartsIdle
<1>2. FetchInv /\ [Next]_vars => FetchInv'
  BY StepKeeps
<1>3. QED
  BY <1>1, <1>2, PTL DEF Spec

\* Every variable keeps to its type, so page numbers stay within the budget of
\* FUNDING_HISTORY_MAX_PAGES and cursors within the venue's times.
THEOREM FundingTypeCorrect == Spec => []TypeOK
<1>1. FetchInv => TypeOK
  BY DEF FetchInv
<1>2. QED
  BY <1>1, FetchInvariant, PTL

\* A history that a paging adapter returns without an issue for an explicit range
\* has every settlement of it that was published when the walk began, under the
\* conditions that Trusted lists: numbered pages fresh and turned, short pages last.
THEOREM FundingHistoriesAreComplete == Spec => []HistoryComplete
<1>1. FetchInv => HistoryComplete
  BY DEF FetchInv
<1>2. QED
  BY <1>1, FetchInvariant, PTL

\* The walks that are addressed by a time, an identity or a token need nothing of
\* the transport, which may answer any page from its cache, and nothing of the venue
\* but full pages where a short one ends the walk (funding.py:207-231, 893-927,
\* 1025-1063, 1404-1466 and the download of Kraken).
THEOREM AddressedHistoriesAreComplete ==
    Spec => [](Adapter.walk # "numbered" /\ (venue = "capped" => "short" \notin Adapter.stops)
                   => CompleteResult)
<1>1. HistoryComplete =>
          (Adapter.walk # "numbered" /\ (venue = "capped" => "short" \notin Adapter.stops)
               => CompleteResult)
  BY DEF HistoryComplete, Trusted
<1>2. QED
  BY <1>1, FundingHistoriesAreComplete, PTL

\* No settlement is left out between two rows of a result, so no window derived
\* from them spans two (preserve_observed_intervals relies on it), unless a numbered
\* walk took one of its pages from the transport's cache.
THEOREM WindowsAreObserved == Spec => []WindowsObserved
<1>1. FetchInv => WindowsObserved
  BY DEF FetchInv
<1>2. QED
  BY <1>1, FetchInvariant, PTL

\* For all other adapters that is so whatever the venue and the transport do.
THEOREM AddressedWindowsAreObserved ==
    Spec => [](Adapter.walk # "numbered" => ObservedWindows)
<1>1. WindowsObserved => (Adapter.walk # "numbered" => ObservedWindows)
  BY DEF WindowsObserved
<1>2. QED
  BY <1>1, WindowsAreObserved, PTL

\* The steps of a fetch that returns a result, and where it takes its current value.
LEMMA SettledStep ==
    ASSUME FetchInv, Next, Adapter.walk = "settled", stage # "idle", outcome' = "result"
    PROVE  \A t \in known : t <= current' \/ t >= now
<1>1. TypeOK /\ Before /\ outcome = None /\ Given
  BY DEF FetchInv, TypeOK, Given
<1>2. /\ known \subseteq Nat /\ now \in Nat /\ Times = 0 .. Horizon /\ Horizon \in Nat
      /\ Times \subseteq Nat /\ Lookback \in Nat /\ Start \in Times \cup {None}
      /\ known \subseteq Times /\ WellFormed(Adapter)
  BY <1>1, GivenTypes DEF Given
<1>3. stage \in {"history", "latest"}
  BY <1>1 DEF Before, TypeOK, Stages
<1>4. current = None /\ until \in Times
  BY <1>3 DEF FetchInv, Walking
<1>5. ~Call /\ ~Settle /\ ~Expire
  BY <1>1, NoneIsNoResult DEF Call, Settle, Expire, fetchVars
<1>6. ~Cancel /\ ~CurrentFails /\ ~PageFails /\ ~LatestFails
  <2>1. ~Error /\ ~HistoryFailed
    BY <1>4 DEF Error, Done, HistoryFailed, KeepsCurrent
  <2>2. QED  BY <2>1 DEF Cancel, CurrentFails, PageFails, LatestFails, Done
<1>7. PageArrives \/ LatestArrives
  BY <1>3, <1>5, <1>6 DEF Next, Answered, CurrentArrives, CurrentMissing, Enriched
<1>8. Awaiting
  BY <1>3 DEF Awaiting
<1>9. ASSUME NEW from \in Int, NEW to \in Int, NEW found, found # {}, to >= now - 1,
             Between(known, from, to) \subseteq found, found \subseteq Times,
             \E x \in found : from <= x, current' = Last(found)
      PROVE  \A t \in known : t <= current' \/ t >= now
  <2>1. Last(found) \in found /\ \A x \in found : x <= Last(found)
    BY <1>2, <1>9, LastExists
  <2>2. ASSUME NEW t \in known, t < now  PROVE t <= Last(found)
    <3>1. t \in Int /\ Last(found) \in Int /\ t <= to
      <4>1. t \in Int /\ now \in Int
        BY <1>2
      <4>2. t <= to
        BY <1>9, <2>2, <4>1
      <4>3. found \subseteq Times /\ Times \subseteq Int
        BY <1>2, <1>9
      <4>4. Last(found) \in Int
        BY <2>1, <4>3
      <4>5. QED  BY <4>1, <4>2, <4>4
    <3>2. CASE from <= t
      BY <1>9, <2>1, <3>1, <3>2 DEF Between, Within
    <3>3. CASE t < from
      <4>1. PICK x \in found : from <= x
        BY <1>9
      <4>2. x \in Int /\ x <= Last(found)
        BY <1>2, <1>9, <2>1, <4>1
      <4>3. QED  BY <3>1, <3>3, <4>1, <4>2
    <3>4. QED  BY <3>1, <3>2, <3>3
  <2>3. QED  BY <1>2, <1>9, <2>2
<1>10. CASE PageArrives
  <2>1. PICK answer \in Answers : Receive(answer) /\ TakeSettled(answer.found)
    BY <1>10 DEF PageArrives
  <2>2. PICK found : found = answer.found
    OBVIOUS
  <2>3. found \subseteq Times /\ Holds(Key, found, answer.more)
    BY <1>8, <2>2, AnswerHolds
  <2>4. Key[1] = "history" /\ Key[4] = until
    BY <1>8, <1>10, KeyTypes DEF PageArrives
  <2>5. /\ Between(known, SettledFrom(until), until) \subseteq found
    BY <2>3, <2>4 DEF Holds
  <2>6. From = SettledFrom(until) /\ SettledFrom(until) \in Int /\ until \in Int
    <3>1. Adapter.ranged
      BY <1>2 DEF WellFormed
    <3>2. From = SettledFrom(until)
      BY <3>1 DEF From, SettledFrom
    <3>3. until \in Int /\ (Start \in Int \/ Start = None)
      BY <1>2, <1>4
    <3>4. SettledFrom(until) \in Int
      BY <1>2, <3>3 DEF SettledFrom
    <3>5. QED  BY <3>2, <3>3, <3>4
  <2>7. /\ Between(found, From, until) # {} /\ ~IsPast /\ current' = Last(found)
    BY <1>1, <2>1, <2>2, NoneIsNoResult DEF TakeSettled, Error, Done
  <2>8. found # {} /\ \E x \in found : SettledFrom(until) <= x
    BY <2>6, <2>7 DEF Between, Within
  <2>9. until >= now - 1
    BY <1>2, <2>6, <2>7 DEF IsPast
  <2>10. QED
    BY <1>9, <2>3, <2>5, <2>6, <2>7, <2>8, <2>9
<1>11. CASE LatestArrives
  <2>1. PICK answer \in Answers :
            /\ Receive(answer)
            /\ IF answer.found = {} THEN Error
               ELSE Done("result", Last(answer.found), IF call.history THEN rows ELSE {}, None)
    BY <1>11 DEF LatestArrives
  <2>2. PICK found : found = answer.found
    OBVIOUS
  <2>3. found \subseteq Times /\ Holds(Key, found, answer.more)
    BY <1>8, <2>2, AnswerHolds
  <2>4. Key[1] = "latest" /\ Key[3] = now
    BY <1>8, <1>11, KeyTypes DEF LatestArrives
  <2>5. Between(known, now - 2, now) \subseteq found /\ found \subseteq Between(Times, now - 2, now)
    BY <2>3, <2>4 DEF Holds
  <2>6. found # {} /\ current' = Last(found)
    BY <2>1, <2>2 DEF Error, Done
  <2>7. now - 2 \in Int /\ now \in Int /\ now >= now - 1
    BY <1>2
  <2>8. \E x \in found : now - 2 <= x
    BY <2>5, <2>6, <2>7 DEF Between, Within
  <2>9. QED
    BY <1>9, <2>3, <2>5, <2>6, <2>7, <2>8
<1>12. QED
  BY <1>7, <1>10, <1>11

\* Whatever range of history is asked for, the current value of a settled-only
\* source is older than only those settlements that the present interval brought.
THEOREM SettledIsRecent == Spec => SettledCurrentRecent
<1>1. FetchInv /\ [Next]_vars =>
          [Adapter.walk = "settled" /\ stage # "idle" /\ outcome' = "result" =>
               \A t \in known : t <= current' \/ t >= now]_vars
  <2> SUFFICES ASSUME FetchInv, [Next]_vars, Adapter.walk = "settled", stage # "idle",
                      outcome' = "result", ~UNCHANGED vars
               PROVE  \A t \in known : t <= current' \/ t >= now
    OBVIOUS
  <2>1. QED
    BY SettledStep
<1>2. QED
  BY <1>1, FetchInvariant, PTL DEF Spec, SettledCurrentRecent

LEMMA SurvivingStep ==
    ASSUME FetchInv, Next, current # None, stage' = "idle", stage # "idle"
    PROVE  \/ outcome' = "cancelled"
           \/ /\ outcome' = "result" /\ current' = current
              /\ issue' # None => rows' = {}
<1> DEFINE Survives == \/ outcome' = "cancelled"
                       \/ /\ outcome' = "result" /\ current' = current
                          /\ issue' # None => rows' = {}
<1>1. Before /\ (stage = "history" => Walking) /\ stage \in Stages
  BY DEF FetchInv, TypeOK
<1>2. stage \in {"extras", "history"}
  BY <1>1 DEF FetchInv, Before, Stages
<1>3. ASSUME NEW r, Done("result", current, r, None)  PROVE Survives
  BY <1>3 DEF Done
<1>4. ASSUME HistoryFailed  PROVE Survives
  BY <1>4 DEF HistoryFailed, KeepsCurrent, Done
<1>5. ~Call /\ ~Settle /\ ~Expire
  BY DEF Call, Settle, Expire, fetchVars
<1>6. CASE Cancel
  BY <1>6 DEF Cancel, Done
<1>7. CASE PageFails
  BY <1>4, <1>7 DEF PageFails
<1>8. CASE Enriched
  <2>1. current = Live /\ WithCurrent(Live)
    BY <1>1, <1>8 DEF Before, Enriched
  <2>2. PICK i : Done("result", Live, {}, i)
    BY <2>1, NoneIsNoResult DEF WithCurrent, Await
  <2>3. QED  BY <2>1, <2>2 DEF Done
<1>9. CASE PageArrives
  <2>1. stage = "history" /\ Adapter.walk # "settled"
    BY <1>1, <1>9 DEF PageArrives, Walking
  <2>2. PICK answer \in Answers :
            CASE Adapter.walk = "settled" -> TakeSettled(answer.found)
              [] Adapter.walk = "since"   -> TakeOptional(answer.found)
              [] Adapter.walk \in {"once", "closed", "recent"} ->
                     Done("result", current, Between(answer.found, Start, End), None)
              [] Adapter.walk = "download" ->
                     IF Cardinality(answer.found) > RowLimit THEN HistoryFailed
                     ELSE Done("result", current, Between(answer.found, Start, End), None)
              [] OTHER -> TakePage(answer.found, answer.more)
    BY <1>9 DEF PageArrives
  <2>3. \/ TakeOptional(answer.found)
        \/ Done("result", current, Between(answer.found, Start, End), None)
        \/ HistoryFailed
        \/ TakePage(answer.found, answer.more)
    BY <2>1, <2>2
  <2>4. CASE TakeOptional(answer.found)
    <3>1. PICK r : Done("result", current, r, None)
      BY <2>4 DEF TakeOptional
    <3>2. QED  BY <1>3, <3>1
  <2>5. CASE TakePage(answer.found, answer.more)
    <3>1. (\E r : Done("result", current, r, None)) \/ HistoryFailed
      BY <2>1, <2>5 DEF TakePage
    <3>2. QED  BY <1>3, <1>4, <3>1
  <2>6. CASE Done("result", current, Between(answer.found, Start, End), None)
    BY <2>6 DEF Done
  <2>7. QED  BY <1>4, <2>3, <2>4, <2>5, <2>6
<1>10. QED
  BY <1>2, <1>5, <1>6, <1>7, <1>8, <1>9
     DEF Next, Answered, CurrentArrives, CurrentMissing, CurrentFails, LatestArrives, LatestFails

\* Once the current value is known, only the caller's cancellation loses it: whatever
\* becomes of the history, the fetch returns it, with rows or with an issue.
THEOREM FundingCurrentIsKept == Spec => CurrentSurvives
<1>1. FetchInv /\ [Next]_vars =>
          [current # None /\ stage' = "idle" /\ stage # "idle" =>
               \/ outcome' = "cancelled"
               \/ /\ outcome' = "result" /\ current' = current
                  /\ issue' # None => rows' = {}]_vars
  BY SurvivingStep
<1>2. QED
  BY <1>1, FetchInvariant, PTL DEF Spec, CurrentSurvives

=============================================================================
