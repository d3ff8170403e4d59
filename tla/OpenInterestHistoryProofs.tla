----------------------- MODULE OpenInterestHistoryProofs -----------------------
(***************************************************************************)
(* Theorems about the walks of the open-interest adapters: for every       *)
(* adapter, range, venue and page size, histories are complete and joined  *)
(* to the right marks.  The inductive invariant says which promised rows   *)
(* still lie ahead of the walk; one lemma for each way of walking says     *)
(* what a page leaves of them.                                             *)
(***************************************************************************)
EXTENDS OpenInterestHistory, HistoryTheorems

-----------------------------------------------------------------------------
(* What the adapters have in common.                                       *)

\* The parts of an adapter's description that have to fit each other.
WellFormed(a) ==
    /\ a.walk \in {"none", "page", "since", "backward", "forward", "token"}
    /\ a.clamp \in {"now", "complete", "open", "no"}
    /\ a.marks \in {"no", "backward", "forward"}
    /\ a.retained \in BOOLEAN
    /\ a.walk = "backward" =>
           /\ "empty" \in a.stops /\ a.clamp # "complete"
           /\ a.stops \subseteq {"empty", "short", "start", "open", "unranged"}
    /\ a.walk = "forward" =>
           \/ a.stops = {"unranged", "empty", "end"} /\ a.clamp = "now"
           \/ a.stops = {"end", "last"} /\ a.clamp = "complete"
    /\ a.walk = "token" => a.stops = {"last"} /\ a.clamp = "now"
    /\ a.walk \in {"page", "since"} => a.stops = {"once"} /\ a.clamp = "no"
    /\ a.marks = "backward" => a.walk \in {"backward", "token"} /\ a.clamp # "complete"
    /\ a.marks = "forward" <=> a.clamp = "complete"
    /\ a.clamp = "complete" => a.walk = "forward" /\ a.retained
    /\ a.retained => a.clamp \in {"now", "complete"}

LEMMA DeclaredWellFormed ==
    ASSUME NEW a \in DOMAIN Declared  PROVE WellFormed(Declared[a])
<1>1. WellFormed(Binance) /\ WellFormed(Bybit) /\ WellFormed(Gate) /\ WellFormed(Bitfinex)
  BY DEF WellFormed, Binance, Bybit, Gate, Bitfinex, Backward, Snapshot
<1>2. WellFormed(Okx) /\ WellFormed(Kraken) /\ WellFormed(Deepcoin) /\ WellFormed(Kucoin)
  BY DEF WellFormed, Okx, Kraken, Deepcoin, Kucoin, Backward, Snapshot
<1>3. WellFormed(Htx) /\ WellFormed(Hyperliquid) /\ WellFormed(Bingx) /\ WellFormed(Btse)
  BY DEF WellFormed, Htx, Hyperliquid, Bingx, Btse, Snapshot
<1>4. WellFormed(Grvt) /\ WellFormed(Lighter) /\ WellFormed(Mexc) /\ WellFormed(Phemex)
  BY DEF WellFormed, Grvt, Lighter, Mexc, Phemex, Snapshot
<1>5. WellFormed(Toobit) /\ WellFormed(Xt) /\ WellFormed(Ccxt)
  BY DEF WellFormed, Toobit, Xt, Ccxt, Snapshot
<1>6. QED
  BY <1>1, <1>2, <1>3, <1>4, <1>5 DEF Declared

-----------------------------------------------------------------------------
(* What a page leaves.  T is a set of published rows within the range that  *)
(* the walk has still to visit.                                            *)

\* What is published, and the bounds of the range, are times.
Timely ==
    /\ now \in Times /\ Published \subseteq 0 .. now
    /\ Limit \in Nat \ {0} /\ None \notin Int

LEMMA SizesArePositive ==
    ASSUME Timely, NEW k \in Sizes  PROVE k \in Nat \ {0}
  BY DEF Timely, Sizes

LEMMA PublishedTimes ==
    ASSUME Timely
    PROVE  now \in Nat /\ \A t \in Published : t \in Nat /\ t <= now
  BY BoundsAssumption DEF Timely, Times

\* A page of a walk towards older rows has all of them down to its oldest.
LEMMA BackwardPage ==
    ASSUME Timely, Way = "backward", NEW found \in Served,
           NEW T, T \subseteq Published,
           \A t \in T : Within(t, Low, High) /\ (cursor \in Int => t <= cursor)
    PROVE  /\ found \subseteq Published
           /\ \A t \in T : \A u \in found : u <= t => t \in found
           /\ found = {} => T = {}
           /\ venue # "sparse" /\ Cardinality(found) < Limit => T \subseteq found
<1> DEFINE top == IF venue = "stuck" THEN High ELSE cursor
<1>1. Asked = Between(Published, Low, top)
  BY DEF Asked
<1>2. Served = {Newest(k, Asked) : k \in Sizes}
  BY DEF Served
<1>3. PICK k \in Sizes : found = Newest(k, Asked)
  BY <1>2
<1>4. k \in Nat \ {0} /\ (venue # "sparse" => k = Limit)
  BY SizesArePositive DEF Sizes
<1>5. T \subseteq Asked
  BY <1>1 DEF Between, Within
<1>6. Asked \subseteq 0 .. now /\ Asked \subseteq Published /\ now \in Nat
  BY <1>1, PublishedTimes DEF Between, Timely
<1>7. /\ found \subseteq Asked
      /\ \A t \in found : \A u \in Asked : t <= u => u \in found
      /\ Asked # {} => found # {}
      /\ Cardinality(found) < k => found = Asked
  <2> HIDE DEF top
  <2>1. QED  BY <1>3, <1>4, <1>6, NewestRows
<1>8. QED
  BY <1>4, <1>5, <1>6, <1>7

\* A page of a walk towards newer rows has all of them up to its newest.
LEMMA ForwardPage ==
    ASSUME Timely, Way = "forward", cursor \in Int, NEW found \in Served,
           NEW more \in More(found), NEW T, T \subseteq Published,
           \A t \in T : Within(t, Low, High) /\ cursor <= t
    PROVE  /\ found \subseteq Published
           /\ \A t \in T : \A u \in found : t <= u => t \in found
           /\ found = {} => T = {}
           /\ ~more => T \subseteq found
<1> DEFINE bottom == IF venue = "stuck" THEN Low ELSE cursor
           top    == IF Adapter.clamp = "complete" THEN High ELSE None
<1>1. Asked = Between(Published, bottom, top)
  BY DEF Asked
<1>2. Served = {Oldest(k, Asked) : k \in Sizes}
  BY DEF Served, Timely
<1>3. PICK k \in Sizes : found = Oldest(k, Asked)
  BY <1>2
<1>4. k \in Nat \ {0}
  BY SizesArePositive
<1>5. T \subseteq Asked
  BY <1>1 DEF Between, Within, Timely
<1>6. Asked \subseteq 0 .. now /\ Asked \subseteq Published /\ now \in Nat
  BY <1>1, PublishedTimes DEF Between, Timely
<1>7. /\ found \subseteq Asked
      /\ \A t \in found : \A u \in Asked : u <= t => u \in found
      /\ Asked # {} => found # {}
  <2> HIDE DEF top, bottom
  <2>1. QED  BY <1>3, <1>4, <1>6, OldestRows
<1>8. ASSUME ~more  PROVE Asked \subseteq found
  <2>1. ~ \E t \in Asked : \A u \in found : t > u
    BY <1>8 DEF More
  <2>2. ASSUME NEW t \in Asked  PROVE t \in found
    <3>1. PICK u \in found : ~ (t > u)
      BY <2>1
    <3>2. t \in Int /\ u \in Int
      BY <1>6, <1>7, PublishedTimes
    <3>3. t <= u
      BY <3>1, <3>2
    <3>4. QED  BY <1>7, <3>3
  <2>3. QED  BY <2>2
<1>9. QED
  BY <1>5, <1>6, <1>7, <1>8

\* A walk along a venue's tokens visits what the last token leaves.
LEMMA TokenPage ==
    ASSUME Timely, Way = "token", venue # "stuck", NEW found \in Served,
           NEW more \in More(found), NEW T, T \subseteq Published,
           cursor \in Int \cup {None},
           \A t \in T : Within(t, Low, High) /\ (cursor \in Int => t < cursor)
    PROVE  /\ found \subseteq Published
           /\ \A t \in T : \A u \in found : u <= t => t \in found
           /\ found = {} => T = {}
           /\ ~more => T \subseteq found
<1>1. Asked = {t \in Between(Published, Low, High) : cursor = None \/ t < cursor}
  BY DEF Asked
<1>2. Served = {Newest(k, Asked) : k \in Sizes}
  BY DEF Served
<1>3. PICK k \in Sizes : found = Newest(k, Asked)
  BY <1>2
<1>4. k \in Nat \ {0}
  BY SizesArePositive
<1>5. T \subseteq Asked
  BY <1>1 DEF Between, Timely
<1>6. Asked \subseteq 0 .. now /\ Asked \subseteq Published /\ now \in Nat
  BY <1>1, PublishedTimes DEF Between, Timely
<1>7. /\ found \subseteq Asked
      /\ \A t \in found : \A u \in Asked : t <= u => u \in found
      /\ Asked # {} => found # {}
  BY <1>3, <1>4, <1>6, NewestRows
<1>8. ASSUME ~more  PROVE Asked \subseteq found
  <2>1. ~ \E t \in Asked : \A u \in found : t < u
    BY <1>8 DEF More
  <2>2. ASSUME NEW t \in Asked  PROVE t \in found
    <3>1. PICK u \in found : ~ (t < u)
      BY <2>1
    <3>2. t \in Int /\ u \in Int
      BY <1>6, <1>7, PublishedTimes
    <3>3. u <= t
      BY <3>1, <3>2
    <3>4. QED  BY <1>7, <3>3
  <2>3. QED  BY <2>2
<1>9. QED
  BY <1>5, <1>6, <1>7, <1>8

-----------------------------------------------------------------------------
(* The range a walk begins with.                                           *)

\* The arguments of a fetch, and the clock.
Given == call \in Calls /\ now \in Times

LEMMA GivenTypes ==
    ASSUME Given
    PROVE  /\ WellFormed(Adapter)
           /\ Start \in Times \cup {None} /\ End \in Times \cup {None}
           /\ Start = None => End = None
           /\ End # None => Start \in Times /\ Start <= End
           /\ now \in Nat /\ now <= Horizon /\ Horizon \in Nat /\ Times \subseteq Nat
           /\ None \notin Int /\ Retention \in Nat \ {0}
<1>1. call.adapter \in DOMAIN Declared /\ call.range \in Ranges
  BY AdaptersAssumption DEF Given, Calls
<1>2. WellFormed(Adapter)
  BY <1>1, DeclaredWellFormed DEF Adapter
<1>3. call.range \in HistoryRange
  BY <1>1, InputAssumption
<1>4. Start \in Times \cup {None} /\ End \in Times \cup {None}
  BY <1>3 DEF HistoryRange, Start, End
<1>5. (Start = None => End = None) /\ (End # None => Start <= End)
  BY <1>1, InputAssumption DEF Start, End
<1>6. now \in Nat /\ now <= Horizon /\ Horizon \in Nat /\ Times \subseteq Nat
  BY BoundsAssumption DEF Given, Times
<1>7. QED
  BY <1>2, <1>4, <1>5, <1>6, InputAssumption, BoundsAssumption

\* What is chosen as the last of up to three numbers, or as the first of two.
LEMMA LastOfThree ==
    ASSUME NEW a \in Int, NEW b \in Int, NEW c \in Int
    PROVE  LET m == Last({a, b, c})
           IN  m \in {a, b, c} /\ a <= m /\ b <= m /\ c <= m
<1>1. \E t \in {a, b, c} : \A u \in {a, b, c} : u <= t
  <2>1. CASE a <= b
    BY <2>1
  <2>2. CASE b <= a
    BY <2>2
  <2>3. QED  BY <2>1, <2>2
<1>2. QED
  BY <1>1 DEF Last

LEMMA FirstOfTwo ==
    ASSUME NEW a \in Int, NEW b \in Int
    PROVE  LET m == First({a, b})  IN  m \in {a, b} /\ m <= a /\ m <= b
<1>1. \E t \in {a, b} : \A u \in {a, b} : t <= u
  OBVIOUS
<1>2. QED
  BY <1>1 DEF First

\* The range that is walked holds every complete bucket of the requested one that
\* the venue retains; where it has to have ends, it has them.
LEMMA RangeKept ==
    ASSUME Given
    PROVE  /\ ~NothingLeft => /\ OpeningTime \in Times \cup {None}
                             /\ ClosingTime \in Times \cup {None}
           /\ Adapter.clamp = "complete" \/ (Adapter.clamp = "now" /\ Start # None)
                => OpeningTime \in Int /\ ClosingTime \in Int
           /\ Start # None =>
                  \A t \in Between(Times, Start, End) :
                      now - Retention < t /\ t < now => Within(t, OpeningTime, ClosingTime)
<1> USE GivenTypes
<1> DEFINE opening == OpeningTime
           closing == ClosingTime
           limit   == LatestBucket
<1>1. limit \in Int /\ limit \in {now, now - 1} /\ (Adapter.clamp # "complete" => limit = now)
  BY DEF LatestBucket, LatestComplete
<1>2. /\ GivenEnd(limit) \in Int /\ GivenEnd(limit) <= Horizon
      /\ GivenEnd(limit) \in Times \/ GivenEnd(limit) = limit
      /\ \A t \in Nat : t < now /\ (End \in Int => t <= End) => t <= GivenEnd(limit)
  <2>1. CASE End = None \/ (End = 0 /\ Adapter.clamp # "complete")
    <3>1. GivenEnd(limit) = limit
      BY <2>1 DEF GivenEnd
    <3>2. \A t \in Nat : t < now => t <= limit
      BY <1>1
    <3>3. QED  BY <1>1, <3>1, <3>2
  <2>2. CASE ~(End = None \/ (End = 0 /\ Adapter.clamp # "complete"))
    <3>1. GivenEnd(limit) = End /\ End \in Times
      BY <2>2 DEF GivenEnd
    <3>2. QED  BY <3>1 DEF Times
  <2>3. QED  BY <2>1, <2>2
<1>3. CASE Start = None /\ Adapter.clamp # "complete"
  BY <1>3 DEF OpeningTime, ClosingTime
<1>4. CASE Start # None \/ Adapter.clamp = "complete"
  <2>1. CASE Adapter.clamp \in {"now", "complete"}
    <3>1. closing = First({GivenEnd(limit), limit})
      BY <1>4, <2>1 DEF ClosingTime
    <3>2. closing \in {GivenEnd(limit), limit} /\ closing <= GivenEnd(limit) /\ closing <= limit
      BY <1>1, <1>2, <3>1, FirstOfTwo
    <3>3. /\ closing \in Int /\ closing <= Horizon
          /\ \A t \in Nat : t < now /\ (End \in Int => t <= End) => t <= closing
      BY <1>1, <1>2, <3>2
    <3>4. CASE ~Adapter.retained
      <4>1. opening = Start /\ Adapter.clamp = "now"
        BY <1>4, <2>1, <3>4 DEF OpeningTime, WellFormed
      <4>2. closing \in Nat
        BY <1>1, <1>2, <3>2, <4>1
      <4>3. opening \in Times /\ closing \in Times
        BY <1>4, <3>3, <4>1, <4>2 DEF Times
      <4> HIDE DEF opening, closing
      <4>4. QED  BY <3>3, <4>1, <4>3 DEF Within, Between, opening, closing
    <3>5. CASE Adapter.retained
      <4> DEFINE available == limit - Retention + 1
                 begin     == IF Start = None THEN 0 ELSE Start
      <4>1. opening = Last({0, available, begin})
        <5>1. opening = Last({0, available} \cup ({Start} \ {None}))
          BY <1>4, <2>1, <3>5 DEF OpeningTime
        <5>2. {0, available} \cup ({Start} \ {None}) = {0, available, begin}
          OBVIOUS
        <5>3. QED  BY <5>1, <5>2
      <4>2. available \in Int /\ begin \in Int /\ begin \in Times
        BY <1>1 DEF Times
      <4> HIDE DEF available, begin, opening
      <4>3. /\ opening \in {0, available, begin}
            /\ 0 <= opening /\ available <= opening /\ begin <= opening
        BY <4>1, <4>2, LastOfThree
      <4>4. available <= now - Retention + 1 /\ available <= Horizon
        BY <1>1 DEF available
      <4>5. opening \in Int /\ 0 <= opening /\ opening <= Horizon
        BY <4>2, <4>3, <4>4 DEF Times
      <4>6. ASSUME ~NothingLeft  PROVE opening \in Times /\ closing \in Times
        <5>1. opening <= closing
          BY <2>1, <3>3, <4>5, <4>6 DEF NothingLeft, opening
        <5>2. QED  BY <3>3, <4>5, <5>1 DEF Times
      <4>7. ASSUME NEW t \in Between(Times, Start, End), now - Retention < t, t < now
            PROVE  Within(t, opening, closing)
        <5>1. t \in Nat /\ (Start \in Int => Start <= t) /\ (End \in Int => t <= End)
          BY <4>7 DEF Between, Within
        <5>2. begin <= t
          BY <5>1 DEF begin
        <5>3. available <= t
          BY <4>2, <4>4, <4>7, <5>1
        <5>4. opening <= t
          BY <4>3, <5>1, <5>2, <5>3
        <5>5. t <= closing
          BY <3>3, <4>7, <5>1
        <5> HIDE DEF closing
        <5>6. QED  BY <3>3, <4>5, <5>4, <5>5 DEF Within
      <4>8. QED  BY <3>3, <4>5, <4>6, <4>7 DEF opening
    <3>6. QED  BY <3>4, <3>5 DEF WellFormed
  <2>2. CASE Adapter.clamp \in {"open", "no"}
    <3>1. closing = IF Adapter.clamp = "open" THEN GivenEnd(now) ELSE End
      BY <1>4, <2>2 DEF ClosingTime
    <3>2. limit = now
      BY <1>1, <2>2
    <3>3. /\ closing \in Times \cup {None}
          /\ \A t \in Nat : t < now /\ (End \in Int => t <= End) =>
                 (closing \in Int => t <= closing)
      BY <1>2, <3>1, <3>2 DEF Times
    <3>4. CASE ~Adapter.retained
      <4>1. opening = Start /\ Start # None
        BY <1>4, <2>2, <3>4 DEF OpeningTime
      <4>2. ASSUME NEW t \in Between(Times, Start, End), now - Retention < t, t < now
            PROVE  Within(t, opening, closing)
        <5>1. t \in Nat /\ (Start \in Int => Start <= t) /\ (End \in Int => t <= End)
          BY <4>2 DEF Between, Within
        <5> HIDE DEF opening, closing
        <5>2. QED  BY <3>3, <4>1, <4>2, <5>1 DEF Within
      <4>3. QED  BY <2>2, <3>3, <4>1, <4>2
    <3>5. CASE Adapter.retained
      BY <2>2, <3>5 DEF WellFormed
    <3>6. QED  BY <3>4, <3>5 DEF WellFormed
  <2>3. QED  BY <2>1, <2>2 DEF WellFormed
<1>5. QED  BY <1>3, <1>4

-----------------------------------------------------------------------------
(* One page of a walk.                                                     *)

\* A row that requests from a cursor on will still ask for.
Ahead(way, c, t) ==
    CASE way = "backward" -> c \in Int => t <= c
      [] way = "forward"  -> c \in Int /\ c <= t
      [] OTHER            -> venue # "stuck" => (c \in Int => t < c)

\* What ends a walk fits the way it goes.
StopsFit ==
    /\ Way = "backward" => /\ "empty" \in Stops
                          /\ Stops \subseteq {"empty", "short", "start", "open", "unranged"}
    /\ Way = "forward" => \/ Stops = {"unranged", "empty", "end"}
                         \/ Stops = {"end", "last"}
    /\ Way = "token" => Stops = {"last"}
    /\ Start # None \/ Stops \cap {"unranged", "open"} = {}

\* The page that the code refuses: nothing, and more to come.
Refused(found, more) == Way = "forward" /\ "last" \in Stops /\ found = {} /\ more

LEMMA WalkPage ==
    ASSUME Timely, StopsFit, Way \in {"backward", "forward", "token"},
           NEW found \in Served, NEW more \in More(found),
           cursor \in Int \cup {None},
           NEW T, T \subseteq Published,
           \A t \in T : Within(t, Low, High) /\ Ahead(Way, cursor, t),
           Low \in Int \cup {None}, Way = "forward" => High \in Int,
           ~Refused(found, more)
    PROVE  /\ Ends(found, more) /\ ("short" \notin Stops \/ venue # "sparse") => T \subseteq found
           /\ ~Ends(found, more) => \A t \in T : t \in found \/ Ahead(Way, Advanced(found), t)
<1>1. \A t \in Published : t \in Nat
  BY PublishedTimes
<1>2. CASE Way = "backward"
  <2>1. \A t \in T : Within(t, Low, High) /\ (cursor \in Int => t <= cursor)
    BY <1>2 DEF Ahead
  <2>2. /\ found \subseteq Published
        /\ \A t \in T : \A u \in found : u <= t => t \in found
        /\ found = {} => T = {}
        /\ venue # "sparse" /\ Cardinality(found) < Limit => T \subseteq found
    BY <1>2, <2>1, BackwardPage
  <2>3. found # {} => /\ First(found) \in found /\ First(found) \in Nat
                      /\ \A u \in found : First(found) <= u
    <3>1. found \subseteq Nat
      BY <1>1, <2>2
    <3>2. QED  BY <3>1, FirstExists
  <2>4. ASSUME found # {}, Low # None, First(found) <= Low  PROVE T \subseteq found
    <3>1. ASSUME NEW t \in T  PROVE t \in found
      <4>1. Low <= t /\ Low \in Int /\ t \in Int
        BY <1>1, <2>1, <2>4 DEF Within
      <4>2. First(found) <= t
        BY <2>3, <2>4, <4>1
      <4>3. QED  BY <2>2, <2>3, <2>4, <4>2
    <3>2. QED  BY <3>1
  <2>5. ASSUME Ends(found, more), "short" \notin Stops \/ venue # "sparse"
        PROVE  T \subseteq found
    <3>1. \/ found = {}
          \/ "short" \in Stops /\ Cardinality(found) < Limit
          \/ found # {} /\ Low # None /\ First(found) <= Low
      BY <1>2, <2>5 DEF Ends, StopsFit, ReachedStart
    <3>2. QED  BY <2>2, <2>4, <2>5, <3>1
  <2>6. ASSUME ~Ends(found, more), NEW t \in T, t \notin found
        PROVE  Ahead(Way, Advanced(found), t)
    <3>1. found # {}
      BY <1>2, <2>6 DEF Ends, StopsFit
    <3>2. t < First(found)
      BY <1>1, <2>2, <2>3, <2>6, <3>1
    <3>3. Advanced(found) = First(found) - 1
      BY <1>2 DEF Advanced
    <3>4. t <= First(found) - 1
      BY <1>1, <2>3, <3>1, <3>2
    <3>5. QED  BY <1>2, <3>3, <3>4 DEF Ahead
  <2>7. QED  BY <2>5, <2>6
<1>3. CASE Way = "forward"
  <2>1. T # {} => cursor \in Int
    BY <1>3 DEF Ahead
  <2>2. CASE T = {}
    BY <2>2
  <2>3. CASE T # {}
    <3>1. \A t \in T : Within(t, Low, High) /\ cursor <= t
      BY <1>3 DEF Ahead
    <3>2. /\ found \subseteq Published
          /\ \A t \in T : \A u \in found : t <= u => t \in found
          /\ found = {} => T = {}
          /\ ~more => T \subseteq found
      BY <1>3, <2>1, <2>3, <3>1, ForwardPage
    <3>3. Last(found) \in found /\ Last(found) \in Nat /\ \A u \in found : u <= Last(found)
      <4>1. now \in Nat /\ found \subseteq 0 .. now
        BY <3>2, PublishedTimes DEF Timely
      <4>2. QED  BY <1>1, <2>3, <3>2, <4>1, LastExists
    <3>4. ASSUME Last(found) >= High  PROVE T \subseteq found
      <4>1. ASSUME NEW t \in T  PROVE t \in found
        <5>1. t <= High /\ High \in Int /\ t \in Int
          BY <1>1, <1>3, <3>1 DEF Within
        <5>2. t <= Last(found)
          BY <3>3, <3>4, <5>1
        <5>3. QED  BY <3>2, <3>3, <5>2
      <4>2. QED  BY <4>1
    <3>5. ASSUME Ends(found, more)  PROVE T \subseteq found
      <4>1. Last(found) >= High \/ ~more
        BY <1>3, <2>3, <3>2, <3>5 DEF Ends, StopsFit
      <4>2. QED  BY <3>2, <3>4, <4>1
    <3>6. ASSUME NEW t \in T, t \notin found  PROVE Ahead(Way, Advanced(found), t)
      <4>1. Last(found) < t
        BY <1>1, <3>2, <3>3, <3>6
      <4>2. Advanced(found) = Last(found) + 1
        BY <1>3 DEF Advanced
      <4>3. Last(found) + 1 \in Int /\ Last(found) + 1 <= t
        BY <1>1, <3>3, <4>1
      <4>4. QED  BY <1>3, <4>2, <4>3 DEF Ahead
    <3>7. QED  BY <3>5, <3>6
  <2>4. QED  BY <2>2, <2>3
<1>4. CASE Way = "token"
  <2>1. Stops = {"last"}
    BY <1>4 DEF StopsFit
  <2>2. Ends(found, more) <=> ~more
    BY <2>1 DEF Ends
  <2>3. CASE venue = "stuck"
    <3>1. more
      BY <2>3 DEF More
    <3>2. QED  BY <1>4, <2>2, <2>3, <3>1 DEF Ahead
  <2>4. CASE venue # "stuck"
    <3>1. \A t \in T : Within(t, Low, High) /\ (cursor \in Int => t < cursor)
      BY <1>4, <2>4 DEF Ahead
    <3>2. /\ found \subseteq Published
          /\ \A t \in T : \A u \in found : u <= t => t \in found
          /\ found = {} => T = {}
          /\ ~more => T \subseteq found
      BY <1>4, <2>4, <3>1, TokenPage
    <3>3. ASSUME NEW t \in T, t \notin found  PROVE Ahead(Way, Advanced(found), t)
      <4>1. found \cup {Horizon} \subseteq Nat /\ found \cup {Horizon} # {}
        BY <1>1, <3>2, BoundsAssumption
      <4> DEFINE f == First(found \cup {Horizon})
      <4>2. f \in found \cup {Horizon} /\ \A u \in found \cup {Horizon} : f <= u
        BY <4>1, FirstExists
      <4>3. Advanced(found) = f
        BY <1>4 DEF Advanced
      <4> HIDE DEF f
      <4>4. t < f
        <5>1. PICK u \in found : TRUE
          BY <3>2, <3>3
        <5>2. t \in Nat /\ t <= Horizon /\ \A v \in found : v \in Nat /\ v <= Horizon
          BY <3>2, PublishedTimes, BoundsAssumption DEF Timely, Times
        <5>3. \A v \in found : t < v
          BY <3>2, <3>3, <5>2
        <5>4. t < Horizon
          BY <5>1, <5>2, <5>3, BoundsAssumption
        <5>5. QED  BY <4>2, <5>3, <5>4
      <4>5. QED  BY <1>4, <4>3, <4>4 DEF Ahead
    <3>4. QED  BY <2>2, <3>2, <3>3
  <2>5. QED  BY <2>3, <2>4
<1>5. QED
  BY <1>2, <1>3, <1>4

-----------------------------------------------------------------------------
(* The inductive invariant: what holds while a fetch awaits something.     *)

\* Before the walk, nothing is known and nothing collected.
Fresh ==
    /\ ~current /\ from = None /\ until = None /\ page = 1 /\ cursor = None
    /\ seen = {} /\ rows = {} /\ marks = {} /\ points = {} /\ issue = None
    /\ began = None

\* During it, the range covers what was promised when it began.
Covered == Start # None => \A t \in Promised(known) : Within(t, from, until)

Walking ==
    /\ current /\ call.history /\ OffersHistory /\ Adapter.walk # "none"
    /\ points = {} /\ issue = None
    /\ began \in Times /\ began <= now
    /\ Adapter.clamp = "complete" \/ (Adapter.clamp = "now" /\ Start # None)
           => from \in Int /\ until \in Int
    /\ Adapter.clamp = "complete" => \A t \in rows : Within(t, from, until)
    /\ Covered

\* A promised row that was not collected is ahead of the walk.
RowsAhead ==
    /\ marks = {}
    /\ Paged /\ Start # None =>
           \A t \in Promised(known) : t \in rows \/ Ahead(Adapter.walk, cursor, t)

\* So is a published mark of a row, once all rows are collected.
MarksAhead ==
    /\ Adapter.marks # "no"
    /\ Adapter.marks = "backward" => rows # {}
    /\ Paged /\ Start # None /\ FillsPages => Promised(known) \subseteq rows
    /\ \A t \in rows \cap priced : t \in marks \/ Ahead(Adapter.marks, cursor, t)

WalkInv ==
    /\ TypeOK
    /\ stage # "idle" => outcome = None
    /\ stage \in {"idle", "current", "mark"} /\ outcome = None => Fresh
    /\ stage \in {"interest", "marks"} => Walking
    /\ stage = "interest" => RowsAhead
    /\ stage = "marks" => MarksAhead
    /\ HistoryComplete /\ MarksJoined

-----------------------------------------------------------------------------
(* Initial states, and the steps that end a fetch or move the clock.       *)

LEMMA StartsFresh == Init => WalkInv
<1> SUFFICES ASSUME Init  PROVE WalkInv
  OBVIOUS
<1>1. now \in Times /\ interest \subseteq 0 .. now /\ candles \subseteq 0 .. now
  BY BoundsAssumption DEF Init, Times
<1>2. TypeOK
  <2>1. /\ call \in Calls /\ venue \in Venues /\ stage = "idle" /\ current = FALSE
        /\ from = None /\ until = None /\ page = 1 /\ cursor = None /\ seen = {}
        /\ rows = {} /\ marks = {} /\ points = {} /\ issue = None /\ outcome = None
        /\ began = None /\ known = {} /\ priced = {}
    BY DEF Init
  <2>2. page \in 1 .. MaxPages
    BY <2>1, BoundsAssumption
  <2>3. QED  BY <1>1, <2>1, <2>2 DEF TypeOK
<1>3. Fresh
  BY DEF Init, Fresh
<1>4. stage = "idle" /\ outcome = None
  BY DEF Init
<1>5. HistoryComplete /\ MarksJoined
  BY <1>4, InputAssumption DEF HistoryComplete, Ranged, MarksJoined
<1>6. QED
  BY <1>2, <1>3, <1>4, <1>5 DEF WalkInv

\* What a step that ends the fetch has to show.
Settled ==
    /\ stage = "idle" /\ outcome \in {"result", "error", "cancelled"}
    /\ current \in BOOLEAN /\ page = 1 /\ cursor = None /\ seen = {}
    /\ from = None /\ until = None
    /\ rows \subseteq interest /\ marks \subseteq candles /\ points \subseteq rows
    /\ issue \in {None, "history_unavailable", "history_partial"}
    /\ priced \subseteq candles
    /\ HistoryComplete /\ MarksJoined

LEMMA SettledKeeps ==
    ASSUME WalkInv, Settled', UNCHANGED <<call, venue, worldVars, began, known>>
    PROVE  WalkInv'
<1>1. TypeOK'
  BY BoundsAssumption DEF WalkInv, TypeOK, Settled, worldVars, Times
<1>2. outcome' # None /\ stage' = "idle"
  BY InputAssumption DEF Settled
<1>3. QED
  BY <1>1, <1>2 DEF WalkInv, Settled

\* The arguments of the fetch do not change, nor what depends on them alone.
LEMMA SameFetch ==
    ASSUME UNCHANGED <<call, venue>>
    PROVE  /\ Adapter' = Adapter /\ Start' = Start /\ End' = End
           /\ (Paged <=> Paged') /\ (FillsPages <=> FillsPages')
           /\ (OffersHistory <=> OffersHistory')
  BY DEF Adapter, Start, End, Paged, FillsPages, OffersHistory

\* Time passes; the venue only adds to what it has published.
LEMMA TickKeeps == WalkInv /\ Tick => WalkInv'
<1> SUFFICES ASSUME WalkInv, Tick  PROVE WalkInv'
  OBVIOUS
<1>1. /\ UNCHANGED <<call, venue, stage, current, from, until, page, cursor, seen>>
      /\ UNCHANGED <<rows, marks, points, issue, outcome, began, known, priced>>
      /\ now' = now + 1 /\ now < Horizon
      /\ interest \subseteq interest' /\ candles \subseteq candles'
  BY DEF Tick, fetchVars, walkVars, ghostVars
<1>2. /\ Adapter' = Adapter /\ Start' = Start /\ End' = End
      /\ (Paged <=> Paged') /\ (FillsPages <=> FillsPages')
      /\ (OffersHistory <=> OffersHistory')
  BY <1>1, SameFetch
<1>3. now \in Nat /\ now' \in Times /\ now \in Times
  BY <1>1, BoundsAssumption DEF WalkInv, TypeOK, Times
<1>4. interest' \subseteq 0 .. now' /\ candles' \subseteq 0 .. now'
  <2>1. interest \subseteq 0 .. now' /\ candles \subseteq 0 .. now'
    BY <1>1, <1>3 DEF WalkInv, TypeOK
  <2>2. interest' \subseteq interest \cup {now, now + 1}
    BY DEF Tick
  <2>3. candles' \subseteq candles \cup {now, now + 1}
    BY DEF Tick
  <2>4. {now, now + 1} \subseteq 0 .. now'
    BY <1>1, <1>3
  <2>5. QED  BY <2>1, <2>2, <2>3, <2>4
<1>5. TypeOK'
  BY <1>1, <1>3, <1>4 DEF WalkInv, TypeOK
<1>6. Fresh => Fresh'
  BY <1>1 DEF Fresh
<1>7. Promised(known)' = Promised(known)
  BY <1>1, <1>2 DEF Promised
<1>8. Walking => Walking'
  <2>1. began \in Times /\ began <= now => began <= now'
    BY <1>1, <1>3, BoundsAssumption DEF Times
  <2>2. QED  BY <1>1, <1>2, <1>7, <2>1 DEF Walking, Covered
<1>9. RowsAhead => RowsAhead'
  BY <1>1, <1>2, <1>7 DEF RowsAhead, Ahead
<1>10. MarksAhead => MarksAhead'
  BY <1>1, <1>2, <1>7 DEF MarksAhead, Ahead
<1>11. HistoryComplete'
  BY <1>1, <1>2, <1>7 DEF WalkInv, HistoryComplete, Ranged
<1>12. MarksJoined'
  BY <1>1, <1>2 DEF WalkInv, MarksJoined
<1>13. QED
  BY <1>1, <1>5, <1>6, <1>8, <1>9, <1>10, <1>11, <1>12 DEF WalkInv

\* A fetch that ends without rows has nothing to show but how it ended.
LEMMA EndsWithoutRows ==
    ASSUME WalkInv, UNCHANGED <<call, venue, worldVars, ghostVars>>,
           NEW o \in {"result", "error", "cancelled"}, NEW c \in BOOLEAN,
           NEW i \in {None, "history_unavailable"}, Done(o, c, {}, {}, {}, i),
           \/ o # "result" \/ i = "history_unavailable" \/ began = None
           \/ ~(call.history /\ OffersHistory)
    PROVE  WalkInv'
<1>1. /\ stage' = "idle" /\ outcome' = o /\ current' = c /\ issue' = i
      /\ rows' = {} /\ marks' = {} /\ points' = {}
      /\ page' = 1 /\ cursor' = None /\ seen' = {} /\ from' = None /\ until' = None
  BY DEF Done
<1>2. /\ UNCHANGED <<call, venue, now, interest, candles, began, known, priced>>
      /\ UNCHANGED <<call, venue>>
  BY DEF worldVars, ghostVars
<1>3. OffersHistory <=> OffersHistory'
  BY <1>2, SameFetch
<1>4. HistoryComplete'
  BY <1>1, <1>2, <1>3, InputAssumption DEF HistoryComplete, Ranged
<1>5. MarksJoined'
  BY <1>1, InputAssumption DEF MarksJoined
<1>6. priced' \subseteq candles'
  BY <1>2 DEF WalkInv, TypeOK
<1>7. Settled'
  BY <1>1, <1>4, <1>5, <1>6 DEF Settled
<1>8. QED
  BY <1>2, <1>7, SettledKeeps

LEMMA CancelKeeps == WalkInv /\ Cancel => WalkInv'
<1> SUFFICES ASSUME WalkInv, Cancel  PROVE WalkInv'
  OBVIOUS
<1>1. UNCHANGED <<call, venue, worldVars, ghostVars>>
  BY DEF Cancel
<1>2. Done("cancelled", FALSE, {}, {}, {}, None)
  BY DEF Cancel
<1>3. QED
  BY <1>1, <1>2, EndsWithoutRows

LEMMA ErrorKeeps ==
    WalkInv /\ Error /\ UNCHANGED <<call, venue, worldVars, ghostVars>> => WalkInv'
  BY EndsWithoutRows DEF Error

LEMMA FailureKeeps ==
    WalkInv /\ HistoryFailed /\ UNCHANGED <<call, venue, worldVars, ghostVars>> => WalkInv'
<1> SUFFICES ASSUME WalkInv, HistoryFailed, UNCHANGED <<call, venue, worldVars, ghostVars>>
             PROVE  WalkInv'
  OBVIOUS
<1>1. CASE KeepsCurrent
  <2>1. Done("result", TRUE, {}, {}, {}, "history_unavailable")
    BY <1>1 DEF HistoryFailed, Result
  <2>2. QED  BY <2>1, EndsWithoutRows
<1>2. CASE ~KeepsCurrent
  BY <1>2, ErrorKeeps DEF HistoryFailed
<1>3. QED  BY <1>1, <1>2

-----------------------------------------------------------------------------
(* The call and the current value.                                         *)

LEMMA WaitsForCurrent ==
    ASSUME WalkInv, stage \in {"idle", "current"}, outcome = None,
           stage' \in {"current", "mark"},
           UNCHANGED <<call, venue, worldVars, current, walkVars, points, issue,
                       outcome, ghostVars>>
    PROVE  WalkInv'
<1>1. /\ UNCHANGED <<call, venue, now, interest, candles, current, from, until, page, cursor>>
      /\ UNCHANGED <<seen, rows, marks, points, issue, outcome, began, known, priced>>
  BY DEF worldVars, walkVars, ghostVars
<1>2. TypeOK'
  BY <1>1 DEF WalkInv, TypeOK
<1>3. Fresh'
  BY <1>1 DEF WalkInv, Fresh
<1>4. HistoryComplete' /\ MarksJoined'
  BY <1>1, InputAssumption DEF HistoryComplete, Ranged, MarksJoined
<1>5. QED
  BY <1>1, <1>2, <1>3, <1>4 DEF WalkInv

LEMMA CallKeeps == WalkInv /\ Call => WalkInv'
<1> SUFFICES ASSUME WalkInv, Call  PROVE WalkInv'
  OBVIOUS
<1>1. UNCHANGED <<call, venue, worldVars, ghostVars>>
  BY DEF Call
<1>2. CASE Error
  BY <1>1, <1>2, ErrorKeeps
<1>3. CASE ~Error
  <2>1. /\ stage = "idle" /\ stage' = "current" /\ outcome = None
        /\ UNCHANGED <<current, walkVars, points, issue, outcome>>
    BY <1>3 DEF Call
  <2>2. QED  BY <1>1, <2>1, WaitsForCurrent
<1>4. QED  BY <1>2, <1>3

LEMMA UnvaluedKeeps == WalkInv /\ CurrentUnvalued => WalkInv'
<1> SUFFICES ASSUME WalkInv, CurrentUnvalued  PROVE WalkInv'
  OBVIOUS
<1>1. outcome = None /\ stage = "current" /\ stage' = "mark"
  BY DEF CurrentUnvalued, WalkInv
<1>2. UNCHANGED <<call, venue, worldVars, current, walkVars, points, issue,
                  outcome, ghostVars>>
  BY DEF CurrentUnvalued
<1>3. QED
  BY <1>1, <1>2, WaitsForCurrent

LEMMA CurrentFailsKeeps == WalkInv /\ CurrentFails => WalkInv'
  BY ErrorKeeps DEF CurrentFails

\* The walk begins with every promised bucket ahead of it.
LEMMA BeginKeeps ==
    ASSUME WalkInv, Fresh, outcome = None, call.history, OffersHistory, ~NothingLeft,
           BeginWalk, UNCHANGED <<call, venue, worldVars>>
    PROVE  WalkInv'
<1>1. /\ stage' = "interest" /\ current' = TRUE
      /\ from' = OpeningTime /\ until' = ClosingTime
      /\ cursor' = IF Adapter.walk = "forward" THEN OpeningTime
                   ELSE IF Adapter.walk = "backward" THEN ClosingTime ELSE None
      /\ began' = now /\ known' = interest
      /\ UNCHANGED <<page, seen, rows, marks, points, issue, outcome, priced>>
  BY DEF BeginWalk
<1>2. UNCHANGED <<call, venue, now, interest, candles>>
  BY DEF worldVars
<1>3. /\ Adapter' = Adapter /\ Start' = Start /\ End' = End
      /\ (Paged <=> Paged') /\ (OffersHistory <=> OffersHistory')
  BY <1>2, SameFetch
<1>4. Given /\ now \in Times /\ interest \subseteq 0 .. now
  BY DEF WalkInv, TypeOK, Given
<1>5. /\ OpeningTime \in Times \cup {None} /\ ClosingTime \in Times \cup {None}
      /\ Adapter.clamp = "complete" \/ (Adapter.clamp = "now" /\ Start # None)
           => OpeningTime \in Int /\ ClosingTime \in Int
      /\ Start # None =>
             \A t \in Between(Times, Start, End) :
                 now - Retention < t /\ t < now => Within(t, OpeningTime, ClosingTime)
  BY <1>4, RangeKept
<1>6. /\ WellFormed(Adapter) /\ now \in Nat /\ now <= Horizon /\ Horizon \in Nat
      /\ None \notin Int /\ Times \subseteq Nat
  BY <1>4, GivenTypes
<1> DEFINE promised == {t \in Between(interest, Start, End) : now - Retention < t /\ t < now}
<1>7. Promised(known)' = promised
  BY <1>1, <1>3 DEF Promised
<1>8. Start # None => \A t \in promised : t \in Nat /\ Within(t, OpeningTime, ClosingTime)
  <2>1. interest \subseteq Times
    BY <1>4, <1>6 DEF Times
  <2>2. \A t \in promised : t \in Between(Times, Start, End)
    BY <2>1 DEF Between
  <2>3. QED  BY <1>5, <1>6, <2>1, <2>2 DEF Between
<1>9. cursor' \in Times \cup {None}
  BY <1>1, <1>5
<1>10. TypeOK'
  <2>1. cursor' \in -1 .. Horizon + 1 \cup {None}
    BY <1>6, <1>9 DEF Times
  <2>2. stage' \in {"idle", "current", "mark", "interest", "marks"} /\ current' \in BOOLEAN
    BY <1>1
  <2>3. began' \in Times \cup {None} /\ known' \subseteq interest' /\ priced' \subseteq candles'
    BY <1>1, <1>2, <1>4 DEF WalkInv, TypeOK
  <2>4. from' \in Times \cup {None} /\ until' \in Times \cup {None}
    BY <1>1, <1>5
  <2>5. QED  BY <1>1, <1>2, <2>1, <2>2, <2>3, <2>4 DEF WalkInv, TypeOK
<1> HIDE DEF promised
<1>11. Walking'
  <2>1. Adapter.walk # "none"
    <3>1. CASE call.adapter = "gate"
      <4>1. Declared["gate"] = Gate
        BY DEF Declared
      <4>2. QED  BY <3>1, <4>1 DEF Adapter, Gate, Snapshot
    <3>2. CASE call.adapter # "gate"
      BY <3>2 DEF OffersHistory
    <3>3. QED  BY <3>1, <3>2
  <2>2. rows' = {} /\ points' = {} /\ issue' = None
    BY <1>1 DEF Fresh
  <2>3. began' \in Times /\ began' <= now'
    BY <1>1, <1>2, <1>4, <1>6
  <2>4. Covered'
    BY <1>1, <1>3, <1>7, <1>8 DEF Covered
  <2>5. QED  BY <1>1, <1>2, <1>3, <1>5, <2>1, <2>2, <2>3, <2>4 DEF Walking
<1>12. RowsAhead'
  <2>1. marks' = {}
    BY <1>1 DEF Fresh
  <2>2. ASSUME Paged, Start # None, NEW t \in promised
        PROVE  Ahead(Adapter.walk, cursor, t)'
    <3>1. t \in Nat /\ Within(t, OpeningTime, ClosingTime)
      BY <1>8, <2>2
    <3>2. CASE Adapter.walk = "forward"
      <4>1. Adapter.clamp \in {"now", "complete"}
        BY <1>6, <3>2 DEF WellFormed
      <4>2. cursor' \in Int /\ cursor' <= t
        BY <1>1, <1>5, <2>2, <3>1, <3>2, <4>1 DEF Within
      <4>3. QED  BY <1>3, <3>2, <4>2 DEF Ahead
    <3>3. CASE Adapter.walk = "backward"
      <4>1. cursor' \in Int => t <= cursor'
        BY <1>1, <3>1, <3>3 DEF Within
      <4>2. QED  BY <1>3, <3>3, <4>1 DEF Ahead
    <3>4. CASE Adapter.walk = "token"
      <4>1. cursor' \notin Int
        BY <1>1, <1>6, <3>4
      <4>2. QED  BY <1>3, <3>4, <4>1 DEF Ahead
    <3>5. QED  BY <2>2, <3>2, <3>3, <3>4 DEF Paged
  <2>3. QED  BY <1>3, <1>7, <2>1, <2>2 DEF RowsAhead
<1>13. outcome' = None
  BY <1>1
<1>14. HistoryComplete' /\ MarksJoined'
  BY <1>13, InputAssumption DEF HistoryComplete, Ranged, MarksJoined
<1>15. QED
  BY <1>1, <1>10, <1>11, <1>12, <1>13, <1>14 DEF WalkInv

LEMMA CurrentArrivesKeeps == WalkInv /\ CurrentArrives => WalkInv'
<1> SUFFICES ASSUME WalkInv, CurrentArrives  PROVE WalkInv'
  OBVIOUS
<1>1. UNCHANGED <<call, venue, worldVars>>
  BY DEF CurrentArrives
<1>2. outcome = None /\ Fresh /\ began = None
  BY DEF CurrentArrives, WalkInv, Fresh
<1>3. CASE Error /\ UNCHANGED ghostVars
  BY <1>1, <1>3, ErrorKeeps
<1>4. CASE WithCurrent
  <2>1. CASE call.history /\ OffersHistory
    <3>1. BeginWalk
      BY <1>4, <2>1 DEF WithCurrent
    <3>2. CASE NothingLeft
      <4>1. Done("result", TRUE, {}, {}, {}, None) /\ UNCHANGED ghostVars
        BY <3>1, <3>2 DEF BeginWalk, Result
      <4>2. QED  BY <1>1, <1>2, <4>1, EndsWithoutRows
    <3>3. CASE ~NothingLeft
      BY <1>1, <1>2, <2>1, <3>1, <3>3, BeginKeeps
    <3>4. QED  BY <3>2, <3>3
  <2>2. CASE ~(call.history /\ OffersHistory)
    <3>1. PICK i \in {None, "history_unavailable"} : Done("result", TRUE, {}, {}, {}, i)
      BY <1>4, <2>2 DEF WithCurrent, Result
    <3>2. UNCHANGED ghostVars
      BY <1>4, <2>2 DEF WithCurrent
    <3>3. QED  BY <1>1, <2>2, <3>1, <3>2, EndsWithoutRows
  <2>3. QED  BY <2>1, <2>2
<1>5. QED
  BY <1>3, <1>4 DEF CurrentArrives

-----------------------------------------------------------------------------
(* Pages.                                                                  *)

Awaiting == WalkInv /\ stage \in {"interest", "marks"}

\* How a walk is addressed.
LEMMA Addressed ==
    ASSUME Awaiting
    PROVE  /\ Timely /\ WellFormed(Adapter) /\ Walking /\ outcome = None
           /\ now \in Nat /\ now <= Horizon /\ Horizon \in Nat /\ Times \subseteq Nat
           /\ rows \subseteq 0 .. now /\ rows \subseteq Nat
           /\ cursor \in Int \cup {None} /\ Low \in Int \cup {None}
           /\ Way \in {"page", "since", "backward", "forward", "token"}
           /\ Valuing => Way \in {"backward", "forward"}
           /\ Valuing \/ Start # None => (Way = "forward" => High \in Int) /\ StopsFit
           /\ Way = "backward" => "empty" \in Stops
           /\ Way = "forward" => "empty" \in Stops \/ "last" \in Stops
           /\ Way \in {"page", "since"} => "once" \in Stops
<1>1. TypeOK /\ Walking /\ outcome = None
  BY DEF Awaiting, WalkInv
<1>2. call \in Calls /\ now \in Times /\ Given
  BY <1>1 DEF TypeOK, Given
<1>3. /\ WellFormed(Adapter) /\ now \in Nat /\ now <= Horizon /\ Horizon \in Nat
      /\ Times \subseteq Nat /\ None \notin Int
  BY <1>2, GivenTypes
<1>4. Timely
  BY <1>1, <1>2, <1>3, BoundsAssumption DEF TypeOK, Timely, Published
<1>5. rows \subseteq 0 .. now /\ rows \subseteq Nat
  <2>1. 0 .. now \subseteq Nat
    BY <1>3
  <2>2. QED  BY <1>1, <2>1 DEF TypeOK
<1>6. cursor \in Int \cup {None} /\ from \in Int \cup {None}
  BY <1>1, <1>3 DEF TypeOK
<1>7. CASE Valuing
  <2>1. MarksAhead
    BY <1>7 DEF Awaiting, WalkInv, Valuing
  <2>2. Way = Adapter.marks /\ Way \in {"backward", "forward"}
    BY <1>3, <1>7, <2>1 DEF Way, MarksAhead, WellFormed
  <2>3. CASE Way = "backward"
    <3>1. rows # {} /\ Low = First(rows)
      BY <1>7, <2>1, <2>2, <2>3 DEF MarksAhead, Low, MarkFrom
    <3>2. Low \in Nat
      BY <1>5, <3>1, FirstExists
    <3>3. Stops = {"empty", "short", "start"}
      BY <1>7, <2>3 DEF Stops
    <3>4. StopsFit
      BY <2>3, <3>3 DEF StopsFit
    <3>5. QED  BY <1>1, <1>3, <1>4, <1>5, <1>6, <2>2, <2>3, <3>2, <3>3, <3>4
  <2>4. CASE Way = "forward"
    <3>1. Low = from /\ High = until
      BY <1>7, <2>2, <2>4 DEF Low, High, MarkFrom, MarkUntil
    <3>2. Adapter.clamp = "complete"
      BY <1>3, <2>2, <2>4 DEF WellFormed
    <3>3. from \in Int /\ until \in Int
      BY <1>1, <3>2 DEF Walking
    <3>4. Stops = {"end", "last"}
      BY <1>7, <2>4 DEF Stops
    <3>5. StopsFit
      BY <2>4, <3>4 DEF StopsFit
    <3>6. QED  BY <1>1, <1>3, <1>4, <1>5, <1>6, <2>2, <2>4, <3>1, <3>3, <3>4, <3>5
  <2>5. QED  BY <2>2, <2>3, <2>4
<1>8. CASE ~Valuing
  <2>1. Way = Adapter.walk /\ Low = from /\ High = until /\ Stops = Adapter.stops
    BY <1>8 DEF Way, Low, High, Stops
  <2>2. Way \in {"page", "since", "backward", "forward", "token"}
    BY <1>1, <1>3, <2>1 DEF Walking, WellFormed
  <2>3. /\ Way = "backward" => "empty" \in Stops
        /\ Way = "forward" => "empty" \in Stops \/ "last" \in Stops
        /\ Way \in {"page", "since"} => "once" \in Stops
    BY <1>3, <2>1 DEF WellFormed
  <2>4. ASSUME Start # None  PROVE (Way = "forward" => High \in Int) /\ StopsFit
    <3>1. Way = "forward" => Adapter.clamp \in {"now", "complete"}
      BY <1>3, <2>1 DEF WellFormed
    <3>2. Way = "forward" => High \in Int
      BY <1>1, <2>1, <2>4, <3>1 DEF Walking
    <3>3. StopsFit
      BY <1>3, <2>1, <2>4 DEF WellFormed, StopsFit
    <3>4. QED  BY <3>2, <3>3
  <2>5. QED  BY <1>1, <1>3, <1>4, <1>5, <1>6, <1>8, <2>1, <2>2, <2>3, <2>4
<1>9. QED  BY <1>7, <1>8

\* A page holds published rows only, wherever the venue takes it from.
LEMMA PageIsPublished ==
    ASSUME Awaiting, NEW found \in Served  PROVE found \subseteq Published
<1>1. Asked \subseteq Published
  BY DEF Asked, Between
<1>2. Way = "token" => Published = interest
  BY Addressed DEF Published
<1>3. \A n, S : Newest(n, S) \subseteq S /\ Oldest(n, S) \subseteq S
  BY DEF Newest, Oldest
<1>4. \A n : Newest(n, Asked) \subseteq Published /\ Oldest(n, Asked) \subseteq Published
  BY <1>1, <1>3
<1>5. CASE Way = "forward" /\ cursor # None
  <2>1. Served = {Oldest(k, Asked) : k \in Sizes}
    BY <1>5 DEF Served
  <2>2. QED  BY <1>4, <2>1
<1>6. CASE Way = "token" /\ venue = "stuck"
  <2>1. Served = {Newest(Limit, Between(interest, from, t)) : t \in Times}
    BY <1>6 DEF Served
  <2>2. PICK t \in Times : found = Newest(Limit, Between(interest, from, t))
    BY <2>1
  <2>3. Between(interest, from, t) \subseteq Published
    BY <1>2, <1>6 DEF Between
  <2>4. QED  BY <1>3, <2>2, <2>3
<1>7. CASE Way \in {"page", "since"}
  <2>1. Served = {Newest(Limit, Asked), Oldest(Limit, Asked)}
    BY <1>7 DEF Served
  <2>2. QED  BY <1>4, <2>1
<1>8. CASE ~(Way = "forward" /\ cursor # None) /\ ~(Way = "token" /\ venue = "stuck")
           /\ Way \notin {"page", "since"}
  <2>1. Served = {Newest(k, Asked) : k \in Sizes}
    BY <1>8 DEF Served
  <2>2. QED  BY <1>4, <2>1
<1>9. QED
  BY <1>5, <1>6, <1>7, <1>8

\* A walk that goes on has a cursor for it.
LEMMA GoesOn ==
    ASSUME Awaiting, NEW found \in Served, NEW more \in More(found),
           ~Refused(found, more), ~Ends(found, more)
    PROVE  /\ Way \in {"backward", "forward", "token"}
           /\ Advanced(found) \in -1 .. Horizon + 1
           /\ Way = "token" => Advanced(found) \in Times
<1>1. /\ Timely /\ now \in Nat /\ now <= Horizon /\ Horizon \in Nat
      /\ Way \in {"page", "since", "backward", "forward", "token"}
      /\ Way = "backward" => "empty" \in Stops
      /\ Way = "forward" => "empty" \in Stops \/ "last" \in Stops
      /\ Way \in {"page", "since"} => "once" \in Stops
  BY Addressed
<1>2. Way \in {"backward", "forward", "token"}
  BY <1>1 DEF Ends
<1>3. Way \in {"backward", "forward"} => found # {}
  BY <1>1 DEF Ends, Refused
<1>4. found \subseteq 0 .. now /\ found \subseteq Nat
  <2>1. found \subseteq 0 .. now
    BY <1>1, PageIsPublished DEF Timely
  <2>2. 0 .. now \subseteq Nat
    BY <1>1
  <2>3. QED  BY <2>1, <2>2
<1>5. CASE Way = "backward"
  <2>1. First(found) \in found
    BY <1>3, <1>4, <1>5, FirstExists
  <2>2. First(found) \in 0 .. now
    BY <1>4, <2>1
  <2>3. Advanced(found) = First(found) - 1
    BY <1>5 DEF Advanced
  <2>4. QED  BY <1>1, <1>2, <1>5, <2>2, <2>3
<1>6. CASE Way = "forward"
  <2>1. Last(found) \in found
    BY <1>1, <1>3, <1>4, <1>6, LastExists
  <2>2. Last(found) \in 0 .. now
    BY <1>4, <2>1
  <2>3. Advanced(found) = Last(found) + 1
    BY <1>6 DEF Advanced
  <2>4. QED  BY <1>1, <1>2, <1>6, <2>2, <2>3
<1>7. CASE Way = "token"
  <2>1. First(found \cup {Horizon}) \in found \cup {Horizon}
    <3>1. found \cup {Horizon} \subseteq Nat /\ found \cup {Horizon} # {}
      BY <1>1, <1>4
    <3>2. QED  BY <3>1, FirstExists
  <2>2. Advanced(found) = First(found \cup {Horizon})
    BY <1>7 DEF Advanced
  <2>3. found \cup {Horizon} \subseteq Times
    BY <1>1, <1>4 DEF Times
  <2>4. Advanced(found) \in Times
    BY <2>1, <2>2, <2>3
  <2>5. QED  BY <1>1, <1>2, <2>4 DEF Times
<1>8. QED  BY <1>2, <1>5, <1>6, <1>7

-----------------------------------------------------------------------------
(* What a page of the walk over the open interest leaves to do.            *)

\* The last page completes what was promised; any other page leaves the rest ahead.
LEMMA RowsOfPage ==
    ASSUME Awaiting, ~Valuing, NEW found \in Served, NEW more \in More(found),
           ~Refused(found, more)
    PROVE  LET all == rows \cup Kept(found)
           IN  /\ all \subseteq interest
               /\ Adapter.clamp = "complete" => \A t \in all : Within(t, from, until)
               /\ Paged /\ Start # None =>
                      /\ Ends(found, more) /\ FillsPages => Promised(known) \subseteq all
                      /\ ~Ends(found, more) =>
                             \A t \in Promised(known) :
                                 t \in all \/ Ahead(Adapter.walk, Advanced(found), t)
<1> DEFINE all == rows \cup Kept(found)
<1>1. /\ Timely /\ Walking /\ RowsAhead /\ rows \subseteq interest /\ known \subseteq interest
      /\ Published = interest /\ Way = Adapter.walk /\ Low = from /\ High = until
      /\ Stops = Adapter.stops
  BY Addressed DEF Awaiting, Valuing, WalkInv, TypeOK, Published, Way, Low, High, Stops
<1>2. found \subseteq interest
  BY <1>1, PageIsPublished
<1>3. Kept(found) = IF Adapter.clamp \in {"now", "complete"} THEN Between(found, from, until)
                    ELSE Between(found, Start, End)
  BY DEF Kept
<1>4. all \subseteq interest
  BY <1>1, <1>2, <1>3 DEF Between
<1>5. ASSUME Adapter.clamp = "complete"  PROVE \A t \in all : Within(t, from, until)
  <2>1. \A t \in rows : Within(t, from, until)
    BY <1>1, <1>5 DEF Walking
  <2>2. Kept(found) = Between(found, from, until)
    BY <1>3, <1>5
  <2>3. QED  BY <2>1, <2>2 DEF Between
<1>6. ASSUME Paged, Start # None
      PROVE  /\ Ends(found, more) /\ FillsPages => Promised(known) \subseteq all
             /\ ~Ends(found, more) =>
                    \A t \in Promised(known) :
                        t \in all \/ Ahead(Adapter.walk, Advanced(found), t)
  <2>1. \A t \in Promised(known) : Within(t, from, until) /\ Within(t, Start, End) /\ t \in known
    BY <1>1, <1>6 DEF Walking, Covered, Promised, Between
  <2>2. \A t \in Promised(known) : t \in found => t \in all
    BY <1>3, <2>1 DEF Between
  <2>3. PICK T : T = {t \in Promised(known) : t \notin rows}
    OBVIOUS
  <2>4. T \subseteq Published
    BY <1>1, <2>1, <2>3
  <2>5. \A t \in T : Within(t, Low, High) /\ Ahead(Way, cursor, t)
    BY <1>1, <1>6, <2>1, <2>3 DEF RowsAhead
  <2>6. /\ StopsFit /\ Way \in {"backward", "forward", "token"}
        /\ cursor \in Int \cup {None} /\ Low \in Int \cup {None}
        /\ Way = "forward" => High \in Int
    BY <1>1, <1>6, Addressed DEF Paged
  <2>7. /\ Ends(found, more) /\ ("short" \notin Stops \/ venue # "sparse") => T \subseteq found
        /\ ~Ends(found, more) => \A t \in T : t \in found \/ Ahead(Way, Advanced(found), t)
    BY <1>1, <2>4, <2>5, <2>6, WalkPage
  <2>8. FillsPages => "short" \notin Stops \/ venue # "sparse"
    BY <1>1 DEF FillsPages
  <2>9. \A t \in Promised(known) : t \in rows \/ t \in T
    BY <2>3
  <2> HIDE DEF all
  <2>10. rows \subseteq all
    BY DEF all
  <2>11. QED  BY <1>1, <2>2, <2>3, <2>7, <2>8, <2>9, <2>10
<1>7. QED
  BY <1>4, <1>5, <1>6

\* So do the pages of the walk over the marks.
LEMMA MarksOfPage ==
    ASSUME Awaiting, Valuing, NEW found \in Served, NEW more \in More(found),
           ~Refused(found, more)
    PROVE  LET all == marks \cup Kept(found)
           IN  /\ all \subseteq candles
               /\ Ends(found, more) /\ (venue # "sparse" \/ Adapter.marks = "forward") =>
                      rows \cap priced \subseteq all
               /\ ~Ends(found, more) =>
                      \A t \in rows \cap priced :
                          t \in all \/ Ahead(Adapter.marks, Advanced(found), t)
<1> DEFINE all == marks \cup Kept(found)
<1>1. /\ Timely /\ Walking /\ MarksAhead /\ marks \subseteq candles /\ priced \subseteq candles
      /\ Published = candles /\ Way = Adapter.marks /\ Way \in {"backward", "forward"}
      /\ WellFormed(Adapter) /\ rows \subseteq 0 .. now /\ now \in Nat /\ rows \subseteq Nat
      /\ StopsFit /\ cursor \in Int \cup {None} /\ Low \in Int \cup {None}
      /\ Way = "forward" => High \in Int
  BY Addressed DEF Awaiting, Valuing, WalkInv, TypeOK, Published, Way
<1>2. found \subseteq candles
  BY <1>1, PageIsPublished
<1>3. Kept(found) = Between(found, Low, High)
  BY DEF Kept
<1>4. all \subseteq candles
  BY <1>1, <1>2, <1>3 DEF Between
<1>5. \A t \in rows : Within(t, Low, High)
  <2>1. CASE Way = "backward"
    <3>1. Low = First(rows) /\ High = Last(rows) /\ rows # {}
      BY <1>1, <2>1 DEF Low, High, MarkFrom, MarkUntil, NewestOf, MarksAhead, Valuing
    <3>2. /\ First(rows) \in rows /\ \A t \in rows : First(rows) <= t
      BY <1>1, <3>1, FirstExists
    <3>3. /\ Last(rows) \in rows /\ \A t \in rows : t <= Last(rows)
      BY <1>1, <3>1, LastExists
    <3>4. QED  BY <3>1, <3>2, <3>3 DEF Within
  <2>2. CASE Way = "forward"
    <3>1. Low = from /\ High = until
      BY <1>1, <2>2 DEF Low, High, MarkFrom, MarkUntil, Valuing
    <3>2. QED  BY <1>1, <2>2, <3>1 DEF Walking, WellFormed
  <2>3. QED  BY <1>1, <2>1, <2>2
<1>6. PICK T : T = {t \in rows \cap priced : t \notin marks}
  OBVIOUS
<1>7. T \subseteq Published /\ \A t \in T : Within(t, Low, High) /\ Ahead(Way, cursor, t)
  BY <1>1, <1>5, <1>6 DEF MarksAhead
<1>8. /\ Ends(found, more) /\ ("short" \notin Stops \/ venue # "sparse") => T \subseteq found
      /\ ~Ends(found, more) => \A t \in T : t \in found \/ Ahead(Way, Advanced(found), t)
  BY <1>1, <1>7, WalkPage
<1>9. Adapter.marks = "forward" => "short" \notin Stops
  BY <1>1 DEF Stops, Valuing
<1>10. \A t \in rows \cap priced : t \in marks \/ (t \in T /\ (t \in found => t \in all))
  BY <1>3, <1>5, <1>6 DEF Between
<1> HIDE DEF all
<1>11. marks \subseteq all
  BY DEF all
<1>12. QED
  BY <1>1, <1>4, <1>8, <1>9, <1>10, <1>11 DEF all

\* A page that is not the last: the walk goes on with a budget that is kept.
LEMMA ContinueKeeps ==
    ASSUME Awaiting, NEW found \in Served, NEW more \in More(found),
           ~Refused(found, more), ~Ends(found, more), WithinBudget,
           page' = NextPage, cursor' = Advanced(found),
           seen' = IF Way = "token" THEN seen \cup {Advanced(found)} ELSE seen,
           LET all == (IF Valuing THEN marks ELSE rows) \cup Kept(found)
           IN  IF Valuing THEN marks' = all /\ rows' = rows ELSE rows' = all /\ marks' = marks,
           UNCHANGED <<stage, current, from, until, points, issue, outcome, priced>>,
           UNCHANGED <<call, venue, now, interest, candles, began, known>>
    PROVE  WalkInv'
<1>1. /\ TypeOK /\ Walking /\ outcome = None /\ stage \in {"interest", "marks"}
      /\ Valuing => stage = "marks" /\ MarksAhead
      /\ ~Valuing => stage = "interest" /\ RowsAhead
  BY DEF Awaiting, WalkInv, Valuing
<1>2. /\ Adapter' = Adapter /\ Start' = Start /\ End' = End
      /\ (Paged <=> Paged') /\ (FillsPages <=> FillsPages')
      /\ (OffersHistory <=> OffersHistory')
  BY SameFetch
<1>3. Promised(known)' = Promised(known)
  BY <1>2 DEF Promised
<1>4. cursor' \in -1 .. Horizon + 1 /\ (Way = "token" => Advanced(found) \in Times)
  BY GoesOn
<1>5. page' \in 1 .. MaxPages
  BY <1>1, BoundsAssumption DEF TypeOK, WithinBudget, NextPage
<1>6. seen' \subseteq Times
  BY <1>1, <1>4 DEF TypeOK
<1>7. points = {}
  BY <1>1 DEF Walking
<1>8. HistoryComplete' /\ MarksJoined'
  BY <1>1, InputAssumption DEF HistoryComplete, Ranged, MarksJoined
<1>9. CASE ~Valuing
  <2> DEFINE all == rows \cup Kept(found)
  <2>1. rows' = all /\ marks' = marks
    BY <1>9
  <2>2. /\ all \subseteq interest
        /\ Adapter.clamp = "complete" => \A t \in all : Within(t, from, until)
        /\ Paged /\ Start # None =>
               \A t \in Promised(known) : t \in all \/ Ahead(Adapter.walk, Advanced(found), t)
    BY <1>9, RowsOfPage
  <2> HIDE DEF all
  <2>3. rows' \subseteq interest' /\ marks' \subseteq candles' /\ points' \subseteq rows'
    BY <1>1, <1>7, <2>1, <2>2 DEF TypeOK
  <2>4. TypeOK'
    BY <1>1, <1>4, <1>5, <1>6, <2>3 DEF TypeOK
  <2>5. Walking'
    BY <1>1, <1>2, <1>3, <2>1, <2>2 DEF Walking, Covered
  <2>6. RowsAhead'
    BY <1>1, <1>2, <1>3, <1>9, <2>1, <2>2 DEF RowsAhead, Ahead
  <2>7. QED  BY <1>1, <1>8, <1>9, <2>4, <2>5, <2>6 DEF WalkInv
<1>10. CASE Valuing
  <2> DEFINE all == marks \cup Kept(found)
  <2>1. marks' = all /\ rows' = rows
    BY <1>10
  <2>2. /\ all \subseteq candles
        /\ \A t \in rows \cap priced :
               t \in all \/ Ahead(Adapter.marks, Advanced(found), t)
    BY <1>10, MarksOfPage
  <2> HIDE DEF all
  <2>3. rows' \subseteq interest' /\ marks' \subseteq candles' /\ points' \subseteq rows'
    BY <1>1, <1>7, <2>1, <2>2 DEF TypeOK
  <2>4. TypeOK'
    BY <1>1, <1>4, <1>5, <1>6, <2>3 DEF TypeOK
  <2>5. Walking'
    BY <1>1, <1>2, <1>3, <2>1, <2>2 DEF Walking, Covered
  <2>6. MarksAhead'
    BY <1>1, <1>2, <1>3, <1>10, <2>1, <2>2 DEF MarksAhead, Ahead
  <2>7. QED  BY <1>1, <1>8, <1>10, <2>4, <2>5, <2>6 DEF WalkInv
<1>11. QED  BY <1>9, <1>10

\* The last page of the open interest: the rows are returned, or the marks walked.
LEMMA CollectedKeeps ==
    ASSUME Awaiting, ~Valuing, NEW found \in Served, NEW more \in More(found),
           ~Refused(found, more), Ends(found, more), Collected(rows \cup Kept(found)),
           UNCHANGED <<call, venue, now, interest, candles, began, known>>
    PROVE  WalkInv'
<1> DEFINE all == rows \cup Kept(found)
<1>1. /\ TypeOK /\ Walking /\ outcome = None /\ stage = "interest" /\ RowsAhead
      /\ WellFormed(Adapter) /\ now \in Nat /\ now <= Horizon /\ Horizon \in Nat
  BY Addressed DEF Awaiting, WalkInv, Valuing
<1>2. /\ Adapter' = Adapter /\ Start' = Start /\ End' = End
      /\ (Paged <=> Paged') /\ (FillsPages <=> FillsPages')
      /\ (OffersHistory <=> OffersHistory')
  BY SameFetch
<1>3. Promised(known)' = Promised(known)
  BY <1>2 DEF Promised
<1>4. /\ all \subseteq interest
      /\ Adapter.clamp = "complete" => \A t \in all : Within(t, from, until)
      /\ Paged /\ Start # None /\ FillsPages => Promised(known) \subseteq all
  BY RowsOfPage
<1>5. Collected(all)
  OBVIOUS
<1> HIDE DEF all
<1>6. CASE NeedsMarks(all)
  <2>1. /\ stage' = "marks" /\ rows' = all /\ priced' = candles /\ page' = 1 /\ seen' = {}
        /\ cursor' = IF Adapter.marks = "forward" THEN from ELSE Last(all)
        /\ UNCHANGED <<current, from, until, marks, points, issue, outcome>>
    BY <1>5, <1>6 DEF Collected
  <2>2. Adapter.marks # "no" /\ (Adapter.marks = "backward" => all # {})
    BY <1>6 DEF NeedsMarks
  <2>3. all \subseteq 0 .. now /\ all \subseteq Nat
    <3>1. all \subseteq 0 .. now
      BY <1>1, <1>4 DEF TypeOK
    <3>2. 0 .. now \subseteq Nat
      BY <1>1
    <3>3. QED  BY <3>1, <3>2
  <2>4. Adapter.marks = "backward" => /\ Last(all) \in all
                                     /\ \A t \in all : t <= Last(all)
    BY <1>1, <2>2, <2>3, LastExists
  <2>5. Adapter.marks = "forward" => /\ from \in Int
                                    /\ \A t \in all : Within(t, from, until)
    BY <1>1, <1>4 DEF WellFormed, Walking
  <2>6. Adapter.marks \in {"backward", "forward"}
    BY <1>1, <2>2 DEF WellFormed
  <2>7. cursor' \in -1 .. Horizon + 1 \cup {None}
    <3>1. Adapter.marks = "backward" => Last(all) \in 0 .. now
      BY <2>3, <2>4
    <3>2. from \in Times \cup {None}
      BY <1>1 DEF TypeOK
    <3>3. QED  BY <1>1, <2>1, <2>6, <3>1, <3>2 DEF Times
  <2>8. points = {} /\ marks = {}
    BY <1>1 DEF Walking, RowsAhead
  <2>9. TypeOK'
    <3>1. page' \in 1 .. MaxPages /\ seen' \subseteq Times
      BY <2>1, BoundsAssumption
    <3>2. rows' \subseteq interest' /\ marks' \subseteq candles' /\ points' \subseteq rows'
      BY <1>1, <1>4, <2>1, <2>8 DEF TypeOK
    <3>3. priced' \subseteq candles'
      BY <2>1
    <3>4. QED  BY <1>1, <2>1, <2>7, <3>1, <3>2, <3>3 DEF TypeOK
  <2>10. Walking'
    BY <1>1, <1>2, <1>3, <1>4, <2>1 DEF Walking, Covered
  <2>11. MarksAhead'
    <3>1. ASSUME NEW t \in all  PROVE Ahead(Adapter.marks, cursor, t)'
      <4>1. t \in Nat
        BY <2>3
      <4>2. CASE Adapter.marks = "backward"
        BY <1>2, <2>1, <2>4, <4>2 DEF Ahead
      <4>3. CASE Adapter.marks = "forward"
        <5>1. cursor' \in Int /\ cursor' <= t
          BY <2>1, <2>5, <4>3 DEF Within
        <5>2. QED  BY <1>2, <4>3, <5>1 DEF Ahead
      <4>4. QED  BY <2>6, <4>2, <4>3
    <3>2. QED  BY <1>2, <1>3, <1>4, <2>1, <2>2, <3>1 DEF MarksAhead
  <2>12. HistoryComplete' /\ MarksJoined'
    BY <1>1, <2>1, InputAssumption DEF HistoryComplete, Ranged, MarksJoined
  <2>13. QED  BY <1>1, <2>1, <2>9, <2>10, <2>11, <2>12 DEF WalkInv
<1>7. CASE ~NeedsMarks(all)
  <2>1. Done("result", TRUE, all, {}, all, None) /\ UNCHANGED priced
    BY <1>5, <1>7 DEF Collected, Result
  <2>2. /\ stage' = "idle" /\ outcome' = "result" /\ current' = TRUE /\ issue' = None
        /\ rows' = all /\ marks' = {} /\ points' = all /\ page' = 1 /\ cursor' = None
        /\ seen' = {} /\ from' = None /\ until' = None
    BY <2>1 DEF Done
  <2>3. HistoryComplete'
    BY <1>2, <1>3, <1>4, <2>2 DEF HistoryComplete, Ranged
  <2>4. ASSUME Adapter.marks # "no", call.product # "inverse"  PROVE all = {}
    BY <1>7, <2>4 DEF NeedsMarks
  <2>5. MarksJoined'
    BY <1>2, <2>2, <2>4, InputAssumption DEF MarksJoined
  <2>6. priced' \subseteq candles'
    BY <1>1, <2>1 DEF TypeOK
  <2>7. Settled'
    BY <1>4, <2>2, <2>3, <2>5, <2>6 DEF Settled
  <2>8. QED  BY <2>7, SettledKeeps DEF Awaiting, worldVars
<1>8. QED  BY <1>6, <1>7

\* The last page of the marks: they are joined.
LEMMA ValuedKeeps ==
    ASSUME Awaiting, Valuing, NEW found \in Served, NEW more \in More(found),
           ~Refused(found, more), Ends(found, more), Valued(marks \cup Kept(found)),
           UNCHANGED <<call, venue, now, interest, candles, began, known>>
    PROVE  WalkInv'
<1> DEFINE all    == marks \cup Kept(found)
           joined == Joined(rows, all)
<1>1. TypeOK /\ Walking /\ outcome = None /\ MarksAhead
  BY DEF Awaiting, WalkInv, Valuing
<1>2. /\ Adapter' = Adapter /\ Start' = Start /\ End' = End
      /\ (Paged <=> Paged') /\ (FillsPages <=> FillsPages')
      /\ (OffersHistory <=> OffersHistory')
  BY SameFetch
<1>3. Promised(known)' = Promised(known)
  BY <1>2 DEF Promised
<1>4. /\ all \subseteq candles
      /\ venue # "sparse" \/ Adapter.marks = "forward" => rows \cap priced \subseteq all
  BY MarksOfPage
<1>5. /\ Done("result", TRUE, rows, all, joined,
               IF joined = rows THEN None ELSE "history_partial")
      /\ UNCHANGED priced
  BY DEF Valued, Result
<1> HIDE DEF all
<1>6. joined = (IF call.product = "inverse" THEN rows ELSE rows \cap all)
  BY DEF Joined, Matched
<1> HIDE DEF joined
<1>7. /\ stage' = "idle" /\ outcome' = "result" /\ current' = TRUE
      /\ issue' = IF joined = rows THEN None ELSE "history_partial"
      /\ rows' = rows /\ marks' = all /\ points' = joined /\ page' = 1 /\ cursor' = None
      /\ seen' = {} /\ from' = None /\ until' = None
  BY <1>5 DEF Done
<1>8. HistoryComplete'
  BY <1>1, <1>2, <1>3, <1>7 DEF HistoryComplete, Ranged, MarksAhead
<1>9. MarksJoined'
  BY <1>2, <1>4, <1>5, <1>6, <1>7, InputAssumption DEF MarksJoined
<1>10. Settled'
  BY <1>1, <1>4, <1>5, <1>6, <1>7, <1>8, <1>9 DEF Settled, TypeOK
<1>11. QED  BY <1>10, SettledKeeps DEF Awaiting, worldVars

LEMMA PageArrivesKeeps == WalkInv /\ PageArrives => WalkInv'
<1> SUFFICES ASSUME WalkInv, PageArrives  PROVE WalkInv'
  OBVIOUS
<1>1. Awaiting /\ UNCHANGED <<call, venue, worldVars, began, known>>
  BY DEF PageArrives, Awaiting
<1>2. UNCHANGED <<call, venue, now, interest, candles, began, known>>
  BY <1>1 DEF worldVars
<1> DEFINE Handled(found, more) ==
        LET all == (IF Valuing THEN marks ELSE rows) \cup Kept(found)
        IN  IF Way = "forward" /\ "last" \in Stops /\ found = {} /\ more
            THEN HistoryFailed /\ UNCHANGED priced
            ELSE IF Ends(found, more)
            THEN IF Valuing THEN Valued(all) ELSE Collected(all)
            ELSE IF Stuck(Advanced(found)) \/ ~WithinBudget
            THEN HistoryFailed /\ UNCHANGED priced
            ELSE /\ page' = NextPage /\ cursor' = Advanced(found)
                 /\ seen' = IF Way = "token" THEN seen \cup {Advanced(found)} ELSE seen
                 /\ IF Valuing THEN marks' = all /\ rows' = rows
                               ELSE rows' = all /\ marks' = marks
                 /\ UNCHANGED <<stage, current, from, until, points, issue,
                                outcome, priced>>
<1>3. PICK found \in Served : \E more \in More(found) : Handled(found, more)
  BY DEF PageArrives
<1>4. PICK more \in More(found) : Handled(found, more)
  BY <1>3
<1>5. CASE HistoryFailed /\ UNCHANGED priced
  <2>1. UNCHANGED <<call, venue, worldVars, ghostVars>>
    BY <1>1, <1>5 DEF ghostVars
  <2>2. QED  BY <1>5, <2>1, FailureKeeps
<1>6. CASE ~Refused(found, more) /\ Ends(found, more)
  <2>1. CASE Valuing
    <3>1. Valued(marks \cup Kept(found))
      BY <1>4, <1>6, <2>1 DEF Refused
    <3>2. QED  BY <1>1, <1>2, <1>6, <2>1, <3>1, ValuedKeeps
  <2>2. CASE ~Valuing
    <3>1. Collected(rows \cup Kept(found))
      BY <1>4, <1>6, <2>2 DEF Refused
    <3>2. QED  BY <1>1, <1>2, <1>6, <2>2, <3>1, CollectedKeeps
  <2>3. QED  BY <2>1, <2>2
<1>7. CASE ~Refused(found, more) /\ ~Ends(found, more) /\ ~(HistoryFailed /\ UNCHANGED priced)
  <2>1. /\ WithinBudget /\ page' = NextPage /\ cursor' = Advanced(found)
        /\ seen' = IF Way = "token" THEN seen \cup {Advanced(found)} ELSE seen
        /\ UNCHANGED <<stage, current, from, until, points, issue, outcome, priced>>
    BY <1>4, <1>7 DEF Refused
  <2>2. LET all == (IF Valuing THEN marks ELSE rows) \cup Kept(found)
        IN  IF Valuing THEN marks' = all /\ rows' = rows ELSE rows' = all /\ marks' = marks
    BY <1>4, <1>7 DEF Refused
  <2>3. QED  BY <1>1, <1>2, <1>7, <2>1, <2>2, ContinueKeeps
<1>8. QED  BY <1>4, <1>5, <1>6, <1>7 DEF Refused

LEMMA PageFailsKeeps == WalkInv /\ PageFails => WalkInv'
  BY FailureKeeps DEF PageFails

-----------------------------------------------------------------------------
(* Theorems.                                                               *)

LEMMA StepKeeps == WalkInv /\ [Next]_vars => WalkInv'
<1> SUFFICES ASSUME WalkInv, [Next]_vars  PROVE WalkInv'
  OBVIOUS
<1>1. CASE Call
  BY <1>1, CallKeeps
<1>2. CASE CurrentArrives
  BY <1>2, CurrentArrivesKeeps
<1>3. CASE CurrentUnvalued
  BY <1>3, UnvaluedKeeps
<1>4. CASE CurrentFails
  BY <1>4, CurrentFailsKeeps
<1>5. CASE PageArrives
  BY <1>5, PageArrivesKeeps
<1>6. CASE PageFails
  BY <1>6, PageFailsKeeps
<1>7. CASE Cancel
  BY <1>7, CancelKeeps
<1>8. CASE Tick
  BY <1>8, TickKeeps
<1>9. CASE UNCHANGED vars
  <2>1. /\ UNCHANGED <<call, venue, now, interest, candles, stage, current, from, until>>
        /\ UNCHANGED <<page, cursor, seen, rows, marks, points, issue, outcome>>
        /\ UNCHANGED <<began, known, priced>>
    BY <1>9 DEF vars, worldVars, fetchVars, walkVars, ghostVars
  <2>2. /\ Adapter' = Adapter /\ Start' = Start /\ End' = End
        /\ (Paged <=> Paged') /\ (FillsPages <=> FillsPages')
        /\ (OffersHistory <=> OffersHistory')
    BY <2>1, SameFetch
  <2>3. Promised(known)' = Promised(known)
    BY <2>1, <2>2 DEF Promised
  <2>4. TypeOK' /\ (Fresh => Fresh')
    BY <2>1 DEF WalkInv, TypeOK, Fresh
  <2>5. (Walking => Walking') /\ (RowsAhead => RowsAhead') /\ (MarksAhead => MarksAhead')
    BY <2>1, <2>2, <2>3 DEF Walking, Covered, RowsAhead, MarksAhead, Ahead
  <2>6. HistoryComplete' /\ MarksJoined'
    BY <2>1, <2>2, <2>3 DEF WalkInv, HistoryComplete, Ranged, MarksJoined
  <2>7. QED  BY <2>1, <2>4, <2>5, <2>6 DEF WalkInv
<1>10. QED
  BY <1>1, <1>2, <1>3, <1>4, <1>5, <1>6, <1>7, <1>8, <1>9 DEF Next, Answered

\* The walk keeps its invariant in every reachable state.
THEOREM WalkInvariant == Spec => []WalkInv
  BY StartsFresh, StepKeeps, PTL DEF Spec

\* Every variable of a fetch keeps its type: cursors stay between one before the
\* first bucket and one after the last, pages within HISTORY_MAX_PAGES.
THEOREM FetchTypeCorrect == Spec => []TypeOK
<1>1. WalkInv => TypeOK
  BY DEF WalkInv
<1>2. QED
  BY <1>1, WalkInvariant, PTL

\* Whatever the adapter, the range, the budget and the size of a page, a history
\* that is returned without a failure has every complete bucket of the range that
\* the venue retained and had published when the walk began (the walk and join of
\* the adapters' fetch()).
THEOREM HistoriesAreComplete == Spec => []HistoryComplete
<1>1. WalkInv => HistoryComplete
  BY DEF WalkInv
<1>2. QED
  BY <1>1, WalkInvariant, PTL

\* Values are joined to marks of their own bucket, and a row that has no mark is
\* reported (_join_contract_history, _partial_mark_issue and their like).
THEOREM JoinsAreExact == Spec => []MarksJoined
<1>1. WalkInv => MarksJoined
  BY DEF WalkInv
<1>2. QED
  BY <1>1, WalkInvariant, PTL

\* No failure of the history loses the current value (the except clauses around
\* the walks).
THEOREM CurrentIsKept == Spec => CurrentSurvives
<1>1. WalkInv /\ [Next]_vars =>
          [current /\ stage' = "idle" /\ stage # "idle" =>
              \/ outcome' = "cancelled"
              \/ /\ outcome' = "result" /\ current'
                 /\ issue' = "history_unavailable" => points' = {}]_vars
  <2> SUFFICES ASSUME WalkInv, Next, current, stage # "idle", stage' = "idle"
               PROVE  \/ outcome' = "cancelled"
                      \/ /\ outcome' = "result" /\ current'
                         /\ issue' = "history_unavailable" => points' = {}
    OBVIOUS
  <2>1. stage \in {"interest", "marks"}
    BY DEF WalkInv, TypeOK, Fresh
  <2>2. CASE Cancel
    BY <2>2 DEF Cancel, Done
  <2>3. ASSUME HistoryFailed
        PROVE  outcome' = "result" /\ current' /\ points' = {}
    BY <2>3 DEF HistoryFailed, KeepsCurrent, Result, Done
  <2>4. CASE PageFails
    BY <2>3, <2>4 DEF PageFails
  <2>5. CASE PageArrives
    <3>1. ASSUME NEW all, Valued(all)
          PROVE  outcome' = "result" /\ current' /\ issue' # "history_unavailable"
      BY <3>1, InputAssumption DEF Valued, Result, Done
    <3>2. ASSUME NEW all, Collected(all)
          PROVE  outcome' = "result" /\ current' /\ issue' # "history_unavailable"
      <4>1. ~NeedsMarks(all)
        BY <3>2 DEF Collected
      <4>2. QED  BY <3>2, <4>1, InputAssumption DEF Collected, Result, Done
    <3>3. \/ HistoryFailed
          \/ \E all : Valued(all) \/ Collected(all)
          \/ stage' = stage
      BY <2>5 DEF PageArrives
    <3>4. QED  BY <2>3, <3>1, <3>2, <3>3
  <2>6. CASE Tick
    BY <2>6 DEF Tick, fetchVars
  <2>7. QED
    BY <2>1, <2>2, <2>4, <2>5, <2>6
       DEF Next, Answered, Call, CurrentArrives, CurrentUnvalued, CurrentFails
<1>2. QED
  BY <1>1, WalkInvariant, PTL DEF Spec, CurrentSurvives

=============================================================================
