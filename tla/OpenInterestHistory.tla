------------------------- MODULE OpenInterestHistory -------------------------
(***************************************************************************)
(* Open-interest adapters (src/perp_md/adapters/native and the optional    *)
(* provider in ccxt.py): one fetch() obtains the current open interest of  *)
(* an instrument, and when asked walks the venue's buckets of the past and *)
(* joins them to mark prices of the same bucket where the venue does not   *)
(* value them itself.                                                      *)
(*                                                                         *)
(* Every adapter is a record that says how its history is addressed, how   *)
(* the range is clamped, what ends the walk and which marks are joined.    *)
(* The venue fills new buckets between two requests, publishes the price   *)
(* of a bucket later than its open interest or never, omits buckets, and   *)
(* may ignore cursors.  Adapters keep nothing from one fetch to the next,  *)
(* so a behaviour is one fetch.                                            *)
(*                                                                         *)
(* Time is counted in buckets of HISTORY_BUCKET_MS, and a page is the set  *)
(* of the times of its rows.                                               *)
(***************************************************************************)
EXTENDS HistoryRows

CONSTANTS
    Adapters,    \* the adapters a fetch may use
    Ranges,      \* the history ranges a caller may pass
    Venues,      \* how the venue pages: "honest", "sparse" or "stuck"
    FirstNow,    \* the time of the call
    Backlogs,    \* buckets the venue may have filled by then
    Horizon,     \* last bucket (bounds the model)
    Limit,       \* rows of a full page
    MaxPages,    \* HISTORY_MAX_PAGES
    Retention,   \* BINANCE_HISTORY_DAYS, KRAKEN_HISTORY_DAYS in buckets
    None

Times == 0 .. Horizon
HistoryRange == [start : Times \cup {None}, end : Times \cup {None}]
Always == [start |-> None, end |-> None]

ASSUME BoundsAssumption ==
    /\ Horizon \in Nat /\ FirstNow \in 0 .. Horizon
    /\ Backlogs \subseteq SUBSET (0 .. FirstNow)
    /\ Limit \in Nat \ {0} /\ MaxPages \in Nat \ {0} /\ Retention \in Nat \ {0}

ASSUME InputAssumption ==
    /\ None \notin Int \cup {"result", "error", "cancelled",
                            "history_unavailable", "history_partial"}
    /\ Ranges \subseteq HistoryRange /\ Always \in Ranges
    /\ \A r \in Ranges : /\ r.start = None => r.end = None
                         /\ r.end # None => r.start <= r.end
    /\ Venues \subseteq {"honest", "sparse", "stuck"}

-----------------------------------------------------------------------------
(* What each adapter's fetch() does.                                       *)
(*   metadata  direction, kind or multiplier is checked before the         *)
(*             requests, needed after them, or not needed                  *)
(*   walk      how older buckets are addressed; "page" is a single page    *)
(*   clamp     what an end of the range is limited to: "now", the latest   *)
(*             "complete" bucket, an "open" end only, or nothing           *)
(*   retained  the start is limited to the documented retention            *)
(*   stops     what ends the walk                                          *)
(*   marks     how marks are walked for the join                           *)

Snapshot(need) ==
    [metadata |-> need, walk |-> "none", clamp |-> "no", retained |-> FALSE,
     stops |-> {}, marks |-> "no"]
Backward(need) ==
    [Snapshot(need) EXCEPT !.walk = "backward", !.clamp = "open",
                           !.stops = {"empty", "short", "start"}]

Binance ==
    [Backward("late") EXCEPT !.clamp = "now", !.retained = TRUE,
                             !.stops = @ \cup {"unranged"}]
Bybit ==
    [Snapshot("no") EXCEPT !.walk = "token", !.clamp = "now",
                           !.stops = {"last"}, !.marks = "backward"]
Gate ==
    [Snapshot("first") EXCEPT !.walk = "forward", !.clamp = "now",
                              !.stops = {"unranged", "empty", "end"}]
Bitfinex    == Backward("late")
Okx         == [Backward("no") EXCEPT !.clamp = "no"]
Kraken ==
    [Snapshot("first") EXCEPT !.walk = "forward", !.clamp = "complete",
                              !.retained = TRUE, !.stops = {"end", "last"},
                              !.marks = "forward"]
Deepcoin ==
    [Backward("late") EXCEPT !.stops = {"empty", "open", "start"},
                             !.marks = "backward"]
Kucoin      == [Backward("late") EXCEPT !.marks = "backward"]
Htx         == [Snapshot("first") EXCEPT !.walk = "page", !.stops = {"once"}]
Hyperliquid == Snapshot("no")
Bingx       == Snapshot("first")
Btse        == Snapshot("late")
Grvt        == Snapshot("first")
Lighter     == Snapshot("no")
Mexc        == Snapshot("late")
Phemex      == Snapshot("late")
Toobit      == Snapshot("no")
Xt          == Snapshot("first")
Ccxt        == [Snapshot("late") EXCEPT !.walk = "since", !.stops = {"once"}]

\* native_adapters(), and the optional provider behind them.
Declared ==
    [binance |-> Binance, bybit |-> Bybit, gate |-> Gate, bitfinex |-> Bitfinex,
     okx |-> Okx, kraken |-> Kraken, deepcoin |-> Deepcoin, kucoin |-> Kucoin,
     htx |-> Htx, hyperliquid |-> Hyperliquid, bingx |-> Bingx, btse |-> Btse,
     grvt |-> Grvt, lighter |-> Lighter, mexc |-> Mexc, phemex |-> Phemex,
     toobit |-> Toobit, xt |-> Xt, ccxt |-> Ccxt]

ASSUME AdaptersAssumption == Adapters \subseteq DOMAIN Declared

VARIABLES
    call,      \* the arguments of the fetch
    venue,     \* how the venue pages
    now,       \* clock(), in buckets
    interest,  \* buckets whose open interest the venue has published
    candles,   \* buckets whose mark price the venue has published
    stage,     \* what fetch() awaits
    current,   \* the current value is known
    from,      \* start of the range the walk works with
    until,     \* end of that range
    page,      \* number of the page that is awaited
    cursor,    \* what the next request of the walk is addressed with
    seen,      \* tokens the venue has handed out
    rows,      \* times of the history rows collected
    marks,     \* times of the marks collected
    points,    \* times of the observations returned
    issue,     \* history_issue
    outcome,   \* how the fetch ended
    began,     \* ghost: the time when the walk began
    known,     \* ghost: buckets published when the walk began
    priced     \* ghost: marks published when the walk over the marks began

walkVars  == <<from, until, page, cursor, seen, rows, marks>>
fetchVars == <<stage, current, walkVars, points, issue, outcome>>
worldVars == <<now, interest, candles>>
ghostVars == <<began, known, priced>>
vars == <<call, venue, worldVars, fetchVars, ghostVars>>

Adapter == Declared[call.adapter]
Start   == call.range.start
End     == call.range.end

Calls ==
    [adapter : Adapters, range : Ranges, history : BOOLEAN,
     product : {"linear", "inverse", "dated", None},
     runtime : SUBSET {"interest", "history"}, declared : BOOLEAN]

TypeOK ==
    /\ call \in Calls /\ venue \in Venues
    /\ now \in Times /\ interest \subseteq 0 .. now /\ candles \subseteq 0 .. now
    /\ stage \in {"idle", "current", "mark", "interest", "marks"}
    /\ current \in BOOLEAN
    /\ from \in Times \cup {None} /\ until \in Times \cup {None}
    /\ page \in 1 .. MaxPages
    /\ cursor \in -1 .. Horizon + 1 \cup {None} /\ seen \subseteq Times
    /\ rows \subseteq interest /\ marks \subseteq candles /\ points \subseteq rows
    /\ issue \in {None, "history_unavailable", "history_partial"}
    /\ outcome \in {None, "result", "error", "cancelled"}
    /\ began \in Times \cup {None}
    /\ known \subseteq interest /\ priced \subseteq candles

\* Only the optional provider has runtime features, and venues declared to have a
\* history there.  The product is None where metadata an adapter needs is missing.
Init ==
    /\ call \in Calls /\ venue \in Venues
    /\ call.adapter # "ccxt" => call.runtime = {} /\ ~call.declared
    /\ Adapter.metadata = "no" => call.product # None
    /\ Adapter.walk \in {"none", "page", "since"} =>
            venue = "honest" /\ call.product # "dated"
    /\ now = FirstNow /\ interest \in Backlogs
    /\ candles \in (IF Adapter.marks = "no" THEN {{}} ELSE Backlogs)
    /\ stage = "idle" /\ current = FALSE /\ from = None /\ until = None
    /\ page = 1 /\ cursor = None /\ seen = {} /\ rows = {} /\ marks = {}
    /\ points = {} /\ issue = None /\ outcome = None
    /\ began = None /\ known = {} /\ priced = {}

-----------------------------------------------------------------------------
(* Faulty variants of operators below.  No action uses them: each stands   *)
(* for a bug that one of the properties has to notice.                     *)

BeforeNewest(walked) == Last(walked) - 1    \* the newest bucket gets no mark
StartSeen(found)     == found # {}          \* any row is taken for the start
BudgetForgotten      == TRUE
KeepsNothing         == FALSE               \* a failed history fails the fetch

-----------------------------------------------------------------------------
(* The range a walk works with.                                            *)

LatestComplete == now - 1
LatestBucket   == IF Adapter.clamp = "complete" THEN LatestComplete ELSE now

\* "end_ms or ..." also takes the end 0 for a missing one; Kraken tests for None.
GivenEnd(default) ==
    IF End = None \/ (End = 0 /\ Adapter.clamp # "complete") THEN default ELSE End

ClosingTime ==
    IF Start = None /\ Adapter.clamp # "complete" THEN None
    ELSE CASE Adapter.clamp \in {"now", "complete"} ->
                  First({GivenEnd(LatestBucket), LatestBucket})
           [] Adapter.clamp = "open" -> GivenEnd(now)
           [] OTHER -> End

OpeningTime ==
    LET available == LatestBucket - Retention + 1
    IN  IF ~Adapter.retained \/ (Start = None /\ Adapter.clamp # "complete")
        THEN Start
        ELSE Last({0, available} \cup ({Start} \ {None}))

\* A clamped range may have nothing left; then nothing is requested.
NothingLeft ==
    /\ Adapter.clamp \in {"now", "complete"}
    /\ OpeningTime \in Int /\ ClosingTime \in Int /\ OpeningTime > ClosingTime

-----------------------------------------------------------------------------
(* The venue, as the adapters use it.                                      *)

\* Marks are walked over the buckets to be valued, or over the whole range.
NewestOf(walked) == Last(walked)
MarkFrom  == IF Adapter.marks = "forward" THEN from ELSE First(rows)
MarkUntil == IF Adapter.marks = "forward" THEN until ELSE NewestOf(rows)

Valuing   == stage = "marks"
Published == IF Valuing THEN candles ELSE interest
Way       == IF Valuing THEN Adapter.marks ELSE Adapter.walk
Low       == IF Valuing THEN MarkFrom ELSE from
High      == IF Valuing THEN MarkUntil ELSE until

\* What a request is about; a stuck venue ignores how it is addressed.
Asked ==
    CASE Way = "forward" ->
            Between(Published, IF venue = "stuck" THEN Low ELSE cursor,
                    IF Adapter.clamp = "complete" THEN High ELSE None)
      [] Way = "backward" ->
            Between(Published, Low, IF venue = "stuck" THEN High ELSE cursor)
      [] Way = "token" ->
            {t \in Between(Published, Low, High) : cursor = None \/ t < cursor}
      [] OTHER -> Between(Published, Low, None)

\* A sparse venue counts the buckets it omits as rows of a page.
Sizes == IF venue = "sparse" THEN 1 .. Limit ELSE {Limit}

Served ==
    CASE Way = "forward" /\ cursor # None -> {Oldest(k, Asked) : k \in Sizes}
      [] Way = "token" /\ venue = "stuck" ->
            {Newest(Limit, Between(interest, from, t)) : t \in Times}
      [] Way \in {"page", "since"} -> {Newest(Limit, Asked), Oldest(Limit, Asked)}
      [] OTHER -> {Newest(k, Asked) : k \in Sizes}

\* nextPageCursor, more, or more_candles.
More(found) ==
    IF venue = "stuck" THEN {TRUE}
    ELSE {IF Way = "forward" THEN \E t \in Asked : \A u \in found : t > u
          ELSE \E t \in Asked : \A u \in found : t < u}

-----------------------------------------------------------------------------
(* One fetch().                                                            *)

Done(o, c, walked, found, joined, i) ==
    /\ stage' = "idle" /\ outcome' = o /\ current' = c /\ issue' = i
    /\ rows' = walked /\ marks' = found /\ points' = joined
    /\ page' = 1 /\ cursor' = None /\ seen' = {}
    /\ from' = None /\ until' = None

Result(walked, found, joined, i) == Done("result", TRUE, walked, found, joined, i)
Error  == Done("error", FALSE, {}, {}, {}, None)

\* except Exception: the current value is returned with a history issue.
KeepsCurrent  == current
HistoryFailed ==
    IF KeepsCurrent THEN Result({}, {}, {}, "history_unavailable") ELSE Error

\* Metadata that routes the request is checked before it is made.
Call ==
    /\ stage = "idle" /\ outcome = None
    /\ IF \/ Adapter.metadata = "first" /\ call.product = None
          \/ Adapter.walk = "since" /\ "interest" \notin call.runtime
       THEN Error
       ELSE /\ stage' = "current"
            /\ UNCHANGED <<current, walkVars, points, issue, outcome>>
    /\ UNCHANGED <<call, venue, worldVars, ghostVars>>

\* Dated contracts have no statistics of their own at one venue, and an optional
\* runtime may lack the history.
OffersHistory ==
    CASE call.adapter = "gate"   -> call.product # "dated"
      [] Adapter.walk = "since"  -> "history" \in call.runtime
      [] OTHER -> Adapter.walk # "none"

\* The walk begins with the range as it is clamped then.
BeginWalk ==
    IF NothingLeft THEN Result({}, {}, {}, None) /\ UNCHANGED ghostVars
    ELSE /\ stage' = "interest" /\ current' = TRUE
         /\ from' = OpeningTime /\ until' = ClosingTime
         /\ cursor' = IF Adapter.walk = "forward" THEN OpeningTime
                      ELSE IF Adapter.walk = "backward" THEN ClosingTime ELSE None
         /\ began' = now /\ known' = interest
         /\ UNCHANGED <<page, seen, rows, marks, points, issue, outcome, priced>>

WithCurrent ==
    IF call.history /\ OffersHistory THEN BeginWalk
    ELSE /\ Result({}, {}, {}, IF call.history /\ call.declared
                               THEN "history_unavailable" ELSE None)
         /\ UNCHANGED ghostVars

\* The optional provider needs metadata only for an amount it values itself.
ValuesByMetadata == Adapter.walk = "since" => stage = "mark"

\* The current requests, one or two at a time, were answered.
CurrentArrives ==
    /\ stage \in {"current", "mark"}
    /\ IF Adapter.metadata = "late" /\ call.product = None /\ ValuesByMetadata
       THEN Error /\ UNCHANGED ghostVars
       ELSE WithCurrent
    /\ UNCHANGED <<call, venue, worldVars>>

\* The optional provider reported an amount without a value: a mark is fetched.
CurrentUnvalued ==
    /\ stage = "current" /\ Adapter.walk = "since"
    /\ stage' = "mark"
    /\ UNCHANGED <<call, venue, worldVars, current, walkVars, points, issue,
                   outcome, ghostVars>>

\* A transport failure or an invalid snapshot raises.
CurrentFails ==
    /\ stage \in {"current", "mark"}
    /\ Error
    /\ UNCHANGED <<call, venue, worldVars, ghostVars>>

\* Inverse rows are valued by the contract, linear ones by the mark of their time.
Matched(walked, found) == walked \cap found
Joined(walked, found) ==
    IF call.product = "inverse" THEN walked ELSE Matched(walked, found)

\* All open interest is collected: join it, or walk the marks first.
NeedsMarks(all) ==
    CASE Adapter.marks = "no" -> FALSE
      [] call.adapter \in {"bybit", "kraken"} /\ call.product = "inverse" -> FALSE
      [] OTHER -> Adapter.marks = "forward" \/ all # {}

Collected(all) ==
    IF NeedsMarks(all)
    THEN /\ stage' = "marks" /\ rows' = all /\ priced' = candles
         /\ page' = 1 /\ seen' = {}
         /\ cursor' = IF Adapter.marks = "forward" THEN from ELSE Last(all)
         /\ UNCHANGED <<current, from, until, marks, points, issue, outcome>>
    ELSE Result(all, {}, all, None) /\ UNCHANGED priced

\* _join_contract_history, _partial_mark_issue and their like.
Valued(found) ==
    LET joined == Joined(rows, found)
    IN  /\ Result(rows, found, joined,
                  IF joined = rows THEN None ELSE "history_partial")
        /\ UNCHANGED priced

WithinBudget == page < MaxPages
NextPage     == page + 1

ReachedStart(found) == First(found) <= Low

Stops ==
    IF ~Valuing THEN Adapter.stops
    ELSE IF Way = "forward" THEN {"end", "last"} ELSE {"empty", "short", "start"}

\* The page is the last one of the walk.
Ends(found, more) ==
    \/ "once" \in Stops
    \/ "unranged" \in Stops /\ Start = None
    \/ "empty" \in Stops /\ found = {}
    \/ "short" \in Stops /\ Cardinality(found) < Limit
    \/ "open" \in Stops /\ Start = None /\ Cardinality(found) < Limit
    \/ "start" \in Stops /\ Low # None /\ ReachedStart(found)
    \/ "end" \in Stops /\ found # {} /\ Last(found) >= High
    \/ "last" \in Stops /\ ~more

\* Where the walk goes on: a bound that excludes the page, or the venue's token.
Advanced(found) ==
    CASE Way = "forward"  -> Last(found) + 1
      [] Way = "backward" -> First(found) - 1
      [] OTHER -> First(found \cup {Horizon})   \* an empty page has a token too

Stuck(next) ==
    CASE Way = "forward"  -> next <= cursor
      [] Way = "backward" -> cursor # None /\ next >= cursor
      [] OTHER -> next \in seen

\* Clamped ranges filter the rows, others the requested range does.
Kept(found) ==
    IF Valuing THEN Between(found, Low, High)
    ELSE IF Adapter.clamp \in {"now", "complete"} THEN Between(found, from, until)
    ELSE Between(found, Start, End)

PageArrives ==
    /\ stage \in {"interest", "marks"}
    /\ \E found \in Served : \E more \in More(found) :
        LET all == (IF Valuing THEN marks ELSE rows) \cup Kept(found)
        IN  IF Way = "forward" /\ "last" \in Stops /\ found = {} /\ more
            THEN HistoryFailed /\ UNCHANGED priced
            ELSE IF Ends(found, more)
            THEN IF Valuing THEN Valued(all) ELSE Collected(all)
            ELSE IF Stuck(Advanced(found)) \/ ~WithinBudget
            THEN HistoryFailed /\ UNCHANGED priced
            ELSE /\ page' = NextPage /\ cursor' = Advanced(found)
                 /\ seen' = IF Way = "token" THEN seen \cup {Advanced(found)} ELSE seen
                 /\ IF Valuing THEN marks' = all /\ rows' = rows
                               ELSE rows' = all /\ marks' = marks
                 /\ UNCHANGED <<stage, current, from, until, points, issue,
                                outcome, priced>>
    /\ UNCHANGED <<call, venue, worldVars, began, known>>

\* A failed request, a malformed page, or a history identity that is missing.
PageFails ==
    /\ stage \in {"interest", "marks"}
    /\ HistoryFailed
    /\ UNCHANGED <<call, venue, worldVars, ghostVars>>

Cancel ==
    /\ stage # "idle"
    /\ Done("cancelled", FALSE, {}, {}, {}, None)
    /\ UNCHANGED <<call, venue, worldVars, ghostVars>>

\* A bucket begins; its open interest is published, or left out, and prices of
\* this or the bucket before appear (prices that nobody reads are left out).
Tick ==
    /\ now < Horizon
    /\ now' = now + 1
    /\ interest' \in {interest, interest \cup {now + 1}}
    /\ \E late \in SUBSET {now, now + 1} :
            candles' = candles \cup (IF Adapter.marks = "no" THEN {} ELSE late)
    /\ UNCHANGED <<call, venue, fetchVars, ghostVars>>

Answered == CurrentArrives \/ CurrentUnvalued \/ CurrentFails \/ PageArrives \/ PageFails

Next == Call \/ Answered \/ Cancel \/ Tick

Spec == Init /\ [][Next]_vars

-----------------------------------------------------------------------------
(* Properties.                                                             *)

Paged  == Adapter.walk \in {"backward", "forward", "token"}
Ranged == outcome = "result" /\ call.history /\ OffersHistory /\ Paged /\ Start # None

\* The buckets of the requested range that were complete and within the venue's
\* retention when the walk began.
Promised(S) ==
    {t \in Between(S, Start, End) : began - Retention < t /\ t < began}

\* Walks that stop at a short page rely on a venue that fills its pages.
FillsPages == venue = "sparse" => "short" \notin Adapter.stops

\* A walk that reports no failure visited every promised bucket the venue had
\* published, whatever it publishes, omits or repeats meanwhile.
HistoryComplete ==
    Ranged /\ issue # "history_unavailable" /\ began # None /\ FillsPages
        => Promised(known) \subseteq rows

\* The same without relying on full pages.
SparseTraversed ==
    Ranged /\ issue # "history_unavailable" /\ began # None
        => Promised(known) \subseteq rows

\* Historical values are joined to marks of the same bucket: a linear row without
\* one is left out and reported, and none is left out whose mark was published.
MarksJoined ==
    outcome = "result" /\ Adapter.marks # "no" /\ call.product # "inverse" =>
        /\ points \subseteq candles
        /\ issue = "history_partial" <=> points # rows
        /\ venue # "sparse" \/ Adapter.marks = "forward" =>
               rows \cap priced \subseteq points

\* Once the current value is known, nothing the history does loses it: the fetch
\* returns it, with observations or with a failed history but never with both.
CurrentSurvives ==
    [][current /\ stage' = "idle" /\ stage # "idle" =>
        \/ outcome' = "cancelled"
        \/ /\ outcome' = "result" /\ current'
           /\ issue' = "history_unavailable" => points' = {}]_vars

=============================================================================
