---------------------------- MODULE FundingHistory ----------------------------
(***************************************************************************)
(* Funding adapters (src/perp_md/adapters/funding.py and ccxt_funding.py): *)
(* one fetch() obtains the current rate of an instrument and, when asked,  *)
(* walks the venue's pages of settled rates.                               *)
(*                                                                         *)
(* Every adapter is a record that says what its fetch() does: how it       *)
(* reaches the current value, what it asks of the venue, when its walk     *)
(* ends, and whether a failed history costs the whole fetch.  The actions  *)
(* interpret that record, one action per await.  The venue publishes new   *)
(* settlements between two requests, may ignore cursors or send short      *)
(* pages, and the transport may answer a request from its cache.           *)
(*                                                                         *)
(* Time is counted in settlements, and a page is the set of the times of   *)
(* its rows; a page that is malformed or contradicts itself is a failure.  *)
(***************************************************************************)
EXTENDS HistoryRows, Sequences

CONSTANTS
    Adapters,    \* the adapters a fetch may use
    Ranges,      \* the history ranges a caller may pass, or None for no range
    Venues,      \* how the venue pages: "honest", "stuck" or "capped"
    FirstNow,    \* the time of the first call
    Backlogs,    \* what the venue may have published by then
    Horizon,     \* last settlement time (bounds the model)
    Limit,       \* rows of a full page
    RowLimit,    \* KRAKEN_FUNDING_HISTORY_MAX_ROWS
    MaxPages,    \* FUNDING_HISTORY_MAX_PAGES
    Lookback,    \* seven days
    MaxFetches,  \* fetches of the same history (bounds the model)
    Live,        \* a current value that is not a settlement
    None

Times == 0 .. Horizon
HistoryRange == [start : Times \cup {None}, end : Times \cup {None}]

ASSUME BoundsAssumption ==
    /\ Horizon \in Nat /\ FirstNow \in 0 .. Horizon
    /\ Backlogs \subseteq SUBSET (0 .. FirstNow)
    /\ Limit \in Nat \ {0} /\ MaxPages \in Nat \ {0}
    /\ RowLimit \in Nat /\ Lookback \in Nat /\ MaxFetches \in Nat

ASSUME InputAssumption ==
    /\ {None, Live} \cap (Int \cup {"result", "error", "cancelled", "history_unavailable",
                                  "history_range_required"}) = {}
    /\ None # Live
    /\ Ranges \subseteq HistoryRange \cup {None}
    /\ \A r \in Ranges \ {None} : r.start = None => r.end = None
    /\ Venues \subseteq {"honest", "stuck", "capped"}

-----------------------------------------------------------------------------
(* What each adapter's fetch() does.                                       *)
(*   routed    metadata of the contract is needed to route, and when       *)
(*   extras    requests that only enrich the current value may follow it   *)
(*   walk      how older settlements are addressed                         *)
(*   ranged    the requested range is sent to the venue                    *)
(*   stops     what ends the walk                                          *)

Window(kind) ==
    [routed |-> "no", extras |-> FALSE, walk |-> kind, ranged |-> TRUE, stops |-> {}]

Binance ==
    [routed |-> "first", extras |-> TRUE, walk |-> "forward", ranged |-> TRUE,
     stops |-> {"unranged", "short", "end"}]
Bybit   == [Window("closed") EXCEPT !.routed = "first"]
Gate    == [Window("once") EXCEPT !.routed = "first"]
Okx     == [Window("once") EXCEPT !.ranged = FALSE]
Hyperliquid == Window("settled")
Kraken  == [Window("download") EXCEPT !.routed = "late", !.ranged = FALSE]
Deepcoin ==
    [routed |-> "no", extras |-> FALSE, walk |-> "numbered", ranged |-> FALSE,
     stops |-> {"short", "start"}]
Kucoin  == Window("closed")
Htx ==
    [routed |-> "first", extras |-> FALSE, walk |-> "numbered", ranged |-> FALSE,
     stops |-> {"short", "last"}]
Toobit ==
    [routed |-> "no", extras |-> FALSE, walk |-> "before", ranged |-> FALSE,
     stops |-> {"short", "empty", "start"}]
Lighter == Window("recent")
Grvt ==
    [routed |-> "no", extras |-> FALSE, walk |-> "token", ranged |-> TRUE,
     stops |-> {"last"}]
Btse    == Window("once")
Bingx   == [Window("once") EXCEPT !.routed = "first"]
Mexc ==
    [routed |-> "no", extras |-> FALSE, walk |-> "numbered", ranged |-> FALSE,
     stops |-> {"rangeless", "empty", "last", "start"}]
Xt ==
    [routed |-> "first", extras |-> FALSE, walk |-> "follow", ranged |-> FALSE,
     stops |-> {"rangeless", "empty", "last", "start"}]
Bitfinex == Window("none")
Ccxt     == Window("since")

\* native_funding_adapters(), and the optional provider behind them.
Declared ==
    [binance |-> Binance, bingx |-> Bingx, bybit |-> Bybit, gate |-> Gate,
     okx |-> Okx, hyperliquid |-> Hyperliquid, kraken |-> Kraken,
     deepcoin |-> Deepcoin, kucoin |-> Kucoin, htx |-> Htx, toobit |-> Toobit,
     lighter |-> Lighter, grvt |-> Grvt, btse |-> Btse, mexc |-> Mexc,
     xt |-> Xt, bitfinex |-> Bitfinex, ccxt |-> Ccxt]

ASSUME AdaptersAssumption == Adapters \subseteq DOMAIN Declared

VARIABLES
    call,       \* the arguments every fetch of this behaviour is called with
    venue,      \* how the venue pages
    now,        \* clock()
    published,  \* the times of the settlements the venue has published
    responses,  \* pages the transport holds, oldest first
    stage,      \* what fetch() awaits
    current,    \* None, Live, or the time of a settlement
    page,       \* number of the page that is awaited
    cursor,     \* what the next request of the walk is addressed with
    until,      \* end of the range the fetch works with
    rows,       \* times of the history rows collected
    issue,      \* history_issue
    outcome,    \* how the latest fetch ended
    fetches,    \* fetches that were started
    known,      \* ghost: settlements every response in use can know about
    reused      \* ghost: this fetch took a page from the transport's cache

fetchVars == <<stage, current, page, cursor, until, rows, issue, outcome>>
worldVars == <<now, published, responses, known>>
vars == <<call, venue, fetchVars, worldVars, fetches, reused>>

Adapter == Declared[call.adapter]
Start   == IF call.range = None THEN None ELSE call.range.start
End     == IF call.range = None THEN None ELSE call.range.end

\* The adapters whose history is not confined to one page.
Paged == Adapter.walk \in {"forward", "numbered", "before", "follow", "token",
                          "download"}

Stages == {"idle", "current", "extras", "history", "latest"}
Cursors == 0 .. Horizon + 1
Pages  == [key : {"history", "latest"} \X (1 .. MaxPages)
                   \X (Cursors \cup {None}) \X (Times \cup {None}),
           found : SUBSET Times, more : BOOLEAN]
Calls  ==
    [adapter : Adapters, range : Ranges, history : BOOLEAN,
     product : {"linear", "inverse", None},
     runtime : {{"rate"}, {"history"}, {"rate", "history"}, {}}]

TypeOK ==
    /\ call \in Calls /\ venue \in Venues
    /\ now \in Times /\ published \subseteq Times /\ known \subseteq published
    /\ responses \in Seq(Pages)
    /\ stage \in Stages
    /\ current \in Times \cup {None, Live}
    /\ page \in 1 .. MaxPages
    /\ cursor \in Cursors \cup {None} /\ until \in Times \cup {None}
    /\ rows \subseteq Times
    /\ issue \in {None, "history_unavailable", "history_range_required"}
    /\ outcome \in {None, "result", "error", "cancelled"}
    /\ fetches \in 0 .. MaxFetches /\ reused \in BOOLEAN

\* Only the optional provider has runtime features; product is None where the
\* metadata an adapter routes by is missing, or where it reads none.
Init ==
    /\ call \in Calls /\ venue \in Venues
    /\ call.adapter # "ccxt" => call.runtime = {}
    /\ Adapter.routed = "no" => call.product = None
    /\ Paged \/ venue = "honest"
    /\ now = FirstNow /\ published \in Backlogs
    /\ responses = <<>> /\ known = published /\ reused = FALSE
    /\ stage = "idle" /\ current = None /\ page = 1 /\ cursor = None
    /\ until = None /\ rows = {} /\ issue = None /\ outcome = None
    /\ fetches = 0

-----------------------------------------------------------------------------
(* Faulty variants of operators below.  No action uses them: each stands   *)
(* for a bug that one of the properties has to notice.                     *)

BudgetForgotten          == TRUE
StartSeen(found)         == found # {}        \* any row is taken for the start
SkipsRow(found, kept)    ==
    IF Adapter.walk = "forward" THEN Last(kept) + 2 ELSE First(found) - 1
HistoryFailsFetch        == FALSE
PastNever                == FALSE             \* every range ends at the present
SamePage                 == page

-----------------------------------------------------------------------------
(* The venue, as the adapters use it.                                      *)

\* What the request asks for: the requested range, or the adapter's default.
From ==
    IF Adapter.walk = "settled" /\ Start = None
    THEN until - (IF call.history THEN Lookback ELSE 2)
    ELSE IF Adapter.walk = "recent" /\ Start = None
    THEN IF until < Lookback THEN 0 ELSE until - Lookback
    ELSE IF Adapter.ranged THEN Start ELSE None
To == IF Adapter.ranged THEN until ELSE None

\* The settlements a request is about; a stuck venue ignores how it is addressed.
Asked(c) ==
    LET S == Between(published, From, To)
    IN  IF c = None \/ venue = "stuck" THEN S
        ELSE IF Adapter.walk = "forward" THEN {t \in S : t >= c}
        ELSE {t \in S : t < c}

\* Full pages: the oldest after a time, a numbered block, or the newest.  Which
\* end of a window too long for one page is kept is up to the venue.
FullPages(c, n) ==
    CASE Adapter.walk = "forward" /\ c # None -> {Oldest(Limit, Asked(c))}
      [] Adapter.walk = "numbered" ->
            LET p == IF venue = "stuck" THEN 1 ELSE n
            IN  {Newest(p * Limit, published) \ Newest((p - 1) * Limit, published)}
      [] Adapter.walk \in {"download", "settled"} -> {Asked(None)}
      [] Adapter.walk = "since" ->
            LET k == IF call.history THEN Limit ELSE 1
            IN  {IF Start = None THEN Newest(k, published)
                 ELSE Oldest(k, Between(published, Start, None))}
      [] Adapter.walk \in {"once", "closed", "recent"} ->
            {Newest(Limit, Asked(None)), Oldest(Limit, Asked(None))}
      [] OTHER -> {Newest(Limit, Asked(c))}

\* A capped venue may hold back the older rows of a page.
Served(c, n) ==
    IF venue = "capped" /\ Adapter.walk \in {"before", "follow", "token"}
    THEN {Newest(k, S) : k \in 1 .. Limit, S \in FullPages(c, n)}
    ELSE FullPages(c, n)

\* hasNext, next, or page_number < total_page.
More(c, n, found) ==
    IF Adapter.walk = "numbered"
    THEN n * Limit < Cardinality(published)
    ELSE found # {} /\ (venue = "stuck" \/ \E t \in Asked(c) : t < First(found))

\* The transport keys a response by its address and parameters.
Key == <<stage, IF Adapter.walk = "numbered" THEN page ELSE 1,
         IF stage = "latest" THEN now ELSE cursor, until>>

Held == {responses[i] : i \in {j \in DOMAIN responses : responses[j].key = Key}}

Answers ==
    IF Held # {} THEN Held
    ELSE {[key |-> Key, found |-> S, more |-> More(cursor, page, S)] :
            S \in IF stage = "latest" THEN {Between(published, now - 2, now)}
                  ELSE Served(cursor, page)}

Receive(answer) ==
    /\ reused' = (reused \/ Held # {})
    /\ responses' = IF Held # {} THEN responses ELSE Append(responses, answer)

-----------------------------------------------------------------------------
(* One fetch().                                                            *)

Done(o, c, r, i) ==
    /\ stage' = "idle" /\ outcome' = o /\ current' = c /\ rows' = r /\ issue' = i
    /\ page' = 1 /\ cursor' = None /\ until' = None

Error == Done("error", None, {}, None)

\* An open range is closed at the present where the adapter needs an end.
ClosingTime ==
    IF /\ End = None
       /\ \/ Adapter.walk \in {"settled", "recent"}
          \/ Adapter.walk = "closed" /\ Start # None
    THEN now ELSE End

Await(s) ==
    /\ stage' = s
    /\ until' = ClosingTime
    /\ UNCHANGED <<page, cursor, rows, issue, outcome>>

\* Metadata that routes the request is checked first; a provider that offers
\* neither current nor historical rates is refused.
Call ==
    /\ stage = "idle" /\ fetches < MaxFetches
    /\ fetches' = fetches + 1
    /\ known' = IF responses = <<>> THEN published ELSE known
    /\ reused' = FALSE
    /\ IF \/ Adapter.routed = "first" /\ call.product = None
          \/ Adapter.walk = "since" /\ call.runtime = {}
       THEN Error
       ELSE /\ stage' = IF \/ Adapter.walk = "settled"
                           \/ Adapter.walk = "since" /\ "rate" \notin call.runtime
                        THEN "history" ELSE "current"
            /\ current' = None /\ rows' = {} /\ issue' = None /\ outcome' = None
            /\ page' = 1
            /\ cursor' = IF Adapter.walk = "forward" THEN Start ELSE None
            /\ until' = ClosingTime
    /\ UNCHANGED <<call, venue, now, published, responses>>

OffersHistory ==
    CASE Adapter.walk = "none"  -> FALSE
      [] call.adapter = "bingx" -> call.product = "linear"
      [] Adapter.walk = "since" -> "history" \in call.runtime
      [] OTHER -> TRUE

\* The current value is settled; what follows it.
WithCurrent(c) ==
    IF call.history /\ OffersHistory
    THEN IF Adapter.walk = "download" /\ Start = None
         THEN Done("result", c, {}, "history_range_required")
         ELSE current' = c /\ Await("history")
    ELSE IF c = None THEN Error ELSE Done("result", c, {}, None)

CurrentArrives ==
    /\ stage = "current"
    /\ IF Adapter.routed = "late" /\ call.product = None THEN Error
       ELSE IF Adapter.extras THEN current' = Live /\ Await("extras")
       ELSE WithCurrent(Live)
    /\ UNCHANGED <<call, venue, worldVars, fetches, reused>>

\* The optional provider may answer without a rate.
CurrentMissing ==
    /\ stage = "current" /\ Adapter.walk = "since"
    /\ WithCurrent(None)
    /\ UNCHANGED <<call, venue, worldVars, fetches, reused>>

\* A transport failure or an invalid snapshot raises.
CurrentFails ==
    /\ stage = "current"
    /\ Error
    /\ UNCHANGED <<call, venue, worldVars, fetches, reused>>

\* The interval of the current value arrived, or could not be had.
Enriched ==
    /\ stage = "extras"
    /\ WithCurrent(Live)
    /\ UNCHANGED <<call, venue, worldVars, fetches, reused>>

\* except Exception: the current value is returned with a history issue.  A
\* source whose only current value is a settled one has nothing to return.
KeepsCurrent == current # None

HistoryFailed ==
    IF KeepsCurrent
    THEN Done("result", current, {}, "history_unavailable")
    ELSE Error

WithinBudget == page < MaxPages
NextPage     == page + 1
IsPast       == until < now - 1

ReachedStart(found) == First(found) <= Start

\* Where the walk goes on after a page.
Advanced(found, kept) ==
    IF Adapter.walk = "forward" THEN Last(kept) + 1 ELSE First(found)

\* The page is the last one of the walk.
Ends(found, kept, more) ==
    \/ "unranged" \in Adapter.stops /\ Start = None
    \/ "rangeless" \in Adapter.stops /\ call.range = None
    \/ /\ "short" \in Adapter.stops
       /\ Cardinality(IF Adapter.walk = "forward" THEN kept ELSE found) < Limit
    \/ "empty" \in Adapter.stops /\ found = {}
    \/ "last" \in Adapter.stops /\ ~more
    \/ "start" \in Adapter.stops /\ Start # None /\ found # {} /\ ReachedStart(found)

\* The cursor did not move; where the code can tell, it moved the wrong way.
Stuck(next) ==
    /\ cursor # None
    /\ \/ Adapter.walk = "forward" /\ next <= cursor
       \/ Adapter.walk = "before" /\ next >= cursor
       \/ Adapter.walk \in {"follow", "token"} /\ next = cursor

\* One page of a walk over several: merge it, then stop, fail or go on.
TakePage(found, more) ==
    LET kept == Between(found, Start, End)
        all  == rows \cup kept
    IN  IF Ends(found, kept, more) THEN Done("result", current, all, None)
        ELSE IF Adapter.walk = "numbered"
        THEN IF WithinBudget
             THEN /\ page' = NextPage /\ rows' = all
                  /\ UNCHANGED <<stage, current, cursor, until, issue, outcome>>
             ELSE HistoryFailed
        ELSE LET next == Advanced(found, kept)
             IN  IF Stuck(next) THEN HistoryFailed
                 ELSE IF "end" \in Adapter.stops /\ End # None /\ next > End
                 THEN Done("result", current, all, None)
                 ELSE IF WithinBudget
                 THEN /\ page' = NextPage /\ cursor' = next /\ rows' = all
                      /\ UNCHANGED <<stage, current, until, issue, outcome>>
                 ELSE HistoryFailed

\* A settled-only source: the newest row is the current value, unless the range
\* ended more than an interval ago.
TakeSettled(found) ==
    LET points == Between(found, From, until)
    IN  IF points = {} THEN Error
        ELSE IF IsPast
        THEN /\ stage' = "latest" /\ rows' = points
             /\ UNCHANGED <<current, page, cursor, until, issue, outcome>>
        ELSE Done("result", Last(found), IF call.history THEN points ELSE {}, None)

\* The optional provider: without a rate the newest row in range is the current.
TakeOptional(found) ==
    LET kept == Between(found, Start, End)
        c    == IF current # None \/ kept = {} THEN current ELSE Last(kept)
    IN  IF c = None THEN Error
        ELSE Done("result", c, IF call.history THEN kept ELSE {}, None)

PageArrives ==
    /\ stage = "history"
    /\ \E answer \in Answers :
        LET found == answer.found IN
        /\ Receive(answer)
        /\ CASE Adapter.walk = "settled" -> TakeSettled(found)
             [] Adapter.walk = "since"   -> TakeOptional(found)
             [] Adapter.walk \in {"once", "closed", "recent"} ->
                    Done("result", current, Between(found, Start, End), None)
             [] Adapter.walk = "download" ->
                    IF Cardinality(found) > RowLimit THEN HistoryFailed
                    ELSE Done("result", current, Between(found, Start, End), None)
             [] OTHER -> TakePage(found, answer.more)
    /\ UNCHANGED <<call, venue, now, published, known, fetches>>

\* A failed request, a malformed page, or rows that contradict each other.
PageFails ==
    /\ stage = "history"
    /\ HistoryFailed
    /\ UNCHANGED <<call, venue, worldVars, fetches, reused>>

\* The second request of a settled-only source, for the last two intervals.
LatestArrives ==
    /\ stage = "latest"
    /\ \E answer \in Answers :
        LET found == answer.found IN
        /\ Receive(answer)
        /\ IF found = {} THEN Error
           ELSE Done("result", Last(found), IF call.history THEN rows ELSE {}, None)
    /\ UNCHANGED <<call, venue, now, published, known, fetches>>

LatestFails ==
    /\ stage = "latest"
    /\ Error
    /\ UNCHANGED <<call, venue, worldVars, fetches, reused>>

Cancel ==
    /\ stage # "idle"
    /\ Done("cancelled", None, {}, None)
    /\ UNCHANGED <<call, venue, worldVars, fetches, reused>>

-----------------------------------------------------------------------------
(* The world.                                                              *)

\* An interval passes, mostly with a settlement.
Settle ==
    /\ now < Horizon
    /\ now' = now + 1
    /\ published' \in {published, published \cup {now + 1}}
    /\ UNCHANGED <<call, venue, fetchVars, responses, known, fetches, reused>>

\* The transport's oldest response expires.
Expire ==
    /\ responses # <<>>
    /\ responses' = Tail(responses)
    /\ UNCHANGED <<call, venue, fetchVars, now, published, known, fetches, reused>>

Answered ==
    CurrentArrives \/ CurrentMissing \/ CurrentFails \/ Enriched
    \/ PageArrives \/ PageFails \/ LatestArrives \/ LatestFails

Next == Call \/ Answered \/ Cancel \/ Settle \/ Expire

Spec == Init /\ [][Next]_vars

\* Every request is answered or fails; nobody has to call, cancel or settle.
FairSpec == Spec /\ WF_vars(Answered)

-----------------------------------------------------------------------------
(* Properties.                                                             *)

\* A history returned without an issue for an explicit range has every settlement
\* of the range that was published when the walk began.
CompleteResult ==
    outcome = "result" /\ issue = None /\ call.history /\ OffersHistory
    /\ Paged /\ Start # None
        => Between(known, Start, End) \subseteq rows

\* What some walks rely on: a numbered walk needs a venue that turns pages and
\* pages that are all fresh, a walk that stops at short pages needs full ones.
Trusted ==
    /\ Adapter.walk = "numbered" => venue # "stuck" /\ ~reused
    /\ venue = "capped" => "short" \notin Adapter.stops

\* Histories are complete however the venue publishes, repeats itself or caps its
\* pages meanwhile and whatever pages the transport holds; but the numbered walks
\* (Deepcoin, HTX, MEXC) only with fresh pages of a venue that turns them, and
\* Toobit's, which stops at a short page, only where pages are full.
HistoryComplete == Trusted => CompleteResult

\* docs/CONTRACT.md:307-309: "Consecutive settled-history timestamps define an
\* `observed_window`" (preserve_observed_intervals, funding_values.py:127-136): two rows
\* that follow each other in a result are consecutive settlements of the venue.
ObservedWindows ==
    outcome = "result" =>
        ~ \E t, u \in rows : \E s \in known \ rows : t < s /\ s < u

\* The distance of two neighbours in a result is the distance of consecutive
\* settlements of the venue; for the numbered walks only where pages are all fresh.
WindowsObserved ==
    (Adapter.walk = "numbered" => ~reused) => ObservedWindows

\* Once the current value is known, nothing the history does loses it: the fetch
\* returns it, with rows or with an issue but never with both.
CurrentSurvives ==
    [][current # None /\ stage' = "idle" /\ stage # "idle" =>
        \/ outcome' = "cancelled"
        \/ /\ outcome' = "result" /\ current' = current
           /\ issue' # None => rows' = {}]_vars

\* The current value of a settled-only source is the newest settlement, or only
\* those of the last interval are newer, whatever range of history was asked for.
SettledCurrentRecent ==
    [][Adapter.walk = "settled" /\ stage # "idle" /\ outcome' = "result" =>
        \A t \in known : t <= current' \/ t >= now]_vars

\* docs/CONTRACT.md:269-270: "A history-only source may return the latest settled
\* observation as `FundingResult.current`": a settlement that is returned as the
\* current value is the latest one.
SettledCurrentLatest ==
    outcome = "result" /\ current # Live
        => \A t \in known : t <= current

\* Every fetch ends, whatever the venue serves.
FetchEnds == stage # "idle" ~> stage = "idle"

=============================================================================
