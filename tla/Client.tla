-------------------------------- MODULE Client --------------------------------
(***************************************************************************)
(* OpenInterestClient (src/perp_md/client.py) and FundingClient            *)
(* (funding_client.py): callers ask for one instrument of one venue,       *)
(* preflight decides from the manifest and from what the adapter's runtime *)
(* has proved, and close() shuts every adapter and an owned transport.     *)
(*                                                                         *)
(* The code runs on one event loop: what a call does between two awaits is *)
(* one action.  A call that ends without having waited for anything (a     *)
(* closed client, no adapter, a refusal from cached features, a plan)      *)
(* leaves the client as it was and is not a step of its own.               *)
(***************************************************************************)
EXTENDS Preflight, Manifests, SequencesExt

CONSTANTS
    Callers,     \* coroutines that use one client
    Clients,     \* how the client may have been built, and what is asked of it
    Runtimes,    \* what the optional runtime may implement: venue -> features
    None

ExchangeIds ==
    {"ASTER", "BITFINEX", "BITGET", "BITMART", "BLOFIN", "COINBASE", "DERIBIT", "DIGIFINEX",
     "HTX", "KUCOIN", "MEXC", "CRYPTOCOM", "WHITEBIT", "WEEX", "XT"}
Features == {"open_interest", "open_interest_history", "specialized_catalog",
             "funding", "funding_history"}
Observations == {"mark_price", "mark_price_at_bucket", "fair_price"}

\* The native adapters of a client, whichever venues they serve.
Natives(k) == {k.natives[v] : v \in DOMAIN k.natives}

ASSUME RuntimesAssumption == Runtimes \subseteq [ExchangeIds -> SUBSET Features]

\* The arguments of the constructor: which client, its adapters by venue, the
\* fallback, and whether it made its transport; and what its callers ask.
\* Adapters are the values of a dict, whose keys are names of venues in capitals.
ASSUME ClientsAssumption ==
    \A k \in Clients :
        /\ k.metric \in {"open_interest", "funding"} /\ k.owned \in BOOLEAN
        /\ \A v \in DOMAIN k.natives : k.natives[v] \in {v, "ccxt"}
        /\ {"ccxt", "transport"} \cap DOMAIN k.natives = {}
        /\ IsFiniteSet(Natives(k))
        /\ k.fallback \in {"ccxt", None}
        /\ DOMAIN k.asks = Callers

VARIABLES
    client,      \* the client's arguments
    runtime,     \* the installed optional runtime
    calls,       \* by caller: what it waits for
    features,    \* _runtime_feature_cache
    closed,      \* _closed
    unclosed,    \* what the running close() has still to close
    shut         \* what it has closed

vars == <<client, runtime, calls, features, closed, unclosed, shut>>

Idle == [stage |-> "idle"]
Waiting(stage, req) == [stage |-> stage, request |-> req]

-----------------------------------------------------------------------------
(* Adapters, external but for what the client reads of them: an adapter is *)
(* "ccxt" or the native one named after its venue.                         *)

KindOf(ref) == IF "kind" \in DOMAIN ref.terms THEN ref.terms["kind"] ELSE "unknown"

\* supports() of the native and of the optional adapters
Supports(adapter, venue, ref) ==
    IF adapter = "ccxt" THEN venue \in ExchangeIds
    ELSE /\ adapter = venue
         /\ \/ client.metric = "open_interest"
            \/ venue \notin {"BTSE", "MEXC", "XT", "BITFINEX"}
            \/ KindOf(ref) # "future"

\* The methods of the exchange client that runtime_features() looks for.
MetricFeatures(metric, venue) ==
    IF metric = "funding" THEN {"funding", "funding_history"}
    ELSE {"open_interest", "open_interest_history"}
         \cup (IF venue = "COINBASE" THEN {"specialized_catalog"} ELSE {})

HasProbe(adapter) == adapter = "ccxt"
Proven(adapter, venue) ==
    IF HasProbe(adapter) THEN runtime[venue] \cap MetricFeatures(client.metric, venue) ELSE {}

-----------------------------------------------------------------------------
(* What an adapter reads of a reference to fetch: identities that must be   *)
(* unique, identities that may be absent but not ambiguous, and terms.      *)

Reads(unique, optional, terms) == [unique |-> unique, optional |-> optional, terms |-> terms]

Directed == {"unit", "settlement"}

\* Open interest that some answer of the venue gives as a count of contracts: the
\* optional adapter values a payload without a value (Coinbase's always), and HTX's
\* makes a linear base quantity of a row without an amount.
CountsContracts(venue, adapter, direction) ==
    \/ adapter = "ccxt"
    \/ venue \in {"BITFINEX", "DEEPCOIN", "KUCOIN", "MEXC", "BTSE", "HTX"}
    \/ direction = "inverse" /\ venue \in {"BINANCE", "KRAKEN", "PHEMEX"}

InterestTerms(venue, adapter, direction) ==
    (IF CountsContracts(venue, adapter, direction) THEN Directed \cup {"amount"} ELSE {})
    \cup (IF venue \in {"BINANCE", "BINGX", "BYBIT", "KRAKEN", "PHEMEX", "XT"}
          THEN Directed ELSE {})
    \cup (IF adapter # "ccxt" /\ venue \in {"BINANCE", "GATE", "GRVT", "HTX", "OKX"}
          THEN {"kind"} ELSE {})

FundingTerms(venue, adapter) ==
    IF adapter # "ccxt" /\ venue \in {"BINANCE", "BYBIT", "BINGX", "HTX", "KRAKEN", "XT"}
    THEN Directed ELSE {}

Identities(metric, venue, adapter) ==
    IF adapter = "ccxt" /\ ~(metric = "open_interest" /\ venue = "COINBASE") THEN Symbol
    ELSE CASE venue = "COINBASE" -> {"catalog_instrument"}
           [] venue = "BITFINEX" -> StatusInstrument
           [] venue = "GATE" -> Symbol \cup {"settlement_asset"}
           [] venue = "HYPERLIQUID" -> {"rpc_instrument"}
           [] OTHER -> Symbol

\* Binance routes the history of inverse contracts by pair and contract type.
HistoryIdentities(metric, venue, ref) ==
    IF metric = "open_interest" /\ venue = "BINANCE" /\ Direction(ref.terms) = "inverse"
    THEN {"pair"} \cup (IF KindOf(ref) = "future" THEN {"product_family"} ELSE {})
    ELSE {}

FetchReads(metric, venue, adapter, req) ==
    Reads(Identities(metric, venue, adapter)
              \cup (IF req.history THEN HistoryIdentities(metric, venue, req.reference) ELSE {}),
          IF venue = "HYPERLIQUID" THEN {"rpc_product_family"} ELSE {},
          IF metric = "funding" THEN FundingTerms(venue, adapter)
          ELSE InterestTerms(venue, adapter, Direction(req.reference.terms)))

-----------------------------------------------------------------------------
TypeOK ==
    /\ client \in Clients /\ runtime \in Runtimes
    /\ \A c \in Callers :
           \/ calls[c] = Idle
           \/ /\ calls[c].stage \in {"probing", "fetching"}
              /\ calls[c].request \in client.asks[c]
    /\ \A key \in DOMAIN features :
           /\ key[2] \in DOMAIN client.natives \cup ExchangeIds
           /\ features[key] \subseteq Features
    /\ closed \in BOOLEAN
    /\ \A i \in DOMAIN unclosed :
           unclosed[i] \in Natives(client) \cup {"ccxt", "transport"}
    /\ unclosed # <<>> => closed

Init ==
    /\ client \in Clients /\ runtime \in Runtimes
    /\ calls = [c \in Callers |-> Idle]
    /\ features = <<>>
    /\ closed = FALSE
    /\ unclosed = <<>> /\ shut = <<>>

-----------------------------------------------------------------------------
(* Faulty variants: one for each property but AdmittedServed, which         *)
(* Preflight's covers.                                                     *)

\* An adapter that is also the fallback is not recognised.
FallbackAgain(k) ==
    SetToSeq(Natives(k)) \o (IF k.fallback = None THEN <<>> ELSE <<k.fallback>>)
\* Features of one venue are taken for those of all.
AdapterOnly(adapter, venue) == <<adapter, "COINBASE">>
\* A later assessment does not notice close().
NeverRechecks(req) == FALSE
\* The probe is remembered for no venue.
ProbeMislabelled(adapter, venue) == <<adapter, adapter>>

-----------------------------------------------------------------------------
(* Selection and assessment.                                               *)

\* _select()
Selected(venue, ref) ==
    IF venue \in DOMAIN client.natives /\ Supports(client.natives[venue], venue, ref)
    THEN client.natives[venue]
    ELSE IF client.fallback # None /\ Supports(client.fallback, venue, ref)
    THEN client.fallback ELSE None

\* The key of _runtime_feature_cache
CacheKey(adapter, venue) == <<adapter, venue>>

Remembered(key, found) ==
    [k \in DOMAIN features \cup {key} |-> IF k = key THEN found ELSE features[k]]

Target(kind, mode) == [kind |-> kind, mode |-> mode]

\* The current datapoints, one of which fetch_reference() must find supported.
CurrentTargets(metric) ==
    IF metric = "open_interest" THEN {Target("notional", "current")}
    ELSE {Target("indicative", "current"), Target("next", "next"), Target("settled", "settled")}

HistoryTarget(metric) ==
    Target(IF metric = "open_interest" THEN "notional" ELSE "settled", "historical")

\* assess_runtime(): no market observation is checked.
Assessed(req, target, found) ==
    IF req.venue \in DOMAIN BuiltinManifests
    THEN Assess(BuiltinManifests[req.venue], req.reference, target, Observations, found)
    ELSE Assessment("adapter_unavailable", {}, {})

\* fetch_reference(): a current datapoint is supported and, when history is asked
\* for, its identities are not what is missing.
Admits(req, found) ==
    /\ \E t \in CurrentTargets(client.metric) : Assessed(req, t, found).status = "supported"
    /\ req.history =>
           \A i \in Assessed(req, HistoryTarget(client.metric), found).issues :
               i[1] \notin IdentityCodes

\* Only the first assessment of a call waits; the others ask _closed again.
Rechecks(req) == Cardinality(CurrentTargets(client.metric)) > 1 \/ req.history

\* All that a call does once it knows the features: fetch, or end.
Concluded(req, found) ==
    IF /\ req.op = "reference"
       /\ Admits(req, found)
       /\ ~(closed /\ Rechecks(req))
    THEN Waiting("fetching", req) ELSE Idle

-----------------------------------------------------------------------------
(* Calls.                                                                  *)

\* fetch() with a legacy Instrument: no preflight.
CallFetch(c) ==
    /\ calls[c] = Idle /\ ~closed
    /\ \E req \in client.asks[c] :
           /\ req.op = "fetch"
           /\ Selected(req.venue, req.reference) # None
           /\ calls' = [calls EXCEPT ![c] = Waiting("fetching", req)]
    /\ UNCHANGED <<client, runtime, features, closed, unclosed, shut>>

\* fetch_reference() and plan_reference() when the features are known, or when
\* the adapter has no probe and proves nothing.
CallKnown(c) ==
    /\ calls[c] = Idle /\ ~closed
    /\ \E req \in client.asks[c] :
           LET adapter == Selected(req.venue, req.reference)
               key     == CacheKey(adapter, req.venue)
               found   == IF key \in DOMAIN features THEN features[key] ELSE {}
           IN /\ req.op # "fetch" /\ adapter # None
              /\ key \in DOMAIN features \/ ~HasProbe(adapter)
              /\ calls' = [calls EXCEPT ![c] = Concluded(req, found)]
              /\ features' = Remembered(key, found)
    /\ UNCHANGED <<client, runtime, closed, unclosed, shut>>

CallProbes(c) ==
    /\ calls[c] = Idle /\ ~closed
    /\ \E req \in client.asks[c] :
           LET adapter == Selected(req.venue, req.reference) IN
           /\ req.op # "fetch" /\ adapter # None
           /\ HasProbe(adapter) /\ CacheKey(adapter, req.venue) \notin DOMAIN features
           /\ calls' = [calls EXCEPT ![c] = Waiting("probing", req)]
    /\ UNCHANGED <<client, runtime, features, closed, unclosed, shut>>

\* runtime_features() resumes, perhaps after close() emptied the cache.
ProbeReturns(c) ==
    /\ calls[c].stage = "probing"
    /\ LET req     == calls[c].request
           adapter == Selected(req.venue, req.reference)
           found   == Proven(adapter, req.venue)
       IN /\ features' = Remembered(CacheKey(adapter, req.venue), found)
          /\ calls' = [calls EXCEPT ![c] = Concluded(req, found)]
    /\ UNCHANGED <<client, runtime, closed, unclosed, shut>>

\* The probe raises or the caller is cancelled: nothing is remembered.
ProbeFails(c) ==
    /\ calls[c].stage = "probing"
    /\ calls' = [calls EXCEPT ![c] = Idle]
    /\ UNCHANGED <<client, runtime, features, closed, unclosed, shut>>

\* The adapter's fetch() returns, raises or is cancelled.
FetchEnds(c) ==
    /\ calls[c].stage = "fetching"
    /\ calls' = [calls EXCEPT ![c] = Idle]
    /\ UNCHANGED <<client, runtime, features, closed, unclosed, shut>>

-----------------------------------------------------------------------------
(* close().                                                                *)

\* Every adapter once: the native ones, then the fallback.
DistinctAdapters(k) ==
    SetToSeq(Natives(k))
        \o (IF k.fallback \in Natives(k) \cup {None} THEN <<>> ELSE <<k.fallback>>)

\* An owned transport comes after its users.
ClosingOrder(k) == DistinctAdapters(k) \o (IF k.owned THEN <<"transport">> ELSE <<>>)

Close ==
    /\ ~closed
    /\ closed' = TRUE
    /\ features' = <<>>
    /\ unclosed' = ClosingOrder(client)
    /\ UNCHANGED <<client, runtime, calls, shut>>

CloseNext ==
    /\ unclosed # <<>>
    /\ shut' = Append(shut, Head(unclosed))
    /\ unclosed' = Tail(unclosed)
    /\ UNCHANGED <<client, runtime, calls, features, closed>>

\* An adapter's close() raises, or close() is cancelled: the rest stays open, and
\* the next close() returns at once.
CloseFails ==
    /\ unclosed # <<>>
    /\ unclosed' = <<>>
    /\ UNCHANGED <<client, runtime, calls, features, closed, shut>>

Next ==
    \/ \E c \in Callers :
           CallFetch(c) \/ CallKnown(c) \/ CallProbes(c)
               \/ ProbeReturns(c) \/ ProbeFails(c) \/ FetchEnds(c)
    \/ Close \/ CloseNext \/ CloseFails

Spec == Init /\ [][Next]_vars

-----------------------------------------------------------------------------
(* Properties                                                              *)

\* Requests that preflight admitted and whose adapter is at work.
Admitted == {calls[c].request : c \in {d \in Callers :
                calls[d].stage = "fetching" /\ calls[d].request.op = "reference"}}

\* What adapters may read and no manifest declares: the optional adapter's contract
\* value (manifests.py:1617,1649 against ccxt.py:171-177, and :309 for Coinbase),
\* HTX's for linear contracts (_common.py:308-311), and Hyperliquid's optional
\* perpetual scope, which must not be ambiguous.
Undeclared(venue, adapter, direction) ==
    Reads({},
          IF venue = "HYPERLIQUID" THEN {"rpc_product_family"} ELSE {},
          IF adapter = "ccxt" \/ (venue = "HTX" /\ direction = "linear")
          THEN {"amount"} ELSE {})

Carries(ref, reads) ==
    /\ reads.unique \subseteq ref.unique
    /\ reads.optional \cap ref.ambiguous = {}
    /\ reads.terms \subseteq DOMAIN ref.terms

ReadsFor(req) ==
    FetchReads(client.metric, req.venue, Selected(req.venue, req.reference), req)

UndeclaredFor(req) ==
    Undeclared(req.venue, Selected(req.venue, req.reference), Direction(req.reference.terms))

\* A reference that preflight admits carries every identity and term that the
\* selected adapter may read of it and that is not listed as undeclared above: no
\* other identity is missing or ambiguous, no direction or kind unknown, no other
\* contract value missing.  Manifests and adapters are written apart and agree by
\* nothing but care (manifests.py against adapters/native/*.py, funding.py, ccxt.py).
AdmittedServed ==
    \A req \in Admitted :
        LET reads == ReadsFor(req)
            other == UndeclaredFor(req)
        IN  Carries(req.reference, Reads(reads.unique, reads.optional \ other.optional,
                                         reads.terms \ other.terms))

\* README.md:57-59: the clients "assess runtime support and return structured metadata
\* or identity gaps before acquisition", so that an admitted reference has none.
AdmittedComplete ==
    \A req \in Admitted : Carries(req.reference, ReadsFor(req))

\* Preflight relies on the features of the runtime that will serve the call: an
\* admitted request is admitted by what its own adapter proves for its own venue,
\* whatever the cache held and whoever probed
\* (client.py:98-112, funding_client.py:102-116).
FetchProven ==
    \A req \in Admitted :
        LET adapter == Selected(req.venue, req.reference) IN
        /\ adapter # None
        /\ Admits(req, Proven(adapter, req.venue))

\* After close() one kind of call still reaches its adapter, which is then closed
\* or being closed: an open-interest reference fetch without history whose probe
\* was in flight.  Every other call asks _closed again before it fetches
\* (client.py:98-99, 172-197).
LateFetches ==
    [][\A c \in Callers :
          closed /\ calls[c].stage # "fetching" /\ calls'[c].stage = "fetching"
          => /\ calls[c].stage = "probing"
             /\ client.metric = "open_interest" /\ ~calls[c].request.history]_vars

\* close() closes nothing twice although one adapter may serve several venues and
\* be the fallback too, and an owned transport is closed last, when all adapters
\* that use it are (client.py:251-257).
ClosedInOrder ==
    /\ IsInjective(shut)
    /\ "transport" \in Range(shut) =>
           /\ shut[Len(shut)] = "transport"
           /\ Natives(client) \cup {client.fallback} \subseteq Range(shut) \cup {None}

=============================================================================
