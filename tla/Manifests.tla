------------------------------ MODULE Manifests ------------------------------
(***************************************************************************)
(* What the library declares it can acquire                                *)
(* (src/perp_md/adapters/manifests.py): for every provider its product     *)
(* mappings, and for every mapping which datapoints its adapter serves,    *)
(* from which identities, contract terms, market observations and runtime  *)
(* features.  Names, lineage and limitations decide no assessment and are  *)
(* left out.  The mappings of a manifest stand in the order of their       *)
(* mapping_id, which breaks ties between alternatives.                     *)
(***************************************************************************)
EXTENDS Integers, Sequences

Symbol           == {"instrument"}
StatusInstrument == {"status_instrument"}
ContractValue    == {"amount"}

Shape(scope, history, paging) == [scope |-> scope, history |-> history, paging |-> paging]

Current           == Shape("instrument", "none", "none")
AggregateCurrent  == Shape("aggregate", "none", "none")
BoundedHistory    == Shape("instrument", "bounded", "time_cursor")
BoundedSinglePage == Shape("instrument", "bounded", "single_page")
BoundedPageNumber == Shape("instrument", "bounded", "page_number")
SinglePageHistory == Shape("instrument", "latest_window", "single_page")
FullHistory       == Shape("instrument", "full_retained", "full_download")
RuntimeCurrent    == Shape("instrument", "none", "runtime_defined")
RuntimeHistory    == Shape("instrument", "bounded", "runtime_defined")

IfLinear(direction, S) == IF direction = "linear" THEN S ELSE {}
IfInverse(direction, S) == IF direction = "inverse" THEN S ELSE {}
IfPerpetual(kind, S) == IF kind = "perpetual" THEN S ELSE {}

-----------------------------------------------------------------------------
(* Capabilities and mappings.                                              *)

Scenario(direction, kind) ==
    [kind       |-> kind,
     unit       |-> IF direction = "linear" THEN "base" ELSE "quote",
     settlement |-> IF direction = "linear" THEN "quote" ELSE "base"]

Mapping(direction, kind, capabilities) ==
    [scenario |-> Scenario(direction, kind), capabilities |-> capabilities]

Capability(kind, mode, shape) ==
    [kind |-> kind, mode |-> mode, shape |-> shape, state |-> "supported",
     identities |-> Symbol, terms |-> {}, observations |-> {}, features |-> {}]

NamedBy(identities, S) == {[c EXCEPT !.identities = identities] : c \in S}
Sized(S)               == {[c EXCEPT !.terms = ContractValue] : c \in S}
Observing(names, S)    == {[c EXCEPT !.observations = names] : c \in S}
NeedsRuntime(names, S) ==
    {[c EXCEPT !.features = names, !.state = "conditional"] : c \in S}

NativeCount(mode, shape)   == {Capability("contract_count", mode, shape)}
NativeBase(mode, shape)    == {Capability("base_quantity", mode, shape)}
ConvertedBase(mode, shape) == Sized(NativeBase(mode, shape))
Notional(mode, shape)      == {Capability("notional", mode, shape)}
\* Notional of a linear contract from a quantity and a mark.
AtMark(direction, mark, S) == Observing(IfLinear(direction, mark), S)
Valued(mode)   == IF mode = "current" THEN {"mark_price"} ELSE {"mark_price_at_bucket"}

Funding(kind, mode, shape) == {Capability(kind, mode, shape)}
Indicative(shape) == Funding("indicative", "current", shape)
NextRate(shape)   == Funding("next", "next", shape)
Settled(shape)    == Funding("settled", "historical", shape)
Interval(shape)   == Funding("interval", "current", shape)

-----------------------------------------------------------------------------
(* Native product families.                                                *)

Binance(direction) ==
    LET history == Symbol \cup IfInverse(direction, {"pair"})
        value(S) == IF direction = "inverse" THEN Sized(S) ELSE S
        quantity(mode, shape) ==
            IF direction = "linear" THEN NativeBase(mode, shape) ELSE NativeCount(mode, shape)
    IN Mapping(direction, "perpetual",
           quantity("current", Current)
           \cup NamedBy(history, quantity("historical", BoundedHistory))
           \cup AtMark(direction, {"mark_price"}, value(Notional("current", Current)))
           \cup NamedBy(history, value(Notional("historical", BoundedHistory)))
           \cup Indicative(Current) \cup Settled(BoundedHistory)
           \cup IfLinear(direction, Interval(Current)))

BinanceFuture(direction) ==
    LET history == Symbol \cup IfInverse(direction, {"pair", "product_family"})
        value(S) == IF direction = "inverse" THEN Sized(S) ELSE S
        quantity(mode, shape) ==
            IF direction = "linear" THEN NativeBase(mode, shape) ELSE NativeCount(mode, shape)
    IN Mapping(direction, "future",
           quantity("current", Current)
           \cup AtMark(direction, {"mark_price"}, value(Notional("current", Current)))
           \cup NamedBy(history, quantity("historical", BoundedHistory)
                                 \cup value(Notional("historical", BoundedHistory))))

Bybit(direction, kind) ==
    Mapping(direction, kind,
        IfLinear(direction, NativeBase("current", Current)
                          \cup NativeBase("historical", BoundedHistory))
        \cup Notional("current", Current)
        \cup AtMark(direction, {"mark_price_at_bucket"}, Notional("historical", BoundedHistory))
        \cup IfPerpetual(kind, Indicative(Current) \cup Settled(BoundedSinglePage)
                             \cup Interval(Current)))

\* Gate's endpoints are routed by the settlement asset.
GateRouted(S) == NamedBy(Symbol \cup {"settlement_asset"}, S)

Gate(direction) ==
    LET value(S) == IF direction = "inverse" THEN Sized(S) ELSE S IN
    Mapping(direction, "perpetual", GateRouted(
        NativeCount("current", Current) \cup NativeCount("historical", BoundedHistory)
        \cup IfLinear(direction, NativeBase("current", Current)
                \cup Observing({"mark_price_at_bucket"},
                               NativeBase("historical", BoundedHistory)))
        \cup AtMark(direction, {"mark_price"}, value(Notional("current", Current)))
        \cup Notional("historical", BoundedHistory)
        \cup Indicative(Current) \cup Settled(BoundedSinglePage) \cup Interval(Current)))

GateFuture ==
    Mapping("linear", "future", GateRouted(
        NativeCount("current", Current) \cup NativeBase("current", Current)
        \cup Observing({"mark_price"}, Notional("current", Current))))

Bitfinex(direction) ==
    LET value(mode, shape) ==
            AtMark(direction, Valued(mode), Sized(Notional(mode, shape)))
    IN Mapping(direction, "perpetual", NamedBy(StatusInstrument,
           NativeCount("current", AggregateCurrent)
           \cup IfLinear(direction, ConvertedBase("current", AggregateCurrent))
           \cup value("current", AggregateCurrent)
           \cup NativeCount("historical", BoundedHistory)
           \cup value("historical", BoundedHistory)
           \cup Indicative(Current) \cup Interval(Current)))

\* Families whose open interest is a count of contracts.
ContractCounts(direction, mode, shape) ==
    NativeCount(mode, shape)
        \cup IfLinear(direction, ConvertedBase(mode, shape))
        \cup AtMark(direction, Valued(mode), Sized(Notional(mode, shape)))

NativeContractFamily(direction) ==
    Mapping(direction, "perpetual",
        ContractCounts(direction, "current", Current)
        \cup ContractCounts(direction, "historical", BoundedHistory)
        \cup Indicative(Current) \cup Settled(BoundedHistory) \cup Interval(Current))

NativeDatedContractFamily(direction) ==
    Mapping(direction, "future",
        ContractCounts(direction, "current", Current)
        \cup ContractCounts(direction, "historical", BoundedHistory))

\* Families with a snapshot of open interest only.
CurrentQuantity(direction, unit) ==
    CASE unit = "base"  -> NativeBase("current", Current)
                           \cup Observing({"mark_price"}, Notional("current", Current))
      [] unit = "quote" -> Observing({"mark_price"}, NativeBase("current", Current))
                           \cup Notional("current", Current)
      [] OTHER          -> ContractCounts(direction, "current", Current)

NativeCurrentFamily(direction, unit, funding) ==
    Mapping(direction, "perpetual", CurrentQuantity(direction, unit) \cup funding)

\* funding_kind and funding_history
NativeFunding(rate, history) == rate \cup history \cup Interval(Current)
\* ccxt_funding: declared supported, with a runtime feature
RuntimeFunding ==
    {[c EXCEPT !.features = {"funding"}] : c \in Indicative(RuntimeCurrent)}
    \cup {[c EXCEPT !.features = {"funding_history"}] : c \in Settled(RuntimeHistory)}

Htx(direction) ==
    LET value(S) == IF direction = "inverse" THEN Sized(S) ELSE S
        both(S(_, _)) == S("current", Current) \cup S("historical", SinglePageHistory)
    IN Mapping(direction, "perpetual",
           both(NativeCount) \cup IfLinear(direction, both(NativeBase))
           \cup value(both(Notional))
           \cup NextRate(Current) \cup Settled(FullHistory))

HtxFuture(direction) ==
    LET value(S) == IF direction = "inverse" THEN Sized(S) ELSE S IN
    Mapping(direction, "future",
        NativeCount("current", Current) \cup NativeCount("historical", SinglePageHistory)
        \cup IfLinear(direction, NativeBase("current", Current)
                               \cup ConvertedBase("historical", SinglePageHistory))
        \cup value(Notional("current", Current) \cup Notional("historical", SinglePageHistory)))

Btse(kind) ==
    Mapping("linear", kind,
        ContractCounts("linear", "current", Current)
        \cup IfPerpetual(kind, NextRate(Current) \cup Settled(BoundedSinglePage)
                             \cup Interval(Current)))

Okx(direction, kind) ==
    Mapping(direction, kind,
        NativeCount("current", Current)
        \cup NativeBase("current", Current) \cup NativeBase("historical", BoundedHistory)
        \cup Notional("current", Current) \cup Notional("historical", BoundedHistory)
        \cup IfPerpetual(kind, Indicative(Current) \cup Settled(SinglePageHistory)
                             \cup Interval(Current)))

Hyperliquid(scoped) ==
    LET names == {"rpc_instrument"} \cup (IF scoped THEN {"rpc_product_family"} ELSE {}) IN
    Mapping("linear", "perpetual",
        NamedBy(names, NativeBase("current", AggregateCurrent)
            \cup Observing({"mark_price"}, Notional("current", AggregateCurrent)))
        \cup NamedBy({"rpc_instrument"},
                Funding("settled", "settled", BoundedSinglePage)
                \cup Settled(BoundedSinglePage)))

Mexc(direction) ==
    Mapping(direction, "perpetual",
        NativeCount("current", AggregateCurrent)
        \cup IfLinear(direction, ConvertedBase("current", AggregateCurrent))
        \cup AtMark(direction, {"fair_price"}, Sized(Notional("current", AggregateCurrent)))
        \cup NextRate(Current) \cup Settled(BoundedPageNumber) \cup Interval(Current))

KrakenInterest(direction) ==
    LET quantity(mode, shape) ==
            IF direction = "linear" THEN NativeBase(mode, shape) ELSE NativeCount(mode, shape)
        value(S) == IF direction = "inverse" THEN Sized(S) ELSE S
        both(mode, shape) ==
            quantity(mode, shape)
                \cup AtMark(direction, Valued(mode), value(Notional(mode, shape)))
    IN both("current", AggregateCurrent) \cup both("historical", BoundedHistory)

Kraken(direction) ==
    Mapping(direction, "perpetual",
        KrakenInterest(direction)
        \cup Observing({"mark_price"}, Indicative(AggregateCurrent))
        \cup Settled(FullHistory))

KrakenFuture(direction) == Mapping(direction, "future", KrakenInterest(direction))

Xt ==
    Mapping("linear", "perpetual",
        Notional("current", Current) \cup NativeBase("current", Current)
        \cup NextRate(Current) \cup Settled(BoundedHistory) \cup Interval(Current))

-----------------------------------------------------------------------------
(* Families of the optional provider runtime.                              *)

OptionalFunding ==
    NeedsRuntime({"funding"}, Indicative(RuntimeCurrent) \cup Interval(RuntimeCurrent))
    \cup NeedsRuntime({"funding_history"}, Settled(RuntimeHistory))

\* COINBASE has an endpoint of its own; WEEX has no usable open interest.
OptionalInterest(provider, direction, kind) ==
    LET names   == IF provider = "COINBASE" THEN {"catalog_instrument"} ELSE Symbol
        feature == IF provider = "COINBASE" THEN {"specialized_catalog"} ELSE {"open_interest"}
        current == NativeCount("current", RuntimeCurrent)
                       \cup IfLinear(direction, ConvertedBase("current", RuntimeCurrent))
                       \cup Notional("current", RuntimeCurrent)
        history == IfPerpetual(kind, Notional("historical", RuntimeHistory))
    IN IF provider = "WEEX" THEN {}
       ELSE NamedBy(names, NeedsRuntime(feature, current))
            \cup (IF provider = "COINBASE" THEN {}
                  ELSE NeedsRuntime({"open_interest_history"}, history))

Optional(provider, direction, kind) ==
    Mapping(direction, kind,
        OptionalInterest(provider, direction, kind) \cup IfPerpetual(kind, OptionalFunding))

CcxtFunding(direction) == Mapping(direction, "perpetual", OptionalFunding)

-----------------------------------------------------------------------------
(* BUILTIN_ADAPTER_MANIFESTS                                               *)

BuiltinManifests ==
    [BINANCE |-> <<BinanceFuture("inverse"), Binance("inverse"),
                   BinanceFuture("linear"), Binance("linear")>>,
     BINGX |-> <<NativeCurrentFamily("inverse", "base", NativeFunding(Indicative(Current), {})),
                 NativeCurrentFamily("linear", "quote",
                     NativeFunding(Indicative(Current), Settled(BoundedSinglePage)))>>,
     BYBIT |-> <<Bybit("inverse", "future"), Bybit("inverse", "perpetual"),
                 Bybit("linear", "future"), Bybit("linear", "perpetual")>>,
     GATE |-> <<Gate("inverse"), GateFuture, Gate("linear")>>,
     BITFINEX |-> <<Bitfinex("inverse"), Bitfinex("linear")>>,
     DEEPCOIN |-> <<NativeContractFamily("inverse"), NativeContractFamily("linear")>>,
     KUCOIN |-> <<NativeDatedContractFamily("inverse"),
                  NativeContractFamily("inverse"), NativeContractFamily("linear")>>,
     HTX |-> <<HtxFuture("inverse"), Htx("inverse"), HtxFuture("linear"), Htx("linear")>>,
     TOOBIT |-> <<NativeCurrentFamily("linear", "base",
                     NativeFunding(NextRate(Current), Settled(BoundedHistory)))>>,
     PHEMEX |-> <<NativeCurrentFamily("inverse", "contracts", RuntimeFunding),
                  NativeCurrentFamily("linear", "base", RuntimeFunding)>>,
     GRVT |-> <<NativeCurrentFamily("linear", "base",
                   NativeFunding(Indicative(Current), Settled(BoundedHistory)))>>,
     LIGHTER |-> <<NativeCurrentFamily("linear", "base",
                      NativeFunding(Indicative(Current), Settled(BoundedSinglePage)))>>,
     BTSE |-> <<Btse("future"), Btse("perpetual")>>,
     OKX |-> <<Okx("inverse", "future"), Okx("linear", "future"),
               Okx("inverse", "perpetual"), Okx("linear", "perpetual")>>,
     HYPERLIQUID |-> <<Hyperliquid(TRUE), Hyperliquid(FALSE)>>,
     MEXC |-> <<Mexc("inverse"), Mexc("linear")>>,
     KRAKEN |-> <<KrakenFuture("linear"), Kraken("linear"),
                  KrakenFuture("inverse"), Kraken("inverse")>>,
     ASTER |-> <<CcxtFunding("linear")>>,
     DIGIFINEX |-> <<CcxtFunding("inverse"), CcxtFunding("linear")>>,
     XT |-> <<Xt>>,
     WHITEBIT |-> <<CcxtFunding("linear"), CcxtFunding("linear")>>,
     CRYPTOCOM |-> <<CcxtFunding("linear")>>,
     BLOFIN |-> <<CcxtFunding("linear")>>,
     BITGET |-> <<Optional("BITGET", "inverse", "future"), Optional("BITGET", "inverse", "perpetual"),
                  Optional("BITGET", "linear", "perpetual"), Optional("BITGET", "linear", "perpetual")>>,
     BITMART |-> <<Optional("BITMART", "inverse", "perpetual"),
                   Optional("BITMART", "linear", "perpetual"),
                   Optional("BITMART", "linear", "perpetual")>>,
     COINBASE |-> <<Optional("COINBASE", "linear", "perpetual")>>,
     DERIBIT |-> <<Optional("DERIBIT", "linear", "future"), Optional("DERIBIT", "linear", "perpetual"),
                   Optional("DERIBIT", "inverse", "future"), Optional("DERIBIT", "inverse", "perpetual")>>,
     WEEX |-> <<Optional("WEEX", "linear", "perpetual")>>]

=============================================================================
