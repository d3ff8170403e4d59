----------------------------- MODULE ClientProofs -----------------------------
(***************************************************************************)
(* Theorems about the open-interest and funding clients.  What the client  *)
(* remembers of an adapter is what the adapter proves; that, and that the  *)
(* client closes along one order from its start, are the inductive         *)
(* invariants.  What manifests declare is what adapters read: that is a    *)
(* comparison of their tables, family by family.                           *)
(***************************************************************************)
EXTENDS Client, PreflightProofs, FiniteSetTheorems, SequenceTheorems, TLAPS

-----------------------------------------------------------------------------
(* What is remembered and what is fetched.                                 *)

\* Calls wait for something they asked for, and only through an adapter.
CallsValid ==
    \A c \in Callers :
        \/ calls[c] = Idle
        \/ /\ calls[c].stage \in {"probing", "fetching"}
           /\ calls[c].request \in client.asks[c]
           /\ Selected(calls[c].request.venue, calls[c].request.reference) # None

\* Every entry of the cache is for an adapter that serves its venue, and is what
\* this adapter proves for this venue.
CacheProven ==
    \A key \in DOMAIN features :
        /\ key[2] \in DOMAIN client.natives \cup ExchangeIds
        /\ features[key] = Proven(key[1], key[2])

AdmittedProven ==
    \A c \in Callers :
        calls[c].stage = "fetching" /\ calls[c].request.op = "reference" =>
            LET req == calls[c].request
            IN  Admits(req, Proven(Selected(req.venue, req.reference), req.venue))

ClientInv ==
    /\ client \in Clients /\ runtime \in Runtimes
    /\ calls = [c \in Callers |-> calls[c]]
    /\ closed \in BOOLEAN
    /\ CallsValid
    /\ CacheProven
    /\ AdmittedProven

\* An adapter is selected only for venues it serves.
LEMMA SelectedServes ==
    ASSUME client \in Clients, NEW venue, NEW ref, Selected(venue, ref) # None
    PROVE  venue \in DOMAIN client.natives \cup ExchangeIds
<1>1. client.fallback \in {"ccxt", None}
  BY ClientsAssumption
<1>2. CASE venue \in DOMAIN client.natives
  BY <1>2
<1>3. CASE venue \notin DOMAIN client.natives
  BY <1>1, <1>3 DEF Selected, Supports
<1>4. QED  BY <1>2, <1>3

\* What an adapter proves are features.
LEMMA ProvenAreFeatures ==
    ASSUME NEW adapter, NEW venue
    PROVE  Proven(adapter, venue) \subseteq Features
  BY DEF Proven, MetricFeatures, Features

\* Without a probe nothing is proved.
LEMMA NothingWithoutProbe ==
    ASSUME NEW adapter, NEW venue, ~HasProbe(adapter)
    PROVE  Proven(adapter, venue) = {}
  BY DEF Proven

\* Remembering what an adapter proves keeps the cache true.
LEMMA RememberProven ==
    ASSUME CacheProven, NEW adapter, NEW venue,
           venue \in DOMAIN client.natives \cup ExchangeIds,
           UNCHANGED <<client, runtime>>,
           features' = Remembered(CacheKey(adapter, venue), Proven(adapter, venue))
    PROVE  CacheProven'
<1> DEFINE key == <<adapter, venue>>
<1>1. features' = [k \in DOMAIN features \cup {key} |->
                       IF k = key THEN Proven(adapter, venue) ELSE features[k]]
  BY Zenon DEF Remembered, CacheKey
<1>2. key[1] = adapter /\ key[2] = venue
  OBVIOUS
<1>3. ASSUME NEW k \in DOMAIN features'
      PROVE  /\ k[2] \in DOMAIN client.natives \cup ExchangeIds
             /\ features'[k] = Proven(k[1], k[2])
  <2>1. CASE k = key
    BY <1>1, <1>2, <2>1, Zenon
  <2>2. CASE k # key
    <3>1. k \in DOMAIN features /\ features'[k] = features[k]
      BY <1>1, <1>3, <2>2, Zenon
    <3>2. QED  BY <3>1, Zenon DEF CacheProven
  <2>3. QED  BY <2>1, <2>2
<1>4. QED
  BY <1>3 DEF CacheProven, Proven

\* What is kept of the client's adapters when neither they nor the runtime change.
LEMMA SameAdapters ==
    ASSUME UNCHANGED <<client, runtime>>
    PROVE  /\ \A r, f : Admits(r, f)' <=> Admits(r, f)
           /\ \A a, v : Proven(a, v)' = Proven(a, v)
           /\ \A v, ref : Selected(v, ref)' = Selected(v, ref)
  BY DEF Admits, Proven, Selected, Supports

\* A call that goes on to fetch does so with what its own adapter proves.
LEMMA ConcludeProven ==
    ASSUME ClientInv, NEW c \in Callers, NEW req \in client.asks[c],
           Selected(req.venue, req.reference) # None,
           UNCHANGED <<client, runtime>>,
           calls' = [calls EXCEPT ![c] =
               Concluded(req, Proven(Selected(req.venue, req.reference), req.venue))]
    PROVE  /\ calls' = [d \in Callers |-> calls'[d]]
           /\ CallsValid' /\ AdmittedProven'
<1> DEFINE found == Proven(Selected(req.venue, req.reference), req.venue)
<1>1. \/ Concluded(req, found) = Idle
      \/ Concluded(req, found) = Waiting("fetching", req) /\ Admits(req, found)
  BY Zenon DEF Concluded
<1>2. calls'[c] = Concluded(req, found) /\ \A d \in Callers \ {c} : calls'[d] = calls[d]
  BY DEF ClientInv
<1>3. Idle.stage = "idle" /\ Waiting("fetching", req).stage = "fetching"
         /\ Waiting("fetching", req).request = req
  BY DEF Idle, Waiting
<1>4. calls' = [d \in Callers |-> calls'[d]]
  BY DEF ClientInv
<1>5. CallsValid'
  <2> HIDE DEF found
  <2>1. ASSUME NEW d \in Callers
        PROVE  \/ calls'[d] = Idle
               \/ /\ calls'[d].stage \in {"probing", "fetching"}
                  /\ calls'[d].request \in client.asks[d]
                  /\ Selected(calls'[d].request.venue, calls'[d].request.reference) # None
    BY <1>1, <1>2, <1>3 DEF ClientInv, CallsValid
  <2>2. QED  BY <2>1 DEF CallsValid, Selected, Supports
<1>6. AdmittedProven'
  <2>1. ASSUME NEW d \in Callers,
               calls'[d].stage = "fetching", calls'[d].request.op = "reference"
        PROVE  LET r == calls'[d].request
               IN  Admits(r, Proven(Selected(r.venue, r.reference), r.venue))
    <3>1. CASE d = c
      BY <1>1, <1>2, <1>3, <2>1, <3>1
    <3>2. CASE d # c
      BY <1>2, <2>1, <3>2 DEF ClientInv, AdmittedProven
    <3>3. QED  BY <3>1, <3>2
  <2>2. /\ \A r, f : Admits(r, f)' <=> Admits(r, f)
        /\ \A a, v : Proven(a, v)' = Proven(a, v)
        /\ \A v, ref : Selected(v, ref)' = Selected(v, ref)
    BY SameAdapters
  <2>3. QED
    BY <2>1, <2>2, Zenon DEF AdmittedProven
<1>7. QED  BY <1>4, <1>5, <1>6

-----------------------------------------------------------------------------
(* The steps.                                                              *)

LEMMA ClientInvInit ==
    ASSUME Init  PROVE ClientInv
<1>1. \A c \in Callers : calls[c] = Idle /\ calls[c].stage = "idle"
  BY DEF Init, Idle
<1>2. CallsValid /\ AdmittedProven
  BY <1>1 DEF CallsValid, AdmittedProven
<1>3. CacheProven
  BY DEF Init, CacheProven
<1>4. QED
  BY <1>2, <1>3 DEF Init, ClientInv

\* Fields of a waiting call.
LEMMA WaitingFields ==
    ASSUME NEW stage, NEW req
    PROVE  Waiting(stage, req).stage = stage /\ Waiting(stage, req).request = req
  BY DEF Waiting

\* A call that does not begin to fetch a reference keeps the calls in order.
LEMMA CallSteps ==
    ASSUME ClientInv, NEW c \in Callers, NEW call,
           \/ call = Idle
           \/ /\ call.stage \in {"probing", "fetching"}
              /\ call.request \in client.asks[c]
              /\ Selected(call.request.venue, call.request.reference) # None
              /\ ~ (call.stage = "fetching" /\ call.request.op = "reference"),
           UNCHANGED <<client, runtime>>, calls' = [calls EXCEPT ![c] = call]
    PROVE  /\ calls' = [d \in Callers |-> calls'[d]]
           /\ CallsValid' /\ AdmittedProven'
<1>1. calls' = [d \in Callers |-> calls'[d]]
  BY DEF ClientInv
<1>2. calls'[c] = call /\ \A d \in Callers \ {c} : calls'[d] = calls[d]
  BY DEF ClientInv
<1>3. Idle.stage = "idle"
  BY DEF Idle
<1>4. CallsValid'
  <2>1. ASSUME NEW d \in Callers
        PROVE  \/ calls'[d] = Idle
               \/ /\ calls'[d].stage \in {"probing", "fetching"}
                  /\ calls'[d].request \in client.asks[d]
                  /\ Selected(calls'[d].request.venue, calls'[d].request.reference) # None
    BY <1>2 DEF ClientInv, CallsValid
  <2>2. QED  BY <2>1, SameAdapters DEF CallsValid
<1>5. AdmittedProven'
  <2>1. ASSUME NEW d \in Callers,
               calls'[d].stage = "fetching", calls'[d].request.op = "reference"
        PROVE  LET r == calls'[d].request
               IN  Admits(r, Proven(Selected(r.venue, r.reference), r.venue))
    <3>1. d # c
      BY <1>2, <1>3, <2>1
    <3>2. QED  BY <1>2, <2>1, <3>1 DEF ClientInv, AdmittedProven
  <2>2. /\ \A r, f : Admits(r, f)' <=> Admits(r, f)
        /\ \A a, v : Proven(a, v)' = Proven(a, v)
        /\ \A v, ref : Selected(v, ref)' = Selected(v, ref)
    BY SameAdapters
  <2>3. QED  BY <2>1, <2>2, Zenon DEF AdmittedProven
<1>6. QED  BY <1>1, <1>4, <1>5

LEMMA ClientInvNext ==
    ASSUME ClientInv, [Next]_vars  PROVE ClientInv'
<1> USE DEF ClientInv
<1>1. ASSUME NEW c \in Callers, CallFetch(c)  PROVE ClientInv'
  <2>1. PICK req \in client.asks[c] :
            /\ req.op = "fetch" /\ Selected(req.venue, req.reference) # None
            /\ calls' = [calls EXCEPT ![c] = Waiting("fetching", req)]
    BY <1>1 DEF CallFetch
  <2>2. /\ calls' = [d \in Callers |-> calls'[d]]
        /\ CallsValid' /\ AdmittedProven'
    <3>1. UNCHANGED <<client, runtime>>
      BY <1>1 DEF CallFetch
    <3>2. QED  BY <2>1, <3>1, WaitingFields, CallSteps
  <2>3. CacheProven'
    BY <1>1, SameAdapters DEF CallFetch, CacheProven
  <2>4. QED  BY <1>1, <2>2, <2>3 DEF CallFetch
<1>2. ASSUME NEW c \in Callers, CallKnown(c)  PROVE ClientInv'
  <2>1. PICK req \in client.asks[c] :
            LET adapter == Selected(req.venue, req.reference)
                key     == CacheKey(adapter, req.venue)
                found   == IF key \in DOMAIN features THEN features[key] ELSE {}
            IN /\ req.op # "fetch" /\ adapter # None
               /\ key \in DOMAIN features \/ ~HasProbe(adapter)
               /\ calls' = [calls EXCEPT ![c] = Concluded(req, found)]
               /\ features' = Remembered(key, found)
    BY <1>2, Zenon DEF CallKnown
  <2> DEFINE adapter == Selected(req.venue, req.reference)
             key     == CacheKey(adapter, req.venue)
             found   == IF key \in DOMAIN features THEN features[key] ELSE {}
  <2>2. found = Proven(adapter, req.venue)
    <3>1. CASE key \in DOMAIN features
      <4>1. key[1] = adapter /\ key[2] = req.venue
        BY DEF CacheKey
      <4>2. QED  BY <3>1, <4>1, Zenon DEF CacheProven
    <3>2. CASE key \notin DOMAIN features
      BY <2>1, <3>2, NothingWithoutProbe, Zenon
    <3>3. QED  BY <3>1, <3>2
  <2>3. UNCHANGED <<client, runtime, closed>>
    BY <1>2 DEF CallKnown
  <2>4. req.venue \in DOMAIN client.natives \cup ExchangeIds
    BY <2>1, SelectedServes, Zenon
  <2>5. CacheProven'
    BY <2>1, <2>2, <2>3, <2>4, RememberProven, Zenon
  <2>6. /\ calls' = [d \in Callers |-> calls'[d]]
        /\ CallsValid' /\ AdmittedProven'
    BY <2>1, <2>2, <2>3, ConcludeProven, Zenon
  <2>7. QED  BY <2>3, <2>5, <2>6
<1>3. ASSUME NEW c \in Callers, CallProbes(c)  PROVE ClientInv'
  <2>1. PICK req \in client.asks[c] :
            /\ Selected(req.venue, req.reference) # None
            /\ calls' = [calls EXCEPT ![c] = Waiting("probing", req)]
    BY <1>3 DEF CallProbes
  <2>2. UNCHANGED <<client, runtime>>
    BY <1>3 DEF CallProbes
  <2>3. /\ calls' = [d \in Callers |-> calls'[d]]
        /\ CallsValid' /\ AdmittedProven'
    BY <2>1, <2>2, WaitingFields, CallSteps
  <2>4. CacheProven'
    BY <1>3, SameAdapters DEF CallProbes, CacheProven
  <2>5. QED  BY <1>3, <2>3, <2>4 DEF CallProbes
<1>4. ASSUME NEW c \in Callers, ProbeReturns(c)  PROVE ClientInv'
  <2> DEFINE req     == calls[c].request
             adapter == Selected(req.venue, req.reference)
             found   == Proven(adapter, req.venue)
  <2>1. /\ features' = Remembered(CacheKey(adapter, req.venue), found)
        /\ calls' = [calls EXCEPT ![c] = Concluded(req, found)]
        /\ UNCHANGED <<client, runtime, closed>>
    BY <1>4, Zenon DEF ProbeReturns
  <2>2. req \in client.asks[c] /\ adapter # None
    BY <1>4 DEF ProbeReturns, CallsValid, Idle
  <2>3. req.venue \in DOMAIN client.natives \cup ExchangeIds
    BY <2>2, SelectedServes, Zenon
  <2>4. CacheProven'
    BY <2>1, <2>3, RememberProven, Zenon
  <2>5. /\ calls' = [d \in Callers |-> calls'[d]]
        /\ CallsValid' /\ AdmittedProven'
    <3> HIDE DEF req
    <3>1. UNCHANGED <<client, runtime>>
      BY <2>1, Zenon
    <3>2. \E r \in client.asks[c] : r = req
      BY <2>2, Zenon
    <3>3. PICK r \in client.asks[c] : r = req
      BY <3>2, Zenon
    <3>4. /\ Selected(r.venue, r.reference) # None
          /\ calls' = [calls EXCEPT ![c] =
                 Concluded(r, Proven(Selected(r.venue, r.reference), r.venue))]
      BY <2>1, <2>2, <3>3, Zenon
    <3>5. QED  BY <3>1, <3>4, ConcludeProven, Zenon
  <2>6. QED  BY <2>1, <2>4, <2>5, Zenon
<1>5. ASSUME NEW c \in Callers, ProbeFails(c) \/ FetchEnds(c)  PROVE ClientInv'
  <2>1. calls' = [calls EXCEPT ![c] = Idle]
        /\ UNCHANGED <<client, runtime, features, closed>>
    BY <1>5 DEF ProbeFails, FetchEnds
  <2>2. /\ calls' = [d \in Callers |-> calls'[d]]
        /\ CallsValid' /\ AdmittedProven'
    BY <2>1, CallSteps
  <2>3. CacheProven'
    BY <2>1, SameAdapters DEF CacheProven
  <2>4. QED  BY <2>1, <2>2, <2>3
<1>6. ASSUME UNCHANGED <<client, runtime, calls>>,
             features' = features \/ features' = <<>>, closed' \in BOOLEAN
      PROVE  ClientInv'
  <2>1. /\ \A r, f : Admits(r, f)' <=> Admits(r, f)
        /\ \A a, v : Proven(a, v)' = Proven(a, v)
        /\ \A v, ref : Selected(v, ref)' = Selected(v, ref)
    BY <1>6, SameAdapters
  <2>2. CallsValid' /\ AdmittedProven'
    BY <1>6, <2>1, Zenon DEF CallsValid, AdmittedProven
  <2>3. CacheProven'
    BY <1>6, SameAdapters DEF CacheProven
  <2>4. QED  BY <1>6, <2>2, <2>3
<1>7. ASSUME Close \/ CloseNext \/ CloseFails \/ UNCHANGED vars  PROVE ClientInv'
  BY <1>6, <1>7 DEF Close, CloseNext, CloseFails, vars
<1>8. QED
  BY <1>1, <1>2, <1>3, <1>4, <1>5, <1>7 DEF Next

\* Preflight relies on what the serving adapter proves for the venue it serves,
\* for any client, runtime, callers and requests (_assess_reference and
\* runtime_features of client.py and funding_client.py).
THEOREM PreflightIsProven == Spec => []FetchProven
<1>1. Init => ClientInv
  BY ClientInvInit
<1>2. ClientInv /\ [Next]_vars => ClientInv'
  BY ClientInvNext
<1>3. ClientInv => FetchProven
  <2>1. SUFFICES ASSUME ClientInv, NEW c \in Callers,
                        calls[c].stage = "fetching", calls[c].request.op = "reference"
                 PROVE  LET req == calls[c].request
                            adapter == Selected(req.venue, req.reference)
                        IN  adapter # None /\ Admits(req, Proven(adapter, req.venue))
    BY Zenon DEF FetchProven, Admitted
  <2>2. Selected(calls[c].request.venue, calls[c].request.reference) # None
    BY <2>1 DEF ClientInv, CallsValid, Idle
  <2>3. QED  BY <2>1, <2>2, Zenon DEF ClientInv, AdmittedProven
<1>4. QED
  BY <1>1, <1>2, <1>3, PTL DEF Spec

-----------------------------------------------------------------------------
(* Manifests against adapters.                                             *)

\* The capabilities of a mapping need these identities, and those for a notional
\* these terms.
Declares(mapping, identities, terms) ==
    \A c \in mapping.capabilities :
        /\ identities \subseteq c.identities
        /\ c.kind = "notional" => terms \subseteq c.terms

\* What each venue's manifest declares of all its capabilities.
VenueIdentities(venue) ==
    CASE venue = "BITFINEX"    -> StatusInstrument
      [] venue = "GATE"        -> Symbol \cup {"settlement_asset"}
      [] venue = "HYPERLIQUID" -> {"rpc_instrument"}
      [] OTHER                 -> Symbol

VenueTerms(venue, direction) ==
    IF venue \in {"BITFINEX", "DEEPCOIN", "KUCOIN", "MEXC", "BTSE"}
           \/ (direction = "inverse" /\ venue \in {"BINANCE", "HTX", "KRAKEN", "PHEMEX"})
    THEN ContractValue ELSE {}

Directions == {"linear", "inverse"}
Kinds      == {"perpetual", "future"}

\* The product families with native adapters.
LEMMA NativeFamiliesDeclare ==
    ASSUME NEW direction \in Directions, NEW kind \in Kinds
    PROVE  /\ \A F \in {Binance(direction), BinanceFuture(direction), Htx(direction),
                        HtxFuture(direction), Kraken(direction), KrakenFuture(direction)} :
                  Declares(F, Symbol, IfInverse(direction, ContractValue))
           /\ \A F \in {NativeContractFamily(direction), NativeDatedContractFamily(direction),
                        Btse(kind), Mexc(direction)} : Declares(F, Symbol, ContractValue)
           /\ \A F \in {Gate(direction), GateFuture} :
                  Declares(F, Symbol \cup {"settlement_asset"}, {})
           /\ \A F \in {Bybit(direction, kind), Okx(direction, kind), Xt} :
                  Declares(F, Symbol, {})
           /\ Declares(Bitfinex(direction), StatusInstrument, ContractValue)
           /\ \A F \in {Hyperliquid(TRUE), Hyperliquid(FALSE)} :
                  Declares(F, {"rpc_instrument"}, {})
<1> USE DEF Declares, Mapping, Capability, IfInverse, IfLinear, IfPerpetual, NativeBase,
        NativeCount, ConvertedBase, Notional, NamedBy, Sized, AtMark, Observing,
        Funding, Indicative, NextRate, Settled, Interval, Symbol, ContractValue, Directions
<1>1. /\ Declares(Binance(direction), Symbol, IfInverse(direction, ContractValue))
      /\ Declares(BinanceFuture(direction), Symbol, IfInverse(direction, ContractValue))
  BY DEF Binance, BinanceFuture
<1>2. /\ Declares(Htx(direction), Symbol, IfInverse(direction, ContractValue))
      /\ Declares(HtxFuture(direction), Symbol, IfInverse(direction, ContractValue))
  BY DEF Htx, HtxFuture
<1>3. /\ Declares(Kraken(direction), Symbol, IfInverse(direction, ContractValue))
      /\ Declares(KrakenFuture(direction), Symbol, IfInverse(direction, ContractValue))
  BY DEF Kraken, KrakenFuture, KrakenInterest
<1>4. /\ Declares(NativeContractFamily(direction), Symbol, ContractValue)
      /\ Declares(NativeDatedContractFamily(direction), Symbol, ContractValue)
      /\ Declares(Btse(kind), Symbol, ContractValue)
  BY DEF NativeContractFamily, NativeDatedContractFamily, Btse, ContractCounts
<1>5. Declares(Mexc(direction), Symbol, ContractValue)
  BY DEF Mexc
<1>6. /\ Declares(Gate(direction), Symbol \cup {"settlement_asset"}, {})
      /\ Declares(GateFuture, Symbol \cup {"settlement_asset"}, {})
  BY DEF Gate, GateFuture, GateRouted
<1>7. /\ Declares(Bybit(direction, kind), Symbol, {})
      /\ Declares(Okx(direction, kind), Symbol, {}) /\ Declares(Xt, Symbol, {})
  BY DEF Bybit, Okx, Xt
<1>8. Declares(Bitfinex(direction), StatusInstrument, ContractValue)
  BY DEF Bitfinex, StatusInstrument
<1>9. /\ Declares(Hyperliquid(TRUE), {"rpc_instrument"}, {})
      /\ Declares(Hyperliquid(FALSE), {"rpc_instrument"}, {})
  BY DEF Hyperliquid
<1>10. QED
  BY <1>1, <1>2, <1>3, <1>4, <1>5, <1>6, <1>7, <1>8, <1>9, Zenon

\* The families with a snapshot of open interest, whatever funding they add.
LEMMA CurrentFamiliesDeclare ==
    ASSUME NEW direction \in Directions, NEW unit \in {"base", "quote", "contracts"},
           NEW funding, \A c \in funding : Symbol \subseteq c.identities /\ c.kind # "notional"
    PROVE  Declares(NativeCurrentFamily(direction, unit, funding), Symbol,
                    IF unit = "contracts" THEN ContractValue ELSE {})
  BY DEF NativeCurrentFamily, CurrentQuantity, ContractCounts, Declares, Mapping, Capability,
         IfLinear, NativeBase, NativeCount, ConvertedBase, Notional, Sized, AtMark, Observing,
         Symbol, ContractValue, Directions

\* Capabilities of funding name the instrument by its symbol, and are no notionals.
LEMMA FundingNamed ==
    /\ \A c \in RuntimeFunding : Symbol \subseteq c.identities /\ c.kind # "notional"
    /\ \A rate \in {Indicative(Current), NextRate(Current)},
          history \in {{}, Settled(BoundedSinglePage), Settled(BoundedHistory)} :
           \A c \in NativeFunding(rate, history) :
               Symbol \subseteq c.identities /\ c.kind # "notional"
<1>1. \A c \in RuntimeFunding : Symbol \subseteq c.identities /\ c.kind # "notional"
  BY DEF RuntimeFunding, Indicative, Settled, Funding, Capability, Symbol
<1>2. \A shape : \A c \in Indicative(shape) \cup NextRate(shape) \cup Settled(shape)
                            \cup Interval(shape) :
          Symbol \subseteq c.identities /\ c.kind # "notional"
  BY DEF Indicative, NextRate, Settled, Interval, Funding, Capability
<1>3. QED
  BY <1>1, <1>2 DEF NativeFunding

\* Declaring a feature changes nothing else that an adapter reads.
LEMMA RuntimeKeeps ==
    ASSUME NEW S, NEW names, NEW c \in NeedsRuntime(names, S),
           \A d \in S : {"kind", "state", "identities", "features"} \subseteq DOMAIN d
    PROVE  /\ {"kind", "state", "identities", "features"} \subseteq DOMAIN c
           /\ c.features = names
           /\ \E d \in S : c.kind = d.kind /\ c.identities = d.identities
<1>1. PICK d \in S : c = [d EXCEPT !.features = names, !.state = "conditional"]
  BY DEF NeedsRuntime
<1>2. {"kind", "state", "identities", "features"} \subseteq DOMAIN d
  OBVIOUS
<1>3. QED
  BY <1>1, <1>2

\* The optional families name their instrument by its symbol, but Coinbase's
\* open interest by the entry of its own catalog; all need a runtime feature.
LEMMA OptionalFamiliesDeclare ==
    ASSUME NEW provider, NEW direction, NEW kind,
           NEW c \in Optional(provider, direction, kind).capabilities
    PROVE  /\ c.features # {}
           /\ provider # "COINBASE" => c.identities = Symbol
           /\ c.kind \in {"indicative", "next", "settled"} => c.identities = Symbol
           /\ provider = "COINBASE" /\ c.kind = "notional"
                  => c.identities = {"catalog_instrument"}
<1> DEFINE names   == IF provider = "COINBASE" THEN {"catalog_instrument"} ELSE Symbol
           feature == IF provider = "COINBASE" THEN {"specialized_catalog"} ELSE {"open_interest"}
           current == NativeCount("current", RuntimeCurrent)
                          \cup IfLinear(direction, ConvertedBase("current", RuntimeCurrent))
                          \cup Notional("current", RuntimeCurrent)
           history == IfPerpetual(kind, Notional("historical", RuntimeHistory))
           rates   == Indicative(RuntimeCurrent) \cup Interval(RuntimeCurrent)
           settled == Settled(RuntimeHistory)
           Plain(S) == \A d \in S : /\ {"kind", "state", "identities", "features"} \subseteq DOMAIN d
                                    /\ d.identities = Symbol
<1>1. \/ c \in NamedBy(names, NeedsRuntime(feature, current))
      \/ c \in NeedsRuntime({"open_interest_history"}, history) /\ provider # "COINBASE"
      \/ c \in NeedsRuntime({"funding"}, rates)
      \/ c \in NeedsRuntime({"funding_history"}, settled)
  BY DEF Optional, OptionalInterest, OptionalFunding, Mapping, IfPerpetual
<1>2. /\ Plain(current)
      /\ \A d \in current : d.kind \in {"contract_count", "base_quantity", "notional"}
  BY DEF NativeCount, IfLinear, ConvertedBase, NativeBase, Sized, Notional, Capability
<1>3. Plain(history)
  BY DEF IfPerpetual, Notional, Capability
<1>4. Plain(rates) /\ Plain(settled) /\ \A d \in rates \cup settled : d.kind # "notional"
  BY DEF Funding, Indicative, Interval, Settled, Capability
<1> HIDE DEF names, feature, current, history, rates, settled
<1>5. CASE c \in NamedBy(names, NeedsRuntime(feature, current))
  <2>1. PICK d \in NeedsRuntime(feature, current) : c = [d EXCEPT !.identities = names]
    BY <1>5 DEF NamedBy
  <2>2. c.kind = d.kind /\ c.features = feature /\ c.identities = names
    BY <2>1, <1>2, RuntimeKeeps
  <2>3. d.kind \in {"contract_count", "base_quantity", "notional"}
    BY <1>2, RuntimeKeeps
  <2>4. QED  BY <2>2, <2>3 DEF feature, names
<1>6. CASE c \in NeedsRuntime({"open_interest_history"}, history) /\ provider # "COINBASE"
  BY <1>6, <1>3, RuntimeKeeps
<1>7. CASE c \in NeedsRuntime({"funding"}, rates)
  BY <1>4, <1>7, RuntimeKeeps
<1>8. CASE c \in NeedsRuntime({"funding_history"}, settled)
  BY <1>4, <1>8, RuntimeKeeps
<1>9. QED
  BY <1>1, <1>5, <1>6, <1>7, <1>8

\* Every mapping is of one product, and declares what its venue's adapter reads.
LEMMA ManifestsDeclare ==
    ASSUME NEW venue \in DOMAIN BuiltinManifests, NEW m \in DOMAIN BuiltinManifests[venue]
    PROVE  \E direction \in Directions, kind \in Kinds :
               /\ BuiltinManifests[venue][m].scenario = Scenario(direction, kind)
               /\ venue = "BITFINEX" => kind = "perpetual"
               /\ venue # "COINBASE" =>
                      Declares(BuiltinManifests[venue][m], VenueIdentities(venue),
                               VenueTerms(venue, direction))
<1> DEFINE F == BuiltinManifests[venue][m]
           Sound == \E direction \in Directions, kind \in Kinds :
                        /\ F.scenario = Scenario(direction, kind)
                        /\ venue = "BITFINEX" => kind = "perpetual"
                        /\ venue # "COINBASE" =>
                               Declares(F, VenueIdentities(venue), VenueTerms(venue, direction))
<1> SUFFICES Sound
  OBVIOUS
<1> USE DEF Directions, Kinds
<1>s. \A direction, kind, S : Mapping(direction, kind, S).scenario = Scenario(direction, kind)
  BY DEF Mapping
<1>1. CASE venue \in {"BINANCE", "HTX", "KRAKEN"}
  <2>1. \E d \in Directions :
            F \in {Binance(d), BinanceFuture(d), Htx(d), HtxFuture(d), Kraken(d), KrakenFuture(d)}
    BY <1>1 DEF BuiltinManifests
  <2>2. PICK d \in Directions :
            F \in {Binance(d), BinanceFuture(d), Htx(d), HtxFuture(d), Kraken(d), KrakenFuture(d)}
    BY <2>1
  <2>3. \E kind \in Kinds : F.scenario = Scenario(d, kind)
    BY <2>2, <1>s DEF Binance, BinanceFuture, Htx, HtxFuture, Kraken, KrakenFuture
  <2>4. Declares(F, Symbol, IfInverse(d, ContractValue))
    BY <2>2, NativeFamiliesDeclare
  <2> HIDE DEF F
  <2>5. QED  BY <1>1, <2>3, <2>4 DEF VenueIdentities, VenueTerms, IfInverse
<1>2. CASE venue \in {"DEEPCOIN", "KUCOIN", "BTSE", "MEXC"}
  <2>1. \E d \in Directions, k \in Kinds :
            \/ F \in {NativeContractFamily(d), NativeDatedContractFamily(d), Mexc(d)}
            \/ d = "linear" /\ F = Btse(k)
    BY <1>2 DEF BuiltinManifests
  <2>2. PICK d \in Directions, k \in Kinds :
            \/ F \in {NativeContractFamily(d), NativeDatedContractFamily(d), Mexc(d)}
            \/ d = "linear" /\ F = Btse(k)
    BY <2>1
  <2>3. \E kind \in Kinds : F.scenario = Scenario(d, kind)
    BY <2>2, <1>s DEF NativeContractFamily, NativeDatedContractFamily, Mexc, Btse
  <2>4. Declares(F, Symbol, ContractValue)
    BY <2>2, NativeFamiliesDeclare
  <2> HIDE DEF F
  <2>5. QED  BY <1>2, <2>3, <2>4 DEF VenueIdentities, VenueTerms
<1>3. CASE venue = "GATE"
  <2>1. \E d \in Directions : F = Gate(d) \/ (d = "linear" /\ F = GateFuture)
    BY <1>3 DEF BuiltinManifests
  <2>2. PICK d \in Directions : F = Gate(d) \/ (d = "linear" /\ F = GateFuture)
    BY <2>1
  <2>3. \E kind \in Kinds : F.scenario = Scenario(d, kind)
    BY <2>2, <1>s DEF Gate, GateFuture
  <2>4. Declares(F, Symbol \cup {"settlement_asset"}, {})
    BY <2>2, NativeFamiliesDeclare
  <2> HIDE DEF F
  <2>5. QED  BY <1>3, <2>3, <2>4 DEF VenueIdentities, VenueTerms
<1>4. CASE venue \in {"BYBIT", "OKX", "XT"}
  <2>1. \E d \in Directions, k \in Kinds :
            F \in {Bybit(d, k), Okx(d, k)} \/ (d = "linear" /\ F = Xt)
    BY <1>4 DEF BuiltinManifests
  <2>2. PICK d \in Directions, k \in Kinds :
            F \in {Bybit(d, k), Okx(d, k)} \/ (d = "linear" /\ F = Xt)
    BY <2>1
  <2>3. \E kind \in Kinds : F.scenario = Scenario(d, kind)
    BY <2>2, <1>s DEF Bybit, Okx, Xt
  <2>4. Declares(F, Symbol, {})
    BY <2>2, NativeFamiliesDeclare
  <2> HIDE DEF F
  <2>5. QED  BY <1>4, <2>3, <2>4 DEF VenueIdentities, VenueTerms
<1>5. CASE venue = "BITFINEX"
  <2>1. PICK d \in Directions : F = Bitfinex(d)
    BY <1>5 DEF BuiltinManifests
  <2>2. F.scenario = Scenario(d, "perpetual")
    BY <2>1, <1>s DEF Bitfinex
  <2>3. Declares(F, StatusInstrument, ContractValue)
    BY <2>1, NativeFamiliesDeclare
  <2> HIDE DEF F
  <2>4. QED  BY <1>5, <2>2, <2>3 DEF VenueIdentities, VenueTerms
<1>6. CASE venue = "HYPERLIQUID"
  <2>1. F \in {Hyperliquid(TRUE), Hyperliquid(FALSE)}
    <3>1. BuiltinManifests["HYPERLIQUID"] = <<Hyperliquid(TRUE), Hyperliquid(FALSE)>>
      BY DEF BuiltinManifests
    <3>2. \A a, b, f, n : f = <<a, b>> /\ n \in DOMAIN f => f[n] \in {a, b}
      OBVIOUS
    <3>3. BuiltinManifests[venue] = <<Hyperliquid(TRUE), Hyperliquid(FALSE)>>
      BY <1>6, <3>1, Zenon
    <3>4. QED  BY <3>2, <3>3, Zenon
  <2>2. F.scenario = Scenario("linear", "perpetual")
    BY <2>1, <1>s DEF Hyperliquid
  <2>3. Declares(F, {"rpc_instrument"}, {})
    BY <2>1, NativeFamiliesDeclare
  <2> HIDE DEF F
  <2>4. QED  BY <1>6, <2>2, <2>3 DEF VenueIdentities, VenueTerms
<1>7. CASE venue \in {"BINGX", "TOOBIT", "GRVT", "LIGHTER"}
  <2>1. \E d \in Directions, unit \in {"base", "quote", "contracts"},
           rate \in {Indicative(Current), NextRate(Current)},
           history \in {{}, Settled(BoundedSinglePage), Settled(BoundedHistory)} :
            F = NativeCurrentFamily(d, unit, NativeFunding(rate, history))
    <3> HIDE DEF NativeFunding
    <3>1. QED  BY <1>7 DEF BuiltinManifests
  <2>2. PICK d \in Directions, unit \in {"base", "quote", "contracts"},
             rate \in {Indicative(Current), NextRate(Current)},
             history \in {{}, Settled(BoundedSinglePage), Settled(BoundedHistory)} :
            F = NativeCurrentFamily(d, unit, NativeFunding(rate, history))
    BY <2>1
  <2>3. F.scenario = Scenario(d, "perpetual")
    BY <2>2, <1>s DEF NativeCurrentFamily
  <2>4. Declares(F, Symbol, IF unit = "contracts" THEN ContractValue ELSE {})
    BY <2>2, FundingNamed, CurrentFamiliesDeclare
  <2> HIDE DEF F
  <2>5. QED  BY <1>7, <2>3, <2>4 DEF VenueIdentities, VenueTerms, Declares
<1>p. CASE venue = "PHEMEX"
  <2>1. PICK d \in Directions, unit \in {"base", "contracts"} :
            /\ F = NativeCurrentFamily(d, unit, RuntimeFunding)
            /\ d = "inverse" => unit = "contracts"
    BY <1>p DEF BuiltinManifests
  <2>2. F.scenario = Scenario(d, "perpetual")
    BY <2>1, <1>s DEF NativeCurrentFamily
  <2>3. Declares(F, Symbol, IF unit = "contracts" THEN ContractValue ELSE {})
    BY <2>1, FundingNamed, CurrentFamiliesDeclare
  <2> HIDE DEF F
  <2>4. QED  BY <1>p, <2>1, <2>2, <2>3 DEF VenueIdentities, VenueTerms, Declares
<1>8. CASE venue \in {"ASTER", "DIGIFINEX", "WHITEBIT", "CRYPTOCOM", "BLOFIN"}
  <2>1. PICK d \in Directions : F = CcxtFunding(d)
    BY <1>8 DEF BuiltinManifests
  <2>2. F.scenario = Scenario(d, "perpetual")
    BY <2>1, <1>s DEF CcxtFunding
  <2>3. \A c \in Optional("WEEX", d, "perpetual").capabilities : c.identities = Symbol
    BY OptionalFamiliesDeclare
  <2>4. F.capabilities = Optional("WEEX", d, "perpetual").capabilities
    BY <2>1 DEF CcxtFunding, Optional, OptionalInterest, Mapping, IfPerpetual
  <2>5. Declares(F, Symbol, {})
    BY <2>3, <2>4 DEF Declares
  <2> HIDE DEF F
  <2>6. QED  BY <1>8, <2>2, <2>5 DEF VenueIdentities, VenueTerms
<1>9. CASE venue \in {"BITGET", "BITMART", "DERIBIT", "WEEX", "COINBASE"}
  <2>1. PICK d \in Directions, k \in Kinds : F = Optional(venue, d, k)
    BY <1>9 DEF BuiltinManifests
  <2>2. F.scenario = Scenario(d, k)
    BY <2>1, <1>s DEF Optional
  <2>3. venue # "COINBASE" => Declares(F, Symbol, {})
    BY <2>1, OptionalFamiliesDeclare DEF Declares
  <2> HIDE DEF F
  <2>4. QED  BY <1>9, <2>2, <2>3 DEF VenueIdentities, VenueTerms
<1>10. venue \in {"BINANCE", "HTX", "KRAKEN", "DEEPCOIN", "KUCOIN", "BTSE", "MEXC", "GATE",
                  "BYBIT", "OKX", "XT", "BITFINEX", "HYPERLIQUID", "BINGX", "TOOBIT", "GRVT",
                  "LIGHTER", "PHEMEX", "ASTER", "DIGIFINEX", "WHITEBIT", "CRYPTOCOM", "BLOFIN",
                  "BITGET", "BITMART", "DERIBIT", "WEEX", "COINBASE"}
  BY DEF BuiltinManifests
<1>11. QED
  BY <1>1, <1>2, <1>3, <1>4, <1>5, <1>6, <1>7, <1>p, <1>8, <1>9, <1>10

\* Binance declares the identities that route the history of inverse contracts.
LEMMA BinanceHistoryDeclares ==
    ASSUME NEW kind \in Kinds, NEW m \in DOMAIN BuiltinManifests["BINANCE"],
           BuiltinManifests["BINANCE"][m].scenario = Scenario("inverse", kind)
    PROVE  LET F == BuiltinManifests["BINANCE"][m]
               Asked(c) == c.kind = "notional" /\ c.mode = "historical"
           IN  /\ \E c \in F.capabilities : Asked(c)
               /\ \A c \in F.capabilities : Asked(c) =>
                      /\ "pair" \in c.identities
                      /\ kind = "future" => "product_family" \in c.identities
<1> DEFINE F == BuiltinManifests["BINANCE"][m]
           Asked(c) == c.kind = "notional" /\ c.mode = "historical"
<1>1. F \in {Binance("inverse"), Binance("linear"), BinanceFuture("inverse"),
             BinanceFuture("linear")}
  BY DEF BuiltinManifests
<1>2. /\ Binance("inverse").scenario = Scenario("inverse", "perpetual")
      /\ Binance("linear").scenario = Scenario("linear", "perpetual")
      /\ BinanceFuture("inverse").scenario = Scenario("inverse", "future")
      /\ BinanceFuture("linear").scenario = Scenario("linear", "future")
  BY DEF Binance, BinanceFuture, Mapping
<1> HIDE DEF F
<1>3. F = IF kind = "future" THEN BinanceFuture("inverse") ELSE Binance("inverse")
  <2>1. F.scenario = Scenario("inverse", kind)
    BY DEF F
  <2>2. \A d, e \in Directions, k, l \in Kinds :
            Scenario(d, k) = Scenario(e, l) => d = e /\ k = l
    BY DEF Scenario, Directions
  <2>3. QED
    BY <1>1, <1>2, <2>1, <2>2 DEF Directions, Kinds
<1>e. ASSUME NEW names
      PROVE  \E c \in NamedBy(names, Sized(Notional("historical", BoundedHistory))) : Asked(c)
  <2> DEFINE sized == [Capability("notional", "historical", BoundedHistory)
                           EXCEPT !.terms = ContractValue]
             named == [sized EXCEPT !.identities = names]
  <2>1. Asked(sized) /\ {"kind", "mode"} \subseteq DOMAIN sized
    BY DEF Capability
  <2>2. sized \in Sized(Notional("historical", BoundedHistory))
    BY DEF Sized, Notional
  <2> HIDE DEF sized
  <2>3. Asked(named)
    BY <2>1
  <2>4. named \in NamedBy(names, Sized(Notional("historical", BoundedHistory)))
    BY <2>2 DEF NamedBy
  <2>5. QED  BY <2>3, <2>4
<1>4. /\ \E c \in Binance("inverse").capabilities : Asked(c)
      /\ \A c \in Binance("inverse").capabilities : Asked(c) => "pair" \in c.identities
  <2>1. NamedBy(Symbol \cup {"pair"}, Sized(Notional("historical", BoundedHistory)))
            \subseteq Binance("inverse").capabilities
    BY DEF Binance, Mapping, IfInverse
  <2>2. \A c \in Binance("inverse").capabilities : Asked(c) => "pair" \in c.identities
    BY DEF Binance, Mapping, IfInverse, IfLinear, NativeCount, Notional, NamedBy, Sized,
           AtMark, Observing, Indicative, Settled, Funding, Capability
  <2>3. QED  BY <1>e, <2>1, <2>2
<1>5. /\ \E c \in BinanceFuture("inverse").capabilities : Asked(c)
      /\ \A c \in BinanceFuture("inverse").capabilities : Asked(c) =>
             {"pair", "product_family"} \subseteq c.identities
  <2> DEFINE names == Symbol \cup {"pair", "product_family"}
             sized == Sized(Notional("historical", BoundedHistory))
  <2>1. NamedBy(names, sized) \subseteq BinanceFuture("inverse").capabilities
    <3>1. \A S, T : NamedBy(names, T) \subseteq NamedBy(names, S \cup T)
      BY DEF NamedBy
    <3>2. NamedBy(names, NativeCount("historical", BoundedHistory) \cup sized)
              \subseteq BinanceFuture("inverse").capabilities
      BY DEF BinanceFuture, Mapping, IfInverse
    <3> HIDE DEF names, sized
    <3>3. QED  BY <3>1, <3>2
  <2>2. \A c \in BinanceFuture("inverse").capabilities : Asked(c) =>
            {"pair", "product_family"} \subseteq c.identities
    BY DEF BinanceFuture, Mapping, IfInverse, IfLinear, NativeCount, Notional, NamedBy, Sized,
           AtMark, Observing, Capability
  <2>3. QED  BY <1>e, <2>1, <2>2
<1>6. QED
  BY <1>3, <1>4, <1>5 DEF F

\* A reference that fits a mapping knows its direction and its kind.
LEMMA FitsProduct ==
    ASSUME NEW ref, NEW direction \in Directions, NEW kind \in Kinds,
           Fits(ref, Scenario(direction, kind))
    PROVE  /\ Directed \cup {"kind"} \subseteq DOMAIN ref.terms
           /\ Direction(ref.terms) = direction /\ KindOf(ref) = kind
<1>1. /\ {"kind", "unit", "settlement"} \subseteq DOMAIN ref.terms
      /\ ref.terms["kind"] = kind
      /\ ref.terms["unit"] = IF direction = "linear" THEN "base" ELSE "quote"
      /\ ref.terms["settlement"] = IF direction = "linear" THEN "quote" ELSE "base"
  BY DEF Fits, Scenario
<1>2. Direction(ref.terms) = direction /\ KindOf(ref) = kind
  BY <1>1 DEF Direction, KindOf, Directions
<1>3. QED
  BY <1>1, <1>2 DEF Directed

\* It contradicts all other products.
LEMMA FitsOneProduct ==
    ASSUME NEW ref, NEW direction \in Directions, NEW kind \in Kinds,
           Fits(ref, Scenario(direction, kind)),
           NEW d \in Directions, NEW k \in Kinds, ~ Contradicted(ref, Scenario(d, k))
    PROVE  d = direction /\ k = kind
<1>1. /\ {"kind", "unit", "settlement"} \subseteq DOMAIN ref.terms
      /\ ref.terms["kind"] = kind
      /\ ref.terms["unit"] = IF direction = "linear" THEN "base" ELSE "quote"
  BY DEF Fits, Scenario
<1>2. QED
  BY <1>1 DEF Contradicted, Scenario, Directions

\* Clients that are asked for Bitfinex have its own adapter, as the default ones do.
\* The optional provider would name the instrument by its symbol, which the manifest
\* of Bitfinex does not ask for.
BitfinexIsNative ==
    \A k \in Clients : \A c \in Callers : \A req \in k.asks[c] :
        req.venue = "BITFINEX" =>
            "BITFINEX" \in DOMAIN k.natives /\ k.natives["BITFINEX"] = "BITFINEX"

\* What serves an admitted request: a capability that the reference has all for.
LEMMA AdmissionServes ==
    ASSUME NEW req, NEW found, Admits(req, found), client.metric \in {"open_interest", "funding"}
    PROVE  /\ req.venue \in DOMAIN BuiltinManifests
           /\ \E m \in DOMAIN BuiltinManifests[req.venue] :
                  \E c \in BuiltinManifests[req.venue][m].capabilities :
                      /\ Serves(req.reference, BuiltinManifests[req.venue][m], c,
                                Observations, found)
                      /\ client.metric = "open_interest" => c.kind = "notional"
                      /\ client.metric = "funding" => c.kind \in {"indicative", "next", "settled"}
<1>1. PICK t \in CurrentTargets(client.metric) : Assessed(req, t, found).status = "supported"
  BY Zenon DEF Admits
<1>2. req.venue \in DOMAIN BuiltinManifests
  BY <1>1 DEF Assessed, Assessment
<1>3. Assess(BuiltinManifests[req.venue], req.reference, t, Observations, found).status
          = "supported"
  BY <1>1, <1>2, Zenon DEF Assessed
<1>4. PICK m \in DOMAIN BuiltinManifests[req.venue] :
          \E c \in BuiltinManifests[req.venue][m].capabilities :
              /\ Matches(c, t)
              /\ Serves(req.reference, BuiltinManifests[req.venue][m], c, Observations, found)
  BY <1>3, SupportedMeansServed, Zenon
<1>5. PICK c \in BuiltinManifests[req.venue][m].capabilities :
          /\ Matches(c, t)
          /\ Serves(req.reference, BuiltinManifests[req.venue][m], c, Observations, found)
  BY <1>4, Zenon
<1>6. /\ client.metric = "open_interest" => t.kind = "notional"
      /\ client.metric = "funding" => t.kind \in {"indicative", "next", "settled"}
  BY <1>1 DEF CurrentTargets, Target
<1>7. c.kind = t.kind
  BY <1>5, Zenon DEF Matches
<1>8. QED
  BY <1>2, <1>5, <1>6, <1>7

\* The history of an inverse Binance contract is routed by identities that the
\* preflight of the history found.
LEMMA BinanceHistoryServed ==
    ASSUME NEW req, NEW found, Admits(req, found), req.history, req.venue = "BINANCE",
           client.metric = "open_interest", NEW kind \in Kinds,
           NEW m \in DOMAIN BuiltinManifests["BINANCE"],
           BuiltinManifests["BINANCE"][m].scenario = Scenario("inverse", kind),
           Fits(req.reference, Scenario("inverse", kind))
    PROVE  HistoryIdentities("open_interest", "BINANCE", req.reference)
               \subseteq req.reference.unique
<1> DEFINE manifest == BuiltinManifests["BINANCE"]
           target   == HistoryTarget("open_interest")
           ref      == req.reference
           InQuestion(n, c) == ~ Contradicted(ref, manifest[n].scenario) /\ Matches(c, target)
<1>1. "BINANCE" \in DOMAIN BuiltinManifests
  BY DEF BuiltinManifests
<1>2. \A i \in Assess(manifest, ref, target, Observations, found).issues : i[1] \notin IdentityCodes
  BY <1>1, Zenon DEF Admits, Assessed
<1>3. \A c : Matches(c, target) <=> c.kind = "notional" /\ c.mode = "historical"
  BY DEF Matches, HistoryTarget, Target
<1>4. \E n \in DOMAIN manifest : \E c \in manifest[n].capabilities : InQuestion(n, c)
  <2>1. PICK c \in manifest[m].capabilities : c.kind = "notional" /\ c.mode = "historical"
    BY BinanceHistoryDeclares
  <2>2. ~ Contradicted(ref, manifest[m].scenario)
    BY Zenon DEF Fits, Contradicted
  <2> HIDE DEF target, manifest
  <2>3. QED  BY <1>3, <2>1, <2>2 DEF manifest
<1>5. \A n \in DOMAIN manifest : \A c \in manifest[n].capabilities : InQuestion(n, c) =>
          "pair" \in c.identities /\ (kind = "future" => "product_family" \in c.identities)
  <2>1. SUFFICES ASSUME NEW n \in DOMAIN manifest, NEW c \in manifest[n].capabilities,
                        InQuestion(n, c)
                 PROVE  /\ "pair" \in c.identities
                        /\ kind = "future" => "product_family" \in c.identities
    OBVIOUS
  <2>2. PICK d \in Directions, k \in Kinds : manifest[n].scenario = Scenario(d, k)
    BY <1>1, ManifestsDeclare
  <2>3. "inverse" \in Directions
    BY DEF Directions
  <2>4. d = "inverse" /\ k = kind
    <3>1. ~ Contradicted(ref, Scenario(d, k))
      BY <2>1, <2>2, Zenon
    <3>2. QED  BY <2>3, <3>1, FitsOneProduct
  <2>5. c.kind = "notional" /\ c.mode = "historical"
    BY <1>3, <2>1
  <2>6. QED  BY <2>2, <2>4, <2>5, BinanceHistoryDeclares
<1> HIDE DEF manifest, target
<1>6. "pair" \in ref.unique
  BY <1>2, <1>4, <1>5, SharedIdentityIsFound
<1>7. kind = "future" => "product_family" \in ref.unique
  BY <1>2, <1>4, <1>5, SharedIdentityIsFound
<1>8. KindOf(ref) = kind
  BY FitsProduct DEF Directions
<1>9. QED
  BY <1>6, <1>7, <1>8 DEF HistoryIdentities

\* An admitted reference has what its adapter reads, whatever the reference, the
\* runtime and the client.
LEMMA AdmittedHasAll ==
    ASSUME client \in Clients, BitfinexIsNative, NEW c \in Callers, NEW req \in client.asks[c],
           Selected(req.venue, req.reference) # None,
           Admits(req, Proven(Selected(req.venue, req.reference), req.venue))
    PROVE  LET ref   == req.reference
               reads == ReadsFor(req)
               other == UndeclaredFor(req)
           IN  /\ reads.unique \subseteq ref.unique
               /\ (reads.optional \ other.optional) \cap ref.ambiguous = {}
               /\ (reads.terms \ other.terms) \subseteq DOMAIN ref.terms
<1> DEFINE venue   == req.venue
           ref     == req.reference
           adapter == Selected(venue, ref)
           found   == Proven(adapter, venue)
           metric  == client.metric
           reads   == FetchReads(metric, venue, adapter, req)
           other   == Undeclared(venue, adapter, Direction(ref.terms))
<1>1. metric \in {"open_interest", "funding"}
  BY ClientsAssumption
<1>2. /\ adapter \in {venue, "ccxt"}
      /\ adapter = "ccxt" => venue \in ExchangeIds
  BY ClientsAssumption DEF Selected, Supports
<1>3. venue \in DOMAIN BuiltinManifests
  BY <1>1, AdmissionServes
<1>4. PICK m \in DOMAIN BuiltinManifests[venue] :
          \E d \in BuiltinManifests[venue][m].capabilities :
              /\ Serves(ref, BuiltinManifests[venue][m], d, Observations, found)
              /\ metric = "open_interest" => d.kind = "notional"
              /\ metric = "funding" => d.kind \in {"indicative", "next", "settled"}
  BY <1>1, AdmissionServes, Zenon
<1> DEFINE F == BuiltinManifests[venue][m]
<1>5. PICK d \in F.capabilities :
              /\ Serves(ref, F, d, Observations, found)
              /\ metric = "open_interest" => d.kind = "notional"
              /\ metric = "funding" => d.kind \in {"indicative", "next", "settled"}
  BY <1>4, Zenon
<1>6. PICK direction \in Directions, kind \in Kinds :
          /\ F.scenario = Scenario(direction, kind)
          /\ venue = "BITFINEX" => kind = "perpetual"
          /\ venue # "COINBASE" =>
                 Declares(F, VenueIdentities(venue), VenueTerms(venue, direction))
  BY <1>3, ManifestsDeclare
<1>7. /\ Fits(ref, Scenario(direction, kind))
      /\ d.identities \subseteq ref.unique /\ d.terms \subseteq DOMAIN ref.terms
      /\ d.features \subseteq found
  <2> HIDE DEF F
  <2>1. QED  BY <1>5, <1>6 DEF Serves
<1>8. /\ Directed \cup {"kind"} \subseteq DOMAIN ref.terms
      /\ Direction(ref.terms) = direction /\ KindOf(ref) = kind
  BY <1>7, FitsProduct, Zenon
<1>9. venue = "COINBASE" =>
          /\ adapter = "ccxt"
          /\ Identities(metric, venue, adapter) \subseteq d.identities
  <2>1. SUFFICES ASSUME venue = "COINBASE"
                 PROVE  /\ adapter = "ccxt"
                        /\ Identities(metric, venue, adapter) \subseteq d.identities
    OBVIOUS
  <2>2. \E dir \in Directions, k \in Kinds : F = Optional("COINBASE", dir, k)
    BY <2>1 DEF BuiltinManifests, Directions, Kinds
  <2>3. PICK dir, k : F = Optional("COINBASE", dir, k)
    BY <2>2
  <2>4. d \in Optional("COINBASE", dir, k).capabilities
    BY <2>3
  <2>5. /\ d.features # {}
        /\ d.kind \in {"indicative", "next", "settled"} => d.identities = Symbol
        /\ d.kind = "notional" => d.identities = {"catalog_instrument"}
    BY <2>4, OptionalFamiliesDeclare
  <2> HIDE DEF F, venue, ref, metric
  <2>6. adapter = "ccxt"
    <3>1. found # {}
      BY <1>7, <2>5
    <3>2. QED  BY <1>2, <3>1 DEF Proven, HasProbe
  <2> HIDE DEF adapter
  <2>7. QED  BY <1>1, <1>5, <2>1, <2>5, <2>6 DEF Identities
<1>10. venue = "BITFINEX" => adapter = venue
  BY <1>8, <1>6 DEF BitfinexIsNative, Selected, Supports
<1>11. venue \in {"GATE", "HYPERLIQUID"} => adapter = venue
  BY <1>2 DEF ExchangeIds
<1>12. Identities(metric, venue, adapter) \subseteq ref.unique
  <2>1. venue # "COINBASE" => VenueIdentities(venue) \subseteq d.identities
    BY <1>5, <1>6 DEF Declares
  <2>2. venue # "COINBASE" => Identities(metric, venue, adapter) = VenueIdentities(venue)
    <3> HIDE DEF venue, adapter, metric
    <3>1. QED  BY <1>2, <1>10, <1>11 DEF Identities, VenueIdentities
  <2> HIDE DEF venue, adapter, metric, ref
  <2>3. QED  BY <1>7, <1>9, <2>1, <2>2
<1>13. req.history => HistoryIdentities(metric, venue, ref) \subseteq ref.unique
  <2>1. CASE metric = "open_interest" /\ venue = "BINANCE" /\ direction = "inverse"
    BY <1>6, <1>7, <2>1, BinanceHistoryServed
  <2>2. CASE ~(metric = "open_interest" /\ venue = "BINANCE" /\ direction = "inverse")
    <3> HIDE DEF venue, metric, ref
    <3>1. QED  BY <1>8, <2>2 DEF HistoryIdentities
  <2>3. QED  BY <2>1, <2>2
<1>14. (reads.terms \ other.terms) \subseteq DOMAIN ref.terms
  <2>1. CASE metric = "funding"
    <3> HIDE DEF venue, adapter, metric, ref
    <3>1. reads.terms \subseteq Directed
      BY <2>1 DEF FetchReads, Reads, FundingTerms
    <3>2. QED  BY <1>8, <3>1
  <2>2. CASE metric = "open_interest"
    <3>1. venue # "COINBASE" => VenueTerms(venue, direction) \subseteq d.terms
      BY <1>5, <1>6, <2>2 DEF Declares
    <3>2. reads.terms = InterestTerms(venue, adapter, direction)
      <4>1. reads.terms = InterestTerms(venue, adapter, Direction(ref.terms))
        <5> HIDE DEF venue, adapter, metric
        <5>1. QED  BY <2>2 DEF FetchReads, Reads
      <4>2. QED  BY <1>8, <4>1
    <3>3. other = Undeclared(venue, adapter, direction)
      BY <1>8
    <3> HIDE DEF venue, adapter, metric, ref, reads, other, F
    <3>4. InterestTerms(venue, adapter, direction) \subseteq Directed \cup {"kind", "amount"}
      BY DEF InterestTerms
    <3>5. "amount" \in InterestTerms(venue, adapter, direction) \ other.terms
              => venue # "COINBASE" /\ "amount" \in VenueTerms(venue, direction)
      <4>1. SUFFICES ASSUME "amount" \in InterestTerms(venue, adapter, direction),
                            "amount" \notin other.terms
                     PROVE  venue # "COINBASE" /\ "amount" \in VenueTerms(venue, direction)
        OBVIOUS
      <4>2. adapter # "ccxt" /\ ~(venue = "HTX" /\ direction = "linear")
        BY <3>3, <4>1 DEF Undeclared, Reads
      <4>3. CountsContracts(venue, adapter, direction)
        BY <4>1 DEF InterestTerms, Directed
      <4>4. QED
        BY <1>6, <1>9, <4>2, <4>3 DEF CountsContracts, VenueTerms, ContractValue, Directions
    <3>6. QED  BY <1>7, <1>8, <3>1, <3>2, <3>4, <3>5
  <2>3. QED  BY <1>1, <2>1, <2>2
<1>15. (reads.optional \ other.optional) \cap ref.ambiguous = {}
  <2>1. venue = "HYPERLIQUID" => adapter # "ccxt"
    BY <1>11
  <2> HIDE DEF venue, adapter, metric
  <2>2. QED  BY <2>1 DEF FetchReads, Reads, Undeclared
<1>16. reads.unique \subseteq ref.unique
  <2> HIDE DEF venue, adapter, metric
  <2>1. reads.unique = Identities(metric, venue, adapter)
                           \cup (IF req.history THEN HistoryIdentities(metric, venue, ref) ELSE {})
    BY DEF FetchReads, Reads
  <2>2. QED  BY <1>12, <1>13, <2>1
<1>17. QED
  BY <1>14, <1>15, <1>16 DEF ReadsFor, UndeclaredFor

\* What Carries says of one record of reads.
LEMMA SuppliedMeansCarried ==
    ASSUME NEW ref, NEW unique, NEW optional, NEW terms,
           unique \subseteq ref.unique, optional \cap ref.ambiguous = {},
           terms \subseteq DOMAIN ref.terms
    PROVE  Carries(ref, Reads(unique, optional, terms))
  BY DEF Carries, Reads

\* A reference that preflight admits carries what the selected adapter may read of
\* it, but for the contract values and the scope that Undeclared lists, for any
\* callers, references, runtimes and clients, if the clients that are asked for
\* Bitfinex have its adapter: what manifests declare and what adapters read agree
\* that far, although they are written apart (manifests.py against the adapters).
THEOREM AdmittedAreServed == BitfinexIsNative /\ Spec => []AdmittedServed
<1>1. ASSUME BitfinexIsNative, ClientInv, FetchProven  PROVE AdmittedServed
  <2>1. SUFFICES ASSUME NEW c \in Callers,
                        calls[c].stage = "fetching", calls[c].request.op = "reference"
                 PROVE  LET req   == calls[c].request
                            reads == ReadsFor(req)
                            other == UndeclaredFor(req)
                        IN  /\ reads.unique \subseteq req.reference.unique
                            /\ (reads.optional \ other.optional)
                                   \cap req.reference.ambiguous = {}
                            /\ (reads.terms \ other.terms) \subseteq DOMAIN req.reference.terms
    BY SuppliedMeansCarried, Zenon DEF AdmittedServed, Admitted
  <2>2. calls[c].request \in client.asks[c]
    BY <1>1, <2>1 DEF ClientInv, CallsValid, Idle
  <2>3. calls[c].request \in Admitted
    BY <2>1 DEF Admitted
  <2>4. /\ Selected(calls[c].request.venue, calls[c].request.reference) # None
        /\ Admits(calls[c].request,
                  Proven(Selected(calls[c].request.venue, calls[c].request.reference),
                         calls[c].request.venue))
    BY <1>1, <2>3, Zenon DEF FetchProven
  <2>5. client \in Clients
    BY <1>1 DEF ClientInv
  <2>6. QED  BY <1>1, <2>2, <2>4, <2>5, AdmittedHasAll, Zenon
<1>2. Spec => []ClientInv
  BY ClientInvInit, ClientInvNext, PTL DEF Spec
<1>3. BitfinexIsNative /\ [Next]_vars => BitfinexIsNative'
  BY DEF BitfinexIsNative
<1>4. QED
  BY <1>1, <1>2, <1>3, PreflightIsProven, PTL DEF Spec

-----------------------------------------------------------------------------
(* Fetches that begin after close().                                       *)

\* The funding client makes three assessments, and checks between them whether it
\* was closed.
LEMMA FundingRechecks ==
    Cardinality(CurrentTargets("funding")) > 1
<1> DEFINE a == Target("indicative", "current")
           b == Target("next", "next")
           c == Target("settled", "settled")
<1>1. a # b
  BY DEF Target
<1>2. IsFiniteSet({a}) /\ Cardinality({a}) = 1
  BY FS_Singleton
<1>3. IsFiniteSet({a, b}) /\ Cardinality({a, b}) = 2
  <2>1. {a, b} = {a} \cup {b} /\ b \notin {a}
    BY <1>1
  <2>2. QED  BY <1>2, <2>1, FS_AddElement
<1>4. Cardinality({a, b, c}) \in {2, 3}
  <2>1. {a, b, c} = {a, b} \cup {c}
    OBVIOUS
  <2>2. QED  BY <1>3, <2>1, FS_AddElement
<1>5. CurrentTargets("funding") = {a, b, c}
  BY DEF CurrentTargets
<1>6. QED
  BY <1>4, <1>5

\* Whoever is closed while a call waits for its probe fetches only for the one
\* kind of call that asks nothing more, for any client and callers
\* (fetch_reference of client.py and funding_client.py).
THEOREM LateFetchesAreKnown == Spec => LateFetches
<1> DEFINE Late(c) == closed /\ calls[c].stage # "fetching" /\ calls'[c].stage = "fetching"
           Known(c) == /\ calls[c].stage = "probing"
                       /\ client.metric = "open_interest" /\ ~calls[c].request.history
<1>1. ASSUME ClientInv, Next, NEW c \in Callers, Late(c)
      PROVE  Known(c)
  <2>1. PICK d \in Callers : ProbeReturns(d) \/ ProbeFails(d) \/ FetchEnds(d)
    BY <1>1 DEF Next, CallFetch, CallKnown, CallProbes, Close, CloseNext, CloseFails
  <2>2. d = c
    BY <1>1, <2>1 DEF ClientInv, ProbeReturns, ProbeFails, FetchEnds
  <2>3. ProbeReturns(c)
    <3>1. SUFFICES ASSUME ProbeFails(c) \/ FetchEnds(c)  PROVE FALSE
      BY <2>1, <2>2
    <3>2. calls' = [calls EXCEPT ![c] = Idle]
      BY <3>1 DEF ProbeFails, FetchEnds
    <3>3. calls'[c] = Idle
      BY <1>1, <3>2 DEF ClientInv
    <3>4. QED  BY <1>1, <3>3 DEF Idle
  <2> DEFINE req   == calls[c].request
             found == Proven(Selected(req.venue, req.reference), req.venue)
  <2>4. calls[c].stage = "probing" /\ calls'[c] = Concluded(req, found)
    <3>1. /\ calls[c].stage = "probing"
          /\ calls' = [calls EXCEPT ![c] = Concluded(req, found)]
      BY <2>3, Zenon DEF ProbeReturns
    <3>2. calls'[c] = Concluded(req, found)
      BY <1>1, <3>1, Zenon DEF ClientInv
    <3>3. QED  BY <3>1, <3>2
  <2>5. Concluded(req, found) # Idle
    BY <1>1, <2>4 DEF Idle
  <2>6. ~Rechecks(req)
    BY <1>1, <2>5, Zenon DEF Concluded
  <2>7. client.metric \in {"open_interest", "funding"}
    BY <1>1, ClientsAssumption DEF ClientInv
  <2>8. QED
    BY <2>4, <2>6, <2>7, FundingRechecks DEF Rechecks
<1>2. ClientInv /\ [Next]_vars
          => [\A c \in Callers :
                closed /\ calls[c].stage # "fetching" /\ calls'[c].stage = "fetching"
                => /\ calls[c].stage = "probing"
                   /\ client.metric = "open_interest" /\ ~calls[c].request.history]_vars
  BY <1>1, Zenon
<1>3. QED
  BY <1>2, ClientInvInit, ClientInvNext, PTL DEF Spec, LateFetches

-----------------------------------------------------------------------------
(* The order of closing.                                                   *)

\* A finite set is listed without repetition.
LEMMA SetListed ==
    ASSUME NEW S, IsFiniteSet(S)
    PROVE  LET n == Cardinality(S)
               s == SetToSeq(S)
           IN  /\ n \in Nat /\ s \in [1 .. n -> S] /\ Len(s) = n
               /\ \A i, j \in 1 .. n : s[i] = s[j] => i = j
               /\ \A x \in S : \E i \in 1 .. n : s[i] = x
<1> DEFINE n == Cardinality(S)
           s == SetToSeq(S)
<1>1. n \in Nat /\ ExistsBijection(1 .. n, S)
  BY FS_CardinalityType
<1>2. \E f \in [1 .. n -> S] : IsInjective(f)
  BY <1>1 DEF ExistsBijection, Bijection, Injection
<1>3. s \in [1 .. n -> S] /\ IsInjective(s)
  BY <1>2, Zenon DEF SetToSeq
<1>4. s \in Injection(1 .. n, S)
  BY <1>3 DEF Injection
<1>5. Cardinality(1 .. n) = n
  BY <1>1, FS_Interval
<1>6. s \in Surjection(1 .. n, S)
  <2> HIDE DEF n, s
  <2>1. QED  BY <1>4, <1>5, FS_Injection DEF n
<1>7. Len(s) = n
  BY <1>1, <1>3
<1>8. QED
  BY <1>1, <1>3, <1>6, <1>7 DEF IsInjective, Surjection

\* The order of closing lists every adapter once, and the transport after them.
Closable(k) == Natives(k) \cup {"ccxt", "transport"}

OrderRight(k) ==
    LET plan == ClosingOrder(k)
    IN  /\ plan \in Seq(Closable(k))
        /\ \A i, j \in 1 .. Len(plan) : plan[i] = plan[j] => i = j
        /\ \A i \in 1 .. Len(plan) : plan[i] = "transport" => i = Len(plan)
        /\ \A a \in Natives(k) \cup ({k.fallback} \ {None}) :
               \E i \in 1 .. Len(plan) : plan[i] = a

LEMMA ClosingOrderRight ==
    ASSUME NEW k \in Clients  PROVE OrderRight(k)
<1> DEFINE S == Natives(k)
           n == Cardinality(S)
           s == SetToSeq(S)
           f == IF k.fallback \in S \cup {None} THEN <<>> ELSE <<k.fallback>>
           t == IF k.owned THEN <<"transport">> ELSE <<>>
<1>1. /\ n \in Nat /\ s \in [1 .. n -> S] /\ Len(s) = n
      /\ \A i, j \in 1 .. n : s[i] = s[j] => i = j
      /\ \A x \in S : \E i \in 1 .. n : s[i] = x
  <2>1. IsFiniteSet(S)
    BY ClientsAssumption
  <2>2. QED  BY <2>1, SetListed
<1>2. k.fallback \in {"ccxt", None} /\ "transport" \notin S
  BY ClientsAssumption DEF Natives
<1>3. ClosingOrder(k) = (s \o f) \o t
  BY DEF ClosingOrder, DistinctAdapters
<1> HIDE DEF S, n, s
<1>4. s \in Seq(S \cup {"ccxt", "transport"})
  BY <1>1
<1> DEFINE a == s \o f
<1>5. /\ Len(a) \in Nat /\ DOMAIN a = 1 .. Len(a) /\ a \in Seq(S \cup {"ccxt", "transport"})
      /\ \A i \in 1 .. Len(a) : a[i] \in S \cup {"ccxt"} /\ a[i] # "transport"
      /\ \A i, j \in 1 .. Len(a) : a[i] = a[j] => i = j
      /\ \A x \in S \cup ({k.fallback} \ {None}) : \E i \in 1 .. Len(a) : a[i] = x
  <2>1. CASE k.fallback \in S \cup {None}
    <3>1. a = s
      BY <1>4, <2>1
    <3>2. QED  BY <1>1, <1>2, <1>4, <2>1, <3>1
  <2>2. CASE k.fallback \notin S \cup {None}
    <3>1. f = <<"ccxt">> /\ k.fallback = "ccxt" /\ "ccxt" \notin S
      BY <1>2, <2>2
    <3>2. /\ a \in Seq(S \cup {"ccxt", "transport"}) /\ Len(a) = n + 1
          /\ \A i \in 1 .. n : a[i] = s[i]
          /\ a[n + 1] = "ccxt"
      <4> DEFINE e == <<"ccxt">>
      <4>1. /\ e \in Seq(S \cup {"ccxt", "transport"}) /\ Len(e) = 1 /\ e[1] = "ccxt"
            /\ a = s \o e
        BY <3>1
      <4> HIDE DEF e, a
      <4>2. /\ s \o e \in Seq(S \cup {"ccxt", "transport"})
            /\ Len(s \o e) = Len(s) + Len(e)
            /\ \A i \in 1 .. Len(s) + Len(e) :
                   (s \o e)[i] = IF i <= Len(s) THEN s[i] ELSE e[i - Len(s)]
        BY <1>4, <4>1, ConcatProperties
      <4>3. QED  BY <1>1, <4>1, <4>2
    <3> HIDE DEF a, f
    <3>3. \A i \in 1 .. n + 1 : i = n + 1 \/ i \in 1 .. n
      BY <1>1
    <3>4. \A i, j \in 1 .. n + 1 : a[i] = a[j] => i = j
      BY <1>1, <3>1, <3>2, <3>3
    <3>5. \A x \in S \cup {"ccxt"} : \E i \in 1 .. n + 1 : a[i] = x
      BY <1>1, <3>2
    <3>6. QED  BY <1>1, <1>2, <3>1, <3>2, <3>3, <3>4, <3>5
  <2>3. QED  BY <2>1, <2>2
<1> HIDE DEF a, f
<1> DEFINE plan == a \o t
<1>6. CASE ~k.owned
  <2>1. plan = a
    BY <1>5, <1>6
  <2>2. QED  BY <1>3, <1>5, <2>1 DEF OrderRight, Closable, S, a
<1>7. CASE k.owned
  <2>1. /\ Len(plan) = Len(a) + 1 /\ plan \in Seq(S \cup {"ccxt", "transport"})
        /\ \A i \in 1 .. Len(a) : plan[i] = a[i]
        /\ plan[Len(a) + 1] = "transport"
    BY <1>5, <1>7
  <2> HIDE DEF plan, t
  <2>2. \A i \in 1 .. Len(plan) : i = Len(a) + 1 \/ i \in 1 .. Len(a)
    BY <1>5, <2>1
  <2>3. \A i \in 1 .. Len(plan) : plan[i] = "transport" => i = Len(plan)
    BY <1>5, <2>1, <2>2
  <2>4. \A i, j \in 1 .. Len(plan) : plan[i] = plan[j] => i = j
    BY <1>5, <2>1, <2>2
  <2>5. ASSUME NEW x \in S \cup ({k.fallback} \ {None})
        PROVE  \E i \in 1 .. Len(plan) : plan[i] = x
    <3>1. PICK i \in 1 .. Len(a) : a[i] = x
      BY <1>5
    <3>2. i \in 1 .. Len(plan) /\ plan[i] = x
      BY <1>5, <2>1, <3>1
    <3>3. QED  BY <3>2
  <2>6. ClosingOrder(k) = plan
    BY <1>3 DEF plan, a, t
  <2>7. QED
    BY <2>1, <2>3, <2>4, <2>5, <2>6 DEF OrderRight, Closable, S
<1>8. QED
  BY <1>6, <1>7

\* What was closed and what is left are the beginning and the rest of the order;
\* after a failure nothing is left and the rest stays open.
CloseInv ==
    /\ client \in Clients
    /\ ~closed => unclosed = <<>> /\ shut = <<>>
    /\ LET plan == ClosingOrder(client)
       IN  /\ shut \in Seq(Closable(client)) /\ unclosed \in Seq(Closable(client))
           /\ Len(shut) <= Len(plan)
           /\ \A i \in 1 .. Len(shut) : shut[i] = plan[i]
           /\ unclosed # <<>> => Len(shut) + Len(unclosed) = Len(plan)
           /\ \A i \in 1 .. Len(unclosed) : unclosed[i] = plan[Len(shut) + i]

LEMMA CloseInvInit ==
    ASSUME Init  PROVE CloseInv
<1>1. client \in Clients /\ unclosed = <<>> /\ shut = <<>>
  BY DEF Init
<1>2. ClosingOrder(client) \in Seq(Closable(client))
  BY <1>1, ClosingOrderRight DEF OrderRight
<1>3. QED
  BY <1>1, <1>2 DEF CloseInv

LEMMA CloseInvNext ==
    ASSUME CloseInv, [Next]_vars  PROVE CloseInv'
<1> DEFINE plan == ClosingOrder(client)
           C    == Closable(client)
<1>1. client' = client
  BY DEF Next, vars, CallFetch, CallKnown, CallProbes, ProbeReturns, ProbeFails,
         FetchEnds, Close, CloseNext, CloseFails
<1>2. client \in Clients /\ plan \in Seq(C)
  BY ClosingOrderRight DEF CloseInv, OrderRight
<1>3. plan' = plan /\ C' = C
  BY <1>1
<1>4. /\ shut \in Seq(C) /\ unclosed \in Seq(C) /\ Len(shut) <= Len(plan)
      /\ ~closed => unclosed = <<>> /\ shut = <<>>
      /\ \A i \in 1 .. Len(shut) : shut[i] = plan[i]
      /\ unclosed # <<>> => Len(shut) + Len(unclosed) = Len(plan)
      /\ \A i \in 1 .. Len(unclosed) : unclosed[i] = plan[Len(shut) + i]
  BY DEF CloseInv
<1> HIDE DEF plan, C
<1>5. SUFFICES /\ shut' \in Seq(C) /\ unclosed' \in Seq(C) /\ Len(shut') <= Len(plan)
               /\ ~closed' => unclosed' = <<>> /\ shut' = <<>>
               /\ \A i \in 1 .. Len(shut') : shut'[i] = plan[i]
               /\ unclosed' # <<>> => Len(shut') + Len(unclosed') = Len(plan)
               /\ \A i \in 1 .. Len(unclosed') : unclosed'[i] = plan[Len(shut') + i]
  BY <1>1, <1>2 DEF CloseInv, plan, C
<1>6. CASE UNCHANGED <<closed, unclosed, shut>>
  BY <1>4, <1>6
<1>7. CASE Close
  <2>1. unclosed' = plan /\ shut' = <<>> /\ closed'
    BY <1>4, <1>7 DEF Close, plan
  <2>2. QED  BY <1>2, <2>1
<1>8. CASE CloseNext
  <2>1. /\ unclosed # <<>> /\ shut' = Append(shut, Head(unclosed))
        /\ unclosed' = Tail(unclosed) /\ closed' = closed /\ closed
    BY <1>4, <1>8 DEF CloseNext
  <2>2. /\ Len(unclosed) \in Nat \ {0} /\ Head(unclosed) = unclosed[1] /\ unclosed[1] \in C
        /\ unclosed' \in Seq(C) /\ Len(unclosed') = Len(unclosed) - 1
        /\ \A i \in 1 .. Len(unclosed') : unclosed'[i] = unclosed[i + 1]
    BY <1>4, <2>1
  <2>3. /\ Len(shut) \in Nat /\ shut' \in Seq(C) /\ Len(shut') = Len(shut) + 1
        /\ \A i \in 1 .. Len(shut) : shut'[i] = shut[i]
        /\ shut'[Len(shut) + 1] = unclosed[1]
    BY <1>4, <2>1, <2>2
  <2>4. unclosed[1] = plan[Len(shut) + 1] /\ Len(plan) \in Nat
    BY <1>2, <1>4, <2>2
  <2>5. \A i \in 1 .. Len(shut') : i = Len(shut) + 1 \/ i \in 1 .. Len(shut)
    BY <2>3
  <2>6. \A i \in 1 .. Len(shut') : shut'[i] = plan[i]
    BY <1>4, <2>3, <2>4, <2>5
  <2>7. Len(shut') <= Len(plan) /\ Len(shut') + Len(unclosed') = Len(plan)
    BY <1>4, <2>1, <2>2, <2>3, <2>4
  <2>8. ASSUME NEW i \in 1 .. Len(unclosed')
        PROVE  unclosed'[i] = plan[Len(shut') + i]
    <3>1. i + 1 \in 1 .. Len(unclosed) /\ Len(shut) + (i + 1) = Len(shut') + i
      BY <2>2, <2>3
    <3>2. unclosed'[i] = plan[Len(shut) + (i + 1)]
      BY <1>4, <2>2, <3>1
    <3>3. QED  BY <3>1, <3>2
  <2>9. QED  BY <2>1, <2>2, <2>3, <2>6, <2>7, <2>8
<1>9. CASE CloseFails
  <2>1. unclosed' = <<>> /\ shut' = shut /\ closed' = closed
    BY <1>9 DEF CloseFails
  <2>2. QED  BY <1>4, <2>1
<1>10. CASE \E c \in Callers : CallFetch(c) \/ CallKnown(c) \/ CallProbes(c)
                                  \/ ProbeReturns(c) \/ ProbeFails(c) \/ FetchEnds(c)
  BY <1>6, <1>10 DEF CallFetch, CallKnown, CallProbes, ProbeReturns, ProbeFails, FetchEnds
<1>11. QED
  BY <1>6, <1>7, <1>8, <1>9, <1>10 DEF Next, vars

\* However many venues an adapter serves, and whether it is the fallback too, it is
\* closed at most once; an owned transport is closed last, and only when every
\* adapter is, for any client (close of client.py and funding_client.py).
THEOREM ClosesInOrder == Spec => []ClosedInOrder
<1>1. CloseInv => ClosedInOrder
  <2> SUFFICES ASSUME CloseInv  PROVE ClosedInOrder
    OBVIOUS
  <2> DEFINE plan == ClosingOrder(client)
             n    == Len(shut)
  <2>1. /\ n \in Nat /\ DOMAIN shut = 1 .. n /\ n <= Len(plan)
        /\ \A i \in 1 .. n : shut[i] = plan[i]
    BY DEF CloseInv
  <2>2. /\ Len(plan) \in Nat /\ plan \in Seq(Closable(client))
        /\ \A i, j \in 1 .. Len(plan) : plan[i] = plan[j] => i = j
        /\ \A i \in 1 .. Len(plan) : plan[i] = "transport" => i = Len(plan)
        /\ \A a \in Natives(client) \cup ({client.fallback} \ {None}) :
               \E i \in 1 .. Len(plan) : plan[i] = a
    <3>1. OrderRight(client)
      BY ClosingOrderRight DEF CloseInv
    <3>2. QED  BY <3>1 DEF OrderRight
  <2> HIDE DEF plan, n
  <2>3. IsInjective(shut)
    BY <2>1, <2>2 DEF IsInjective
  <2>4. ASSUME "transport" \in Range(shut)
        PROVE  /\ shut[n] = "transport"
               /\ Natives(client) \cup {client.fallback} \subseteq Range(shut) \cup {None}
    <3>1. PICK i \in 1 .. n : shut[i] = "transport"
      BY <2>1, <2>4 DEF Range
    <3>2. n = Len(plan) /\ i = n
      BY <2>1, <2>2, <3>1
    <3>3. ASSUME NEW a \in Natives(client) \cup ({client.fallback} \ {None})
          PROVE  a \in Range(shut)
      <4>1. PICK j \in 1 .. Len(plan) : plan[j] = a
        BY <2>2
      <4>2. j \in DOMAIN shut /\ shut[j] = a
        BY <2>1, <3>2, <4>1
      <4>3. QED  BY <4>2 DEF Range
    <3>4. QED  BY <3>1, <3>2, <3>3
  <2>5. QED  BY <2>3, <2>4 DEF ClosedInOrder, n
<1>2. QED
  BY <1>1, CloseInvInit, CloseInvNext, PTL DEF Spec

\* Every variable keeps its type: callers wait only for what they asked, the cache
\* holds features of venues that some adapter serves, and only a closed client has
\* something left to close.
THEOREM ClientTypeCorrect == Spec => []TypeOK
<1>1. ClientInv /\ CloseInv => TypeOK
  <2> SUFFICES ASSUME ClientInv, CloseInv  PROVE TypeOK
    OBVIOUS
  <2>1. \A c \in Callers :
            \/ calls[c] = Idle
            \/ /\ calls[c].stage \in {"probing", "fetching"}
               /\ calls[c].request \in client.asks[c]
    BY DEF ClientInv, CallsValid
  <2>2. \A key \in DOMAIN features :
            /\ key[2] \in DOMAIN client.natives \cup ExchangeIds
            /\ features[key] \subseteq Features
    BY ProvenAreFeatures DEF ClientInv, CacheProven
  <2>3. \A i \in DOMAIN unclosed :
            unclosed[i] \in Natives(client) \cup {"ccxt", "transport"}
    BY DEF CloseInv, Closable
  <2>4. QED
    BY <2>1, <2>2, <2>3 DEF TypeOK, ClientInv, CloseInv
<1>2. QED
  BY <1>1, ClientInvInit, ClientInvNext, CloseInvInit, CloseInvNext, PTL DEF Spec

=============================================================================
