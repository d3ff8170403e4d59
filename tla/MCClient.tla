------------------------------- MODULE MCClient -------------------------------
(* Clients for TLC.  A broad one for every venue and metric: one caller asks *)
(* for references that know or lack a kind, a direction and a contract value *)
(* and in which one identity is missing or ambiguous.  And clients of two    *)
(* callers whose calls overlap each other and close().                       *)
EXTENDS Client

CONSTANTS c1, c2

Reference(terms, unique, ambiguous) ==
    [terms |-> terms, unique |-> unique, ambiguous |-> ambiguous]

Selectors == {"instrument", "status_instrument", "catalog_instrument", "settlement_asset",
              "pair", "product_family", "rpc_instrument", "rpc_product_family"}

\* Selectors that some capability or some adapter of a venue asks for.
SelectorsOf(venue) ==
    UNION {UNION {d.identities : d \in BuiltinManifests[venue][m].capabilities} :
               m \in DOMAIN BuiltinManifests[venue]}

Economics(kind, direction) ==
    LET full == Scenario(direction, kind) IN
    {full, [unit |-> full.unit, settlement |-> full.settlement],
     [kind |-> kind, settlement |-> full.settlement]}

Terms ==
    LET known == UNION {Economics(k, d) : k \in {"perpetual", "future"}, d \in {"linear", "inverse"}} IN
    known \cup {[a \in DOMAIN t \cup {"amount"} |-> IF a = "amount" THEN "given" ELSE t[a]] : t \in known}

References(venue) ==
    LET asked == SelectorsOf(venue) IN
    UNION {{Reference(t, asked, {})}
           \cup {Reference(t, asked \ {s}, {}) : s \in asked}
           \cup {Reference(t, asked \ {s}, {s}) : s \in asked} : t \in Terms}

Ask(op, venue, ref, history) ==
    [op |-> op, venue |-> venue, reference |-> ref, history |-> history]

NativeVenues(metric) ==
    {"BINANCE", "BINGX", "BYBIT", "GATE", "BITFINEX", "DEEPCOIN", "KUCOIN", "HTX", "TOOBIT",
     "GRVT", "LIGHTER", "BTSE", "XT", "OKX", "HYPERLIQUID", "MEXC", "KRAKEN"}
    \cup (IF metric = "open_interest" THEN {"PHEMEX"} ELSE {})

Built(metric, natives, owned, asks) ==
    [metric |-> metric, natives |-> natives, fallback |-> "ccxt", owned |-> owned, asks |-> asks]

Asking(m, venue) ==
    Built(m, [v \in {venue} \cap NativeVenues(m) |-> v], TRUE,
          [c \in Callers |->
              IF c = c1 THEN {Ask("reference", venue, r, h) : r \in References(venue), h \in BOOLEAN}
              ELSE {}])

Broad ==
    {Asking(m, venue) : m \in {"open_interest", "funding"}, venue \in DOMAIN BuiltinManifests}

\* Callers of a client whose optional adapter serves two venues, one of them as
\* its own adapter and one as the fallback, beside a native adapter.
CompleteReference(venue) == Reference([kind |-> "perpetual", unit |-> "base", settlement |-> "quote",
                               amount |-> "given"], SelectorsOf(venue), {})
Shared ==
    {Built(m, [v \in {"COINBASE", "OKX"} |-> IF v = "OKX" THEN v ELSE "ccxt"], o,
           [c \in Callers |-> {Ask(op, v, CompleteReference(v), h) :
               op \in {"fetch", "reference", "plan"}, v \in {"COINBASE", "BITGET", "OKX"},
               h \in BOOLEAN}]) :
        m \in {"open_interest", "funding"}, o \in BOOLEAN}

MCClients == Broad \cup Shared

MCCoinbase == {Asking("open_interest", "COINBASE")}

\* An installed runtime with every method, one that lacks the history methods and
\* all of Bitget's, and none installed.
MCRuntimes ==
    {[v \in ExchangeIds |-> Features],
     [v \in ExchangeIds |-> IF v = "BITGET" THEN {}
                            ELSE {"open_interest", "specialized_catalog", "funding"}],
     [v \in ExchangeIds |-> {}]}

=============================================================================
