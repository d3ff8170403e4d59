# Formal models of perp-md

TLA+ models of `perp_md`, the asynchronous acquisition library for open interest
and funding of perpetual markets, with the TLC configurations that check them
and the TLAPS proofs of the results that matter most. Paths below are relative
to the repository (`src/perp_md/...`); `PROJECT.json` maps every definition to
the lines it stands for.

Run from this directory:

    tlc -workers 2 -config MCTransport.cfg MCTransport
    tlapm TransportProofs.tla

## 1. The system

All code runs on one asyncio event loop. A step is never interrupted except at
an `await`, so an action of the models is the code between two suspension
points, and what is hard is the order in which coroutines, tasks, done
callbacks and timers are resumed, what was cancelled meanwhile, and what state
is stale when it is used after an `await`.

| Component | State it keeps | Operations | Talks to |
|---|---|---|---|
| HTTP transport (`transport.py`) | task cache with stamps, expiry timers, two levels of semaphores, one lazily created HTTP client | `get`, `post`, `invalidate_get`, `close`, done callback, expiry | httpx; every native adapter |
| Request pacer (`pacing.py`) | lock, completion time of the last operation | `request` | Deepcoin, BingX, MEXC adapters; transport |
| Optional-provider catalog cache (`adapters/ccxt.py`) | per venue: exchange client, load time, size, expiry timer, lock, retry cooldown; borrow counts, retired clients, closing tasks, load semaphore | `fetch` (borrow and release), `_market`, `_retain_catalog`, `_discard_catalog`, `close`, timers | CCXT exchange clients |
| Optional-provider acquisition (`adapters/ccxt.py`, `adapters/ccxt_funding.py`) | none beyond the borrowed client | current value, optional history, symbol resolution | catalog cache |
| Clients (`client.py`, `funding_client.py`) | `_closed`, runtime feature cache, adapters, owned transport | `fetch`, `fetch_reference`, `plan_reference`, `runtime_features`, `close` | adapters, transport, capability assessment |
| Native funding adapters (`adapters/funding.py`) | pacers only | current rate, paged history | transport, pacer |
| Native open-interest adapters (`adapters/native/*`) | BingX pacer only | current value, histories joined with prices | transport, pacer |
| Funding intervals (`funding_values.py`) | none | window durations with millisecond tolerance, interval preservation | funding adapters |
| Normalisation (`normalization.py`) | none | contracts to notional and base quantity | adapters |
| Resume (`history.py`) | none | `find_resume_time` | callers of the library |
| Identity and capabilities (`identity.py`, `capabilities.py`, `adapters/manifests.py`) | none (tables) | which native name is sent, whether a request is supported, planning | clients, adapters |
| Models, errors, wire format | none (immutable values) | validation, strict JSON | everything |

Interactions: a client selects an adapter and awaits its `fetch`; a native
adapter awaits one or several transport requests, some through a pacer, some in
a `gather`; identical requests of different callers meet in the transport's
cache. The CCXT adapters do not use the transport: they borrow a client from
the catalog cache. `close()` of a client closes its adapters one after another
and then the transport it owns.

What makes each component correct, and where it is hard:

- Transport: one running request per key, whoever gives up waiting; a response
  served from the cache is young; nothing stays cached for ever; nobody is
  cancelled for somebody else; `close()` leaves no client, task or timer. Hard:
  eviction by callers and timers that act late, the gap between the end of a
  task and its done callback, tasks that were created but have not run.
- Pacer: the interval holds between operations that fail or are cancelled
  anywhere. Hard: a paced operation is not the same as its HTTP request.
- Catalog cache: a client in use is never closed, no client is leaked, limits
  hold, a venue is not reloaded too often. Hard: four independent reasons to
  discard a catalog while another fetch is using it across awaits.
- Clients: no use after `close()`, features cached once. Hard: checks before
  awaits.
- Paged histories: complete within the requested range, ordered, without
  duplicates, and finite; failures after a current success are reported and do
  not lose the current value. Hard: short pages, repeated pages, rows that
  arrive while pages are read.
- Intervals, resume, capabilities: pure functions with boundary cases.

## 2. Plan

Order of work. Everything but the last item is done.

1. `Transport` (with `MCTransport`, `TransportProofs`): every other component
   that does I/O stands on it.
2. `PacedRequests` (with `PacedRequestsProofs`).
3. `CatalogCache` (with `MCCatalogCache`, `CatalogCacheProofs`).
4. `SharedRequests`, the abstract promise of the transport, which `Transport`
   implements (`Promise == INSTANCE SharedRequests WITH ...`), and `LentClients`,
   that of the catalog cache (`Lending == INSTANCE LentClients WITH ...`).
5. `HistoryRows`, `FundingHistory` and `OpenInterestHistory`: the paged walks of
   all adapters over a venue that publishes while it is read, with what the
   transport may still have cached below numbered pages.
6. `Preflight` and `Manifests`: `assess_capability` and the tables it reads.
7. `Client`: both clients over 6, probes and fetches against `close()`.
8. `FundingIntervals`, `ResumeTime`: integer arithmetic and sets of times,
   proved for all inputs instead of run (`HistoryTheorems`).
9. The refinements of 4 and the safety of 5 and 7 as theorems
   (`TransportProofs`, `CatalogCacheProofs`, `FundingHistoryProofs`,
   `OpenInterestHistoryProofs`, `ClientProofs`).
10. Left: one module that composes `Client` with `Transport`, to say what a
    fetch that outlives `close()` leaves open. Both sides are modelled
    (`LateFetches`, and `CleanShutdown` with its ghost `reused`); the
    composition is not.

How the modules build on each other:

    SharedRequests <-- refined by -- Transport <-- MCTransport, TransportProofs
    PacedRequests <-- PacedRequestsProofs
    LentClients <-- refined by -- CatalogCache <-- MCCatalogCache, CatalogCacheProofs
    HistoryRows <-- FundingHistory      <-- MCFundingHistory, FundingHistoryProofs
                <-- OpenInterestHistory <-- MCOpenInterestHistory, OpenInterestHistoryProofs
                <-- ResumeTime
    ResumeTime, FundingIntervals <-- HistoryTheorems <-- both history proofs
    Preflight <-- PreflightProofs <-- ClientProofs
    Preflight, Manifests <-- Client <-- MCClient, ClientProofs

## 3. The modules

### Transport

A key is a member of `Keys` (method, URL and canonical parameters), `HostOf`
gives its host. `cache`, `age`, `expiry` and `timer` are `_cache` (task and
stamp), `_expiry` and the timers the event loop holds; a timer is named by the
task it would evict. A task is `idle` (identity free), `new` (created, not yet
run), `queued` (waits for the global semaphore), `holding` (waits for the host
semaphore), `sent`, `done` (finished, callback pending) or `settled`.

| Action | Code |
|---|---|
| `Join`, `Hit`, `Request` | `_cached` up to its first suspension: join, finished future, new task |
| `Wake`, `Abandon` | the shielded wait returns or its caller is cancelled; `Deliver` evicts before `RequestError` |
| `InvalidateGet` | `invalidate_get`; it compares the identity of the response, which is the identity of its task |
| `Start`, `AcquireGlobal`, `AcquireHost`, `SendClosed`, `Respond`, `CancelTask` | the `request()` closures of `get` and `post` |
| `Settle` | `_completed`, the done callback |
| `Expire` | a due `call_later` runs `_evict` |
| `Close`, `CloseGathered`, `CloseDone` | `close` up to the gather, up to `aclose`, to its end |
| `Tick` | one unit of time |
| `Collect` | a task nobody refers to is freed and its identity reused (external) |

Times are relative and saturate, so there is no clock that grows. A `Tick` is
longer than a loop iteration: it cannot happen while a done callback is
pending. `SendClosed` is the request that fetched the HTTP client before
`close()` took it. A response identity equals a task identity because each
task parses its own body. Validation in `__post_init__` is `LimitsAssumption`.

`SharedRequests` is what callers may take this machinery for: a request of a
key runs at most once, a call shares the running request or is served a
response not older than the TTL, and only when neither exists does a request
begin; a failure may be withdrawn by whoever hears of it first, a response only
by age or by the caller that rejects it. It has no stamps, timers, semaphores or
HTTP clients. `AnswersShared` says that `Transport` implements it: `run` is the
stage and outcome of a task, `offered` the tasks in the cache, `told` the tasks
whose callback ran. Joining, hitting, expiring and `close()` are then steps of
the promise, and everything about semaphores and clients is a stutter.

`PendingCached` (one running request per key), `TimerDiscipline` and
`RetentionBounded` (timers and settled entries belong together),
`OnlyCloseCancels`, `CleanShutdown`, `FreshHits`, `ResponsesKept`; under
fairness `EveryCallAnswered`, `ResponsesExpire`, `CloseTerminates`.
`CleanShutdown` speaks of a `close()` during which nobody called: there is no
closed flag, and a fetch that goes on after `close()` creates a new HTTP client.

### PacedRequests

A call is `idle`, waits for the `lock`, sleeps or runs its operation, which is
one transport request (`sent`). `Cancel` ends the operation and leaves the
request running: that is `asyncio.shield` in the transport. `last` is the time
since `_last_completion`, `gap` the time since an operation ended in whatever
way; that the two agree is part of the proof, and what a missing `finally`
would break.

### CatalogCache, LentClients

`catalog` and `older` are `exchanges`, `_loaded_at`, `_catalog_sizes` and
`_expiry`, which the code always changes together; `older` is the dictionary's
insertion order, by which idle catalogs are evicted: the venues that stand before
a venue. The sum of the sizes is the cardinality of a disjoint union. A fetch is `idle`, waits
in the client for a runtime `probe` or in the adapter for the venue `lock`, waits for a load slot (`wait`), loads (`load`), closes a
client whose load failed (`closefail`) or was cancelled (`closecancel`), or
uses a borrowed client (`use`).

| Action | Code |
|---|---|
| `Call`, `Arrive`, `Release` | `fetch` up to `_market`, at once or behind a probe of `fetch_reference`; `_release_market` in its `finally` |
| `LookupHit`, `LookupMiss`, `Refuse`, `Construct`, `StartLoad`, `Loaded`, `LoadFailed`, `FailedClosed`, `CancelledClosed` | `_market` |
| `Retain`, `Discard` | `_retain_catalog`, `_discard_catalog` with `_close_exchange` (operators of the actions that call them) |
| `Expire`, `DropOversized`, `Closed` | the expiry timer, the `call_soon` discard, the end of a closing task |
| `Close`, `CloseGathered` | `close` |
| `Cancel`, `Tick` | the fetch is cancelled; time |

Whether an instrument resolves in a catalog is an input. The cooldown and the
timer that clears it end in the same tick and are one countdown. A second
cancellation during `exchange.close()` counts as the end of that closing.
The clients refuse calls after `close()`, so `Call` needs an open adapter; fetches
that are inside go on, and those whose probe was awaited arrive (`Arrive`), since
`fetch_reference` checks `_closed` once, before its first await. Either may load
and retain a new client after `close()` returned. The branch of `_market` that retains
an exchange without an expiry timer serves exchanges put into the public
dictionary from outside and is not modelled. The runtime probe closes the client
it constructs and leaves the cache alone.

`LentClients` is what fetches may take all this for: who has which client. A
venue has at most one client in preparation and one on offer; a fetch is lent
what is on offer; what is withdrawn is never lent again, and is closed once, as
soon as nobody has it. It has no catalogs, sizes, locks, counters, timers or
cooldowns. `ClientsLent` says that `CatalogCache` implements it: a venue's client in
preparation is that of its loader, the one on offer that of its catalog, and a
fetch has a client while it is in `use`. Expiry, refresh, limits and `close()`
are then one and the same step, `Withdraw`, and what concerns locks, load slots
and time is a stutter.

`InUseStaysOpen`, `NoOrphan`, `RetentionBounded` (once no scheduled discard is
left), `LoadsSpaced`, `ClientsLent`, which fails as soon as a counter is wrong when
it is used (that the counters always are the borrowers, `UsersCounted`, is proved and
not run); under fairness `FetchesEnd`,
`CatalogsExpire`, `AllClosedEventually` (after `close()` the time comes when no
client is open and none is opened any more).

### HistoryRows, FundingHistory

`HistoryRows` says what a page of a venue and the range filter of an adapter
hold; rows are known by their times, counted in settlements or buckets.

`FundingHistory` is one `fetch()` of any of the seventeen native funding
adapters or of the optional provider. What distinguishes the adapters is a
record (`Declared`): whether metadata routes the request, how older settlements
are addressed (`forward` cursor, `before` or `follow` a time, page `number`,
`token`, a `download` of everything, one bounded page), whether the range is sent,
and what ends the walk. The actions interpret it:

| Action | Code |
|---|---|
| `Call` | the checks before the first `await` of `fetch` |
| `CurrentArrives`, `CurrentMissing`, `CurrentFails`, `Enriched` | the current requests and what they lead to (`WithCurrent`) |
| `PageArrives` (`TakePage`, `TakeSettled`, `TakeOptional`), `PageFails` | one page of a walk; `HistoryFailed` is the `except Exception` around it |
| `LatestArrives`, `LatestFails` | Hyperliquid's second request for a range in the past |
| `Cancel` | the fetch is cancelled at an `await` |
| `Settle`, `Expire` | the venue publishes; the oldest cached page expires (external) |

A venue is `honest`, `stuck` (ignores how it is addressed) or `capped` (short
pages with more behind them). `responses` are pages the transport still holds,
keyed as its cache is: a second fetch of the same history may read some of them.

A call may come without a range, with one that is open at either end, or with a
closed one: Binance reads one page for a range without a start, MEXC and XT only
where there is no range at all.

`HistoryComplete` (no settlement of an explicit range is missing when no issue is
reported), `WindowsObserved` (neighbours in a result are neighbours at the
venue: their distance is published as observed funding window),
`SettledCurrentRecent`, `CurrentSurvives`, `FetchEnds`. The first two carry
conditions. Walks in numbered pages (Deepcoin, HTX, MEXC) must find every page
fresh (`~reused`): when a settlement has moved the rows, a fresh first page and a
second page from the transport's cache leave one out between them, which
`ObservedWindows`, the same property without the condition, shows (section 4). This is the one place where a cache below changes what a
walk returns. `HistoryComplete` (`Trusted`) further leaves out a venue that ignores
page numbers, and one that caps its pages below the limit where a short page ends
the walk (Toobit); nothing in such a result tells that rows are missing.

### OpenInterestHistory

One `fetch()` of any of the eighteen native open-interest adapters or of the
optional provider, again as records. The range is clamped to the present, to the
latest complete bucket or to the documented retention (`OpeningTime`,
`ClosingTime`, `NothingLeft`); where the venue does not value its rows a second
walk collects mark prices (`stage = "marks"`) and `Joined` keeps the buckets that
have one. A venue may be `sparse`: it counts the buckets it omits as rows of a
page. `candles`, the marks, are published with their bucket, one later, or never.
A behaviour is one fetch, and the transport holds none of its pages: these walks
are addressed by times, never by numbers, so a cached page is only an older
answer to the same question.

`HistoryComplete`, `MarksJoined` (a linear row is joined to the mark of its own
bucket or left out and reported, and none is left out whose mark was there when
the second walk began), `CurrentSurvives`.

### Preflight, Manifests, Client

`Preflight` holds the decisions of `capabilities.py` as operators: which
alternatives of a manifest a reference does not contradict, what each lacks
(`RequirementIssues`), the verdict (`Judge`), what a plan may promise
(`PlannedRetrievals`), and how a legacy instrument becomes a reference.
`Manifests` is `manifests.py`: every provider, mapping and capability, without
names and lineage. `Client` is `OpenInterestClient` and `FundingClient`:

| Action | Code |
|---|---|
| `CallFetch` | `fetch` with a legacy instrument |
| `CallKnown`, `CallProbes`, `ProbeReturns`, `ProbeFails` | `runtime_features` with its cache, and what `fetch_reference`, `plan_reference` do when they know the features (`Concluded`) |
| `FetchEnds` | the adapter's `fetch` returns, raises or is cancelled |
| `Close`, `CloseNext`, `CloseFails` | `close`: adapters one after another, then an owned transport |

What each adapter reads of a reference (`FetchReads`) is written from the
adapters, with everything they may come to read of it; what preflight asks is
written from the manifests, and `AdmittedServed` compares them for every venue.
`Undeclared` lists what adapters may read although no manifest declares it:

- the contract value, by the optional open-interest adapter where a venue reports
  only an amount (`ccxt.py:171-177`) and always for Coinbase (`ccxt.py:309`); its
  capabilities (`manifests.py:1617`, `1649`) ask for no multiplier, while the
  direction it also needs comes with the scenario of each capability;
- the contract multiplier of HTX's linear contracts, where the venue leaves out
  `amount` (`_common.py:308-311`);
- Hyperliquid's optional perpetual scope, which must not be ambiguous
  (`optional_adapter_identity`) and which preflight does not look at.

`AdmittedComplete` is the property without these exceptions; section 4 has what
becomes of a Coinbase reference without a contract value, and `OpenInterestHistory` has the consequence, a current value that cannot
be computed (`CurrentUnvalued`). Also seen while
modelling: PHEMEX declares runtime-conditional funding although the default
optional funding adapter does not serve PHEMEX, so that capability is never
proven; and a `runtime_unavailable` verdict names the issues that all
alternatives share, while one alternative may lack metadata as well.

`AdmittedServed`, `AdmittedComplete`, `FetchProven` (a request is admitted by what its own adapter
proves for its own venue), `LateFetches` (which calls reach an adapter after
`close()`), `ClosedInOrder`.

### FundingIntervals, ResumeTime

The window arithmetic of `funding_values.py` and `find_resume_time`, as operators;
their theorems are in `HistoryTheorems`, see section 5.

## 4. The runs

| Run | Instance | Shows |
|---|---|---|
| `transport_safety` | 2 callers, 2 keys on 1 host, 3 tasks, global limit 2, host limit 1, TTL 1; symmetric in tasks, callers and keys | the safety and action properties |
| `transport_liveness` | 1 caller, 2 keys, 2 tasks, fair | the liveness properties |
| `catalog_safety` | 3 venues, 2 entries, 3 bytes, sizes 1, 2, 4, 1 load slot, 4 clients, 2 fetches; symmetric | the safety and action properties, the refinement |
| `catalog_liveness` | 2 venues, 1 entry, 1 load slot, 3 clients, 2 fetches, fair | the liveness properties |
| `catalog_shutdown` | as before | violation of `ShutdownClosesAll` |
| `pacing` | 3 calls, interval 3, fair | spacing and progress |
| `pacing_overlap` | as before | violation of `RequestsSerialized` |
| `funding_history` | every adapter, 5 ranges (none, open, half open, closed, up to the present), 4 backlogs, 3 venues; times 0..6, the first call at 5; pages of 2 rows, 3 pages, 2 fetches; fair | completeness, windows, current values, termination |
| `funding_settled_current` | the optional provider, 1 fetch | violation of `SettledCurrentLatest` |
| `interest_history` | every adapter, 5 ranges, 4 backlogs, 3 venues; times 0..5, the call at 4; pages of 2 rows, 3 pages, retention 4 | completeness, joins, current values |
| `interest_short_page` | Binance, a sparse venue | violation of `SparseTraversed` |
| `client_preflight` | every venue and both metrics with every reference that knows or lacks a kind, a direction, a contract value or one identity; and two callers of an adapter shared by two venues; 3 runtimes | agreement of manifests and adapters, probes against `close()` |

Why the bounds are enough. Transport: three tasks allow a key whose old task is
still referred to by a timer or a caller, a second request for it, and a third
for the other key; a host limit below the global limit lets a request hold one
semaphore while it waits for the other; a TTL of one tick separates fresh, due
and late. Catalog cache: three venues for two entries make eviction choose; the
sizes make one catalog fit alone, two fit together, and one exceed the limit;
with two fetches one can use what the other discards; one load slot makes loads
of different venues wait (the code has two slots, and with two slots two
fetches would never wait for one); lifetimes of one and two ticks separate a miss that may refresh from
an expiry. Pacing: with an interval of three a sleep can be cut at different
remainders, and three calls make a holder and two waiters.

Histories: with pages of two rows and backlogs of up to five, a walk takes up
to three pages, stops in the middle of a page or at the bound of `MaxPages`, and
its range begins before, inside or after what the venue has; one time step past
the first call lets a row arrive between two pages; two fetches are what it
takes to meet a cached page. Clients: selection and assessment look at one
venue at a time, so one venue per behaviour is enough for `AdmittedServed`; one
probe that is overtaken by `close()` or by another probe needs two callers.

Symmetry is used for safety only. Deadlock is checked for the transport, the
catalog cache and the pacer. The history and client runs switch it off: their
behaviours are a bounded number of fetches, or end with `close()`.

Fairness. Every run with liveness assumes that the event loop runs what is
ready (weak fairness of each task, callback and timer), that requests, loads
and closings end because every one has a timeout, that time passes, and that
`asyncio.Lock` and `asyncio.Semaphore`, which are FIFO, do not starve a waiter
(strong fairness of acquiring). No fairness is assumed of callers: nobody has
to call, cancel or close. `FetchEnds` assumes of the history walks only that a
request is answered or fails in the end; that the walk then ends is what it
shows.

Each property of a passing run has a mutant (`PROJECT.json`): a definition
replaced by a faulty variant, written beside it in the module, that the
property must notice.

### Disagreements with the documents

- `catalog_shutdown`: `docs/ARCHITECTURE.md:92-94` says the adapter "closes all
  exchange instances on shutdown". A load in flight when `close()` runs, or one
  that a fetch starts whose probe was awaited then, retains its catalog afterwards
  and arms a new expiry timer, so an idle client stays open after `close()`
  returned. `AllClosedEventually` shows that expiry closes it in the end.
- `pacing_overlap`: `docs/CONTRACT.md:115-117` says concurrent page requests are
  serialised. When a paced operation is cancelled its HTTP request goes on, and
  the next paced request overlaps it.
- `interest_short_page`: `docs/CONTRACT.md:110-113` says "A paged adapter
  continues through a short response when source timestamps show that the
  requested range has not yet been traversed". The Binance, KuCoin, Bitfinex and
  OKX walks end at any page with fewer rows than the limit (`binance.py:177`,
  `_common.py:274`, `bitfinex.py:123`, `okx.py:127`), so a venue that omits
  buckets truncates the history silently. `HistoryComplete` shows that this is
  the only way to lose a bucket.
- `funding_settled_current`: `docs/CONTRACT.md:269-270` says "A history-only
  source may return the latest settled observation as `FundingResult.current`".
  `ccxt_funding.py:125` takes the last row of what was fetched for the range. The
  trace has a range open at the end and no history: one row is asked from the start
  on (`ccxt_funding.py:98-102`), so the oldest becomes current. With history, the
  same holds for a range that ends in the past. Hyperliquid asks again
  (`SettledCurrentRecent`).

Two properties hold only under a condition that the code does not establish. Their
unconditional forms have a configuration each, which is not one of the runs above
because a passing run checks the same instance under the condition; TLC refutes
both:

- `MCFundingCached.cfg` of `MCFundingHistory`, `ObservedWindows`:
  `docs/CONTRACT.md:307-309` says "Consecutive settled-history timestamps define an
  `observed_window`". One fetch of Deepcoin reads pages `{4, 5}` and `{1, 2}`; 6
  settles and the first page expires; the next fetch gets `{5, 6}` fresh and
  `{1, 2}` from the cache. Its rows 1, 2, 5, 6 come without an issue, and a window
  from 2 to 5 is published although 4 lies in it.
- `MCClientComplete.cfg` of `MCClient`, `AdmittedComplete`: `README.md:57-59` of the
  repository says both clients "return structured metadata or identity gaps before
  acquisition". The multiplier that the optional open-interest adapter requires
  (`ccxt.py:105-109`) is in no manifest, so a Coinbase reference without it is
  supported and fails after the request.

## 5. The proofs

Each theorem holds for every value of the constants that satisfies the named
assumptions, and the assumptions are what the code gives:

- limits, lifetimes and page sizes are positive (`LimitsAssumption`,
  `BoundsAssumption`; the constructors validate them, the page sizes are
  literals), every key has a host, venues and fetches are finitely many, `None` is
  no exchange client and no entry of a cache (`EntriesAssumption`);
- `None` and `Live` stand for Python's `None` and for a live value: they are no
  times, and not the strings that name outcomes and issues (`InputAssumption`);
- the adapters of a client are the values of a finite dictionary whose keys are
  upper-case venue names (`ClientsAssumption`; `client.py:54-57` upper-cases
  them), so none is called `ccxt` or `transport`.

| Theorem | States | Property of a run |
|---|---|---|
| `TypeCorrect`, `PacerTypeCorrect`, `CatalogTypeCorrect`, `ClientTypeCorrect`, `FundingTypeCorrect`, `FetchTypeCorrect` | type correctness | `TypeOK` |
| `RunningRequestsAreShared` | one running request per key | `PendingCached` |
| `TimersMatchEntries`, `EntriesHaveTimers` | no timer without entry, no entry without timer | `TimerDiscipline`, `RetentionBounded` |
| `HitsAreFresh`, `ResponsesAreKept` | responses are served young and given up for a reason only | `FreshHits`, `ResponsesKept` |
| `CancellationComesFromClose`, `NothingOutlivesClose` | cancellation and shutdown | `OnlyCloseCancels`, `CleanShutdown` |
| `TransportKeepsItsPromise` | the transport implements `SharedRequests` | `AnswersShared` |
| `SleepsAreRemainders`, `RequestsAreSpaced` | pacing | `SleepIsRemainder`, `Spaced` |
| `ClientsInUseStayOpen`, `NoClientIsOrphaned`, `BorrowersAreCounted` | life of the exchange clients | `InUseStaysOpen`, `NoOrphan`; the last of all states |
| `LoadsAreSpaced` | loads that ended in a catalog or a cooldown are spaced | `LoadsSpaced` |
| `CatalogsAreBounded` | the retention limits hold | `RetentionBounded` of the catalog cache |
| `ClientsAreLent` | the catalog cache implements `LentClients` | `ClientsLent` |
| `FundingHistoriesAreComplete`, `HistoriesAreComplete` | histories are complete, numbered ones from fresh pages | `HistoryComplete` (both modules) |
| `AddressedHistoriesAreComplete`, `AddressedWindowsAreObserved` | walks without page numbers are complete and without gaps whatever is cached | stated for those walks, not run apart |
| `WindowsAreObserved`, `JoinsAreExact` | neighbours and joins of a result | `WindowsObserved`, `MarksJoined` |
| `SettledIsRecent`, `FundingCurrentIsKept`, `CurrentIsKept` | current values | `SettledCurrentRecent`, `CurrentSurvives` (both modules) |
| `AdmittedAreServed` | manifests declare what adapters read, but for `Undeclared` | `AdmittedServed` |
| `PreflightIsProven`, `LateFetchesAreKnown`, `ClosesInOrder` | clients | `FetchProven`, `LateFetches`, `ClosedInOrder` |
| `SupportedMeansServed` and five more, `ResumesAtFirstGap`, `JitterKeepsDuration` and three more | the pure functions | stated of all inputs, not run |

Before it was proved, each inductive invariant of the histories was checked by
TLC as an invariant of the instance of its run.

`TransportProofs`. `TypeInv` strengthens the type invariant with the links
between identities (a busy task has a key, a waiting caller a busy task, a
cached task the key it is cached under); without them a step could look up the
key of a free task. `CacheInv` adds the discipline of entries and timers:
`PendingCached`, `TimerDiscipline` and `RetentionBounded` are not inductive one
by one, because an eviction disarms the timer it finds under the key, and only
all three together say that it is the right one. `AgeInv` relates the stamp of
an entry to the time since its response finished, also before the done callback
restamps it: that gives `HitsAreFresh`. `CancelInv` says that nothing is marked
for cancellation before `close()`. `ShutInv` says that `close()` waits for
whatever it cancelled and that, while nobody calls, nothing comes back into the
emptied cache; it needs `CacheInv`, because `close()` cancels what it finds in
the cache and only `PendingCached` makes that all there is.

The refinement maps a task to its stage and outcome, its place in the cache and
whether its callback ran. `SharedInv` holds what the mapping needs: entries are
never marked for cancellation, an entry is exactly as old as its response once
the callback ran (`AgeInv` has only one direction), and a timer does not fire
before its entry is of age, so that an expiry is a withdrawal the promise
allows. Each action is then one step of `SharedRequests` or a stutter, one lemma
for each.

`PacedRequestsProofs`. `PacingInv` says that the lock has one holder, that the
clock the code keeps is the time since the last operation ended, and that a
sleep is the remainder of the interval.

`CatalogCacheProofs`. `ClientInv` says where each client is: cached for exactly
one venue, retired because somebody borrows it, being closed, or with the one
fetch that loads under the venue's lock, while the venue has no entry (or the
retain would overwrite and lose a client). The counters are tied to the
borrowing fetches by cardinality, so the last borrower is known to be the last.
`RetainDiscardsIdle` abstracts the eviction loop: whatever set it chooses holds
only unborrowed catalogs of other venues. `SpacingInv` relates three clocks of a
venue, the age of its entry, its cooldown and the time since its last load, and
says which venues may have none of them. `LoadsAreSpaced` has the hypothesis
`MissRefresh <= Ttl`. The code does not enforce it (`ccxt.py:94` asks only that
both are positive); the defaults are 60 and 900 seconds. With a shorter lifetime
the entry expires first, nothing remembers its load, and the property is false.

The limits of the same cache need an invariant about what is still to happen:
`Limited` says that the catalogs whose discard is not scheduled are within both
limits. It survives a load (`LoadedRest`): either the limits hold after the
eviction, with the new catalog, or the new catalog is itself scheduled to go and
what else stays are catalogs that fitted before. Fewer catalogs are never
larger (`FewerFit`: a subset of a finite disjoint union), which is all that the
other steps need. `RestType` carries the order of the entries (`Ordered`), which the
insertion of a new entry and the removal of any keep (`InsertOrder`,
`DiscardOrder`); the eviction picks along it.

The refinement of `LentClients` rests on `ClientInv`: the lock makes the loader of a
venue unique, so that `Preparing` is a function of the state (`LoadersKnown`);
`Placed` makes a constructed client fresh and a withdrawn one nobody else's; and
the counters are the borrowers, so that the code's test of a counter is the
promise's question whether anybody has the client (`BorrowedIsLent`). Each action is
then one step of the promise or a stutter.

`HistoryTheorems` has what the walks need of sets of times: first and last rows,
what the newest and oldest rows of a page leave out (`NewestRows`, `OldestRows`),
how numbered pages fit together and what new rows do to them (`NumberedPage`,
`NewestShrinks`). They rest on the well-foundedness of the natural numbers and
on the library's theorems about cardinalities. On the first two rests
`ResumesAtFirstGap`: the time returned is the floor or a row, has no gap before
it and a gap or the end behind it. The rest is arithmetic: stamps within five
milliseconds of a second are taken for that second (`BoundaryIsNearestSecond`,
`JitterIsRemoved`), so jitter cannot change a duration (`JitterKeepsDuration`),
an accepted window is as long as its stamps are apart (`DurationIsDistance`), and
windows add up and chain (`WindowsAddUp`, `WindowsChain`).

`FundingHistoryProofs`. `HistoryComplete` is not inductive: it speaks of results
only. `FetchInv` adds `Walking`, which says that every wanted settlement is
collected or lies ahead of the cursor, and that what was collected reaches up to
the newest wanted one (walks to older rows) or down to the oldest (the walk to
newer rows). It also adds `PagesHold`, what every page held by the transport
has, for the cursor and the end it was asked for with. The second is what makes
the theorem one about caching. A page that was served before the venue published
more is still good enough, since what is wanted are the settlements known when
the transport was last empty. Numbered pages are the exception: they count from
the newest row, which moves, so the invariant says of them only what holds while
every page is fresh, and the theorem carries the same condition (`Trusted`). What
is left when no page has a number is stated on its own: such walks are complete
whatever the cache answers, also at a venue that ignores the address, where a walk
that misses a row ends in an issue (`AddressedHistoriesAreComplete`; Toobit's short
page stays a condition), and their windows are observed ones without any condition
(`AddressedWindowsAreObserved`).
There is one lemma for each way of walking (`LoweredKeeps`, `ForwardKeeps`,
`NumberedKeeps`, `SettledKeeps`, `SinglePageKeeps`). `DeclaredWellFormed` is where
the table of adapters enters: it lists the combinations of address and stopping
rule that the lemmas rely on, so an adapter with a new combination breaks the
proof there.

`OpenInterestHistoryProofs`. `WalkInv` is the same idea for fetches that meet no
cached page but clamp their range, may be answered by a venue that omits buckets,
and walk a second time for marks: the invariant holds for the values and, in the
second walk, for the marks, relative to what was published when each began.

`ClientProofs`. `FetchProven` needs to know more than the last call: `ClientInv`
says that whatever the feature cache holds for an adapter and a venue is what
that adapter proves for it, also while probes of other calls run. `CloseInv` says
that what is closed and what is still to close are the two ends of one order,
which has no repetition. `LateFetches` follows from `ClientInv` step by step.

`AdmittedAreServed` compares two descriptions that were written apart: what the
manifests declare of each capability, and what the adapters read. It needs both
in full. One lemma for each family of capabilities says which identities and
contract values its members declare (`NativeFamiliesDeclare`,
`CurrentFamiliesDeclare`, `OptionalFamiliesDeclare`); `ManifestsDeclare` collects them into one
statement about every mapping of every provider, with the scenario it stands for.
From the scenario follow the direction and the unit of any reference that does
not contradict it (`FitsProduct`), so `SupportedMeansServed` yields all that the
current request may read but for what `Undeclared` lists. The history of Binance's inverse contracts reads more, the
pair and perhaps the contract type; a verdict on the history may lack runtime
features or observations and is still fetched, so what is used there is
`SharedIdentityIsFound`: no verdict that names no identity hides one that all
viable capabilities need.

The theorem has one hypothesis, `BitfinexIsNative`: who is asked for Bitfinex has
its native adapter, as the default clients do. A client constructed with adapters
of its own and without that one would serve Bitfinex by the fallback, which reads
the symbol, while the manifest declares the status instrument only: there
preflight may admit a reference that the fallback then rejects.

`PreflightProofs`. `IssueFree` reads an empty list of issues as what it means
for a reference to be served; from it follow `SupportedMeansServed`,
`SupportGrowsWithEvidence`, `UnsupportedIsFinal`, `PlansAreUnambiguous`,
`LegacyDirectionKept` and `SharedIdentityIsFound`, for every manifest and reference, also those nobody
declared yet.

Only model-checked is what needs fairness: `EveryCallAnswered`, `ResponsesExpire`,
`CloseTerminates`, `FetchesEnd`, `CatalogsExpire`, `AllClosedEventually`, `FetchEnds` and
`CallsRun`. The prover has no rules for fairness and `ENABLED`. Every invariant and
every action property of a passing run is a theorem.

## 6. Not modelled

Components without a module: the value types and errors (`models.py`,
`errors.py`) and the wire format (`funding_wire.py`), which validate and convert
immutable values and have no behaviour over time.

Left out of modelled components, for good: HTTP bodies, URLs, logging and error
texts; rates, quantities and the floating-point conversions of
`normalization.py`, because neither tool reasons about floats, so a malformed
or contradictory payload is one nondeterministic failure; names, lineage and
limitations in the manifests and the export of manifests as JSON; how a selector
picks among provider names, which belongs to the `cdm` package;
`_best_assessment`, which only chooses the refusal that is reported; cancellation
of the catalog cache's `close()`; threads (the library uses none). Requests that run
together in a `gather` have one outcome: what the survivor of a failed pair
does to the pacer is covered by `Spaced` for any calls, not composed with the
fetch.
