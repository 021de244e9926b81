# Verification of the 402-vpn control plane

402-vpn sells VPN and proxy sessions by the minute: a client pays (x402) for
some minutes in a region, and the service keeps the session alive while credit
remains and cuts it off afterwards. This directory holds TLA+ models of the
parts in which that can go wrong, the TLC runs that check them on small
instances, and TLAPS proofs, for all sizes, of every safety property those runs
check, the two refinements among them.

Line references are to the repository's `src/` tree, `server.js` being
`api/src/server.js`, `worker.js` and `logic.js` `billing/src/...`,
`sessions.js`, `regions.js`, `keys.js` `control/src/...`, `main.go`
`agent/main.go`, `fetchProxy.js`, `token.js` and `x402.js` `api/src/...`.

## 1. The system

Everything durable lives in Redis. API processes, billing workers and one agent
per region share it without locks; the only atomic units are single commands
and MULTI blocks.

| Component | State | Operations | Interacts with |
|---|---|---|---|
| Session store (`sessions.js`, `keys.js`) | hash `session:{id}`, set `sessions:active`, set `region:{id}:active_peers` | createSession, getSession, addCreditSeconds, markSessionEvicted, computeEffectiveCreditSeconds | called by API, billing |
| Session API (`server.js`) | handlers in flight | create, topup, status, me, regions | store, pool, publishes `PEER_ADD` |
| Billing worker (`worker.js`, `logic.js`) | ticks in flight | runBillingTick every 30 s | reads and writes the store, publishes `PEER_EVICT` |
| Regions and pools (`regions.js`, `ipPool.js`) | hash `region:{id}`, set `region:{id}:ip_pool` | seedRegions at every API start, getRegion | API pops addresses, API and agent return them |
| Peer events (`keys.js`) | Redis pub/sub channel per region | publish, deliver at most once | API, billing to agent |
| Regional agent (`main.go`) | WireGuard's peers, a subscription | resync, subscribe, PEER_ADD, PEER_EVICT | store, pool, WireGuard |
| Fetch proxy (`server.js`, `fetchProxy.js`) | handlers in flight | /fetch, /regional/fetch | store, rate-limit counters, regional proxy |
| Regional proxy (`agent/regional-proxy.js`) | none | executes a forwarded request | called by the API |
| Rate limits (`server.js`) | keys `ratelimit:*` with a TTL | INCR, EXPIRE | inside create and /fetch |
| Session tokens (`token.js`) | none (signed, 24 h) | create, verify | given out by create and topup, checked by /fetch |
| Payment middleware (`x402.js`) | none | computes the price of a request, challenges (402), admits a paid retry, settles after a success | before create and topup; reads regions and sessions |
| Configuration, web page, scripts | none of their own | | |

### What is hard in it

* **Read-modify-write without locks.** A tick reads a hash, computes in
  JavaScript, and writes *absolute* values back. Topups (`HINCRBY`), other
  ticks (`setInterval` does not wait for its async callback, and a second
  worker may run), evictions and the hash's TTL fall in between.
* **Redis writes resurrect keys.** `HSET` and `HINCRBY` on a hash that has
  expired create one with the written fields only.
* **Two-party clean-up.** Billing marks and announces; only the agent returns
  the address, over a channel that forgets. Everything between the mark and the
  SADD may be lost, repeated or overtaken.
* **Checks long before their use.** /fetch and topup decide on a session that
  changes while they go on.
* **Timeouts.** The API gives up on a regional proxy that may still execute.
* **One request, priced twice and parsed twice.** The price is computed for the
  challenge and again for the retry, from a record that changes; the parser of
  the price and the one of the handler are different code.
* **Defaults written at every start.** seedRegions takes an empty pool for a
  new one and rewrites region records.

`PROJECT.json` lists each hazard at its line, with the properties that cover it.

## 2. Modules

| Module | Models | Role |
|---|---|---|
| `PrepaidSession` | what a buyer is promised | abstract specification |
| `SessionCredit` | session hash, create, topup, billing ticks | detailed; implements `PrepaidSession` |
| `SessionCreditProofs` | | theorems about `SessionCredit` |
| `AddressLease` | what the address pool promises | abstract specification |
| `PeerLifecycle` | pool, create (wireguard), eviction, pub/sub, agent, WireGuard | detailed; implements `AddressLease` |
| `PeerLifecycleProofs`, `PeerLeaseProofs`, `PeerRouteProofs` | | its types; its leases and the refinement; its routes |
| `RateLimiter` | INCR, EXPIRE, the key's expiry | used by the two gates |
| `FetchGate` | /fetch: token, credit, limit, regional proxy, seeding of the region record | composed with `PrepaidSession` and `RateLimiter` |
| `FetchGateProofs` | | theorems about `FetchGate` |
| `PaymentGate` | price, challenge, retry, settlement; validation, hourly limit and answers of create and topup | composed with `RateLimiter` |
| `PaymentGateProofs`, `PaymentLimitProofs` | | types and charges; the hourly limit |
| `LimiterLemmas` | | arithmetic that the proofs about both gates share |
| `MCSessionCredit`, `MCPeerLifecycle`, `MCFetchGate`, `MCPaymentGate` | | symmetry sets and instances for TLC |

The composition is assume/guarantee: `SessionCredit` is shown to implement
`PrepaidSession`, and `FetchGate` uses `PrepaidSession` for everything that may
happen to a session's credit, so no billing detail is repeated there.
`PeerLifecycle` abstracts credit altogether: a tick may find *any* active
session exhausted, which covers every schedule of payments. `PaymentGate`
takes sessions as things that may end at any moment, and what a region offers
(an address, a configured mode) as a choice; the other modules say when.

Definitions named `...Forgets`, `...Nothing`, `...Early` and so on, marked
`mutant`, are wrong versions of the definition below them; they are used only
to see that the properties notice.

### SessionCredit and the code

| TLA+ | Code |
|---|---|
| `status`, `credit`, `lastBilled`, `expireAt` | fields and TTL of `session:{id}`; `"absent"` no hash, `"nofield"` a hash without a status (a resurrected key) |
| `activeSet` | `sessions:active` |
| `CreateBegin`, `CreateCommit` | server.js:173-239: clock read first, createSession's MULTI last |
| `TopupCheck`, `TopupCredit`, `TopupReply` | server.js:286-316: getSession and its 404/409 exits, HINCRBY, the reply with a second clock reading. A refused topup changes nothing and is no action |
| `TickStart`, `TickScan` | worker.js:28-36: the clock, then SMEMBERS |
| `TickMissing`, `TickSkip`, `TickDecide` | one turn of the loop: getSession and computeBillingUpdate |
| `TickClean`, `TickDebit`, `TickEvict`, `TickPublish` | the writes that follow |
| `TickAbort` | a Redis call throws or the worker stops |
| `ExpireKey` | the 24 h TTL of an evicted hash |

`sureUntil`, `boughtUntil` and `orphaned` are history variables. `orphaned`
holds the sessions whose tick died between marking them evicted and publishing
it, the only ones of which the properties do not ask an announcement.
`boughtUntil` is the end of all the time that was paid for. `sureUntil` is the
end of the time that nothing in the code can take away: the opening purchase
and every topup that reached an active session while no tick held a reading of
it (`Unraced`). A topup inside such a window may be overwritten (finding 1);
the *sure time* says that it takes nothing else with it. The loop scans the set
in any order, as SMEMBERS returns it.

### PeerLifecycle and the code

| TLA+ | Code |
|---|---|
| `SeedCount`, `SeedFill` | regions.js:62-69: SCARD, then SADD of all addresses |
| `CreatePop` ... `CreateDies` | server.js:241-284: SPOP, the 503 exits, createSession, publish, the catch block that returns the address: with nothing stored (`CreateFailsUnstored`), or with the session stored because only the publication threw, or the exec after Redis had applied the MULTI (`CreateFailsStored`) |
| `TickFindsExhausted`, `TickEvict`, `TickPublish`, `TickDies` | markSessionEvicted, then the publication |
| `channel`, `Publish`, `EventLost` | pub/sub: heard only by who is subscribed at that moment |
| `AgentStart`, `ResyncRead`, `ResyncApply`, `AgentSubscribe` | main.go:278-318 |
| `HandleAdd`, `TrackPeer` | handlePeerAdd: `wg set`, then SADD active_peers |
| `HandleEvict`, `UntrackPeer`, `ReleaseAddress` | handlePeerEvict: `wg remove`, SREM, SADD to the pool |
| `AgentCallFails`, `AgentDies` | a wg or Redis call fails (logged, go on or give up as the code does); the process stops, the kernel keeps its peers |
| `WgSet`, `WgRemove` | WireGuard: allowed-ips of one interface are disjoint, so giving an address to a peer takes it from another |

`Mishaps` says which failures a run includes, `MaxMishaps` how many happen.
`CreditOutlastsHandler` is an assumption built into the guard of
`TickFindsExhausted`: a session is not found exhausted between createSession
and the publication of its PEER_ADD, because it is created with a minute or
more and the handler takes milliseconds. Proxy sessions do not appear: they have
no address or peer, and a PEER_EVICT for one only makes the agent send an error
acknowledgement. `SharedKeys` says whether two sessions may bring the same
public key (nothing in server.js:252 prevents it). The history variable
`returned` counts how often the address of a session went back to the pool;
`GivenBackWrongly(a)` reads from it, and from the creations that failed with
their session stored, whether address `a` itself is suspect.

### FetchGate and the code

| TLA+ | Code |
|---|---|
| `OpenSession`, `TokenEnd` | create in proxy mode: the check of server.js:204, the session, and a token that ends 24 h after the clock read first (server.js:76-87, 188) |
| `TopUpSession` | HINCRBY of a topup (server.js:302-303) |
| `RenewToken` | the answer to a topup, which comes later and holds a new token (server.js:304-316) |
| `BillSession` | a debit or an eviction, as `PrepaidSession` allows them |
| `FetchArrives`, `TokenValid` | server.js:122-132, token.js:30-84: clock read, token verified; 401 past its exp |
| `FetchLookup` | getSession, the 402/403 exits (server.js:134, 352-362), on the clock read *before*; and the 401 for a hash without the token's region and mode (server.js:139-141), which a late write makes of a session that is gone |
| `FetchCount`, `FetchArm`, `CounterExpires` | INCR, EXPIRE, the key's TTL (server.js:365-372), through `RateLimiter` |
| `Counted` | the 429 exit, decided with the count INCR answered |
| `FetchRegion`, `FetchNoRegion` | getRegion, and the choice of executeRegionalFetch (fetchProxy.js:221); or the 404 of a region whose record an operator removed (server.js:374-377) |
| `ForwardFails`, `ForwardAnswered` | its try block: error or timer, then fallback or rethrow |
| `LocalFetch`, `LocalFails` | performSafeFetch |
| `ProxyExecutes`, `ProxyRefuses` | regional-proxy.js, or POST /regional/fetch of a regional API |
| `ConfigureProxy` | an operator's HSET of `proxy_url` (ex.sh:19-26) |
| `SeedRegion` | the HSET of seedRegions at an API start |
| `HandlerDies` | the API stops, or a Redis call throws, half way |

A client uses the token it was given last. Which topups are still to be
answered is not kept: once a session was topped up its token may be renewed at
any time, which includes every time the code renews it. `openFrom` and
`openUntil` are history variables: the clock reading a session was opened with,
and the end of the time it was opened with.

### PaymentGate and the code

| TLA+ | Code |
|---|---|
| `gated` | config.x402Enabled; with it off the middleware lets every request pass |
| `Quote` | x402.js:54-82: `BilledMinutes` is parseRequestedMinutes with its floor for create, `PriceFor` is resolveRegionPrice, `ToUsd` is toFixed(6) |
| `Arrive` | the first request, answered with a 402 that names the price |
| `Retry` | the same request with a payment, perhaps with other minutes in its body; the price is computed again, and the payment must be for that price (`PriceStands`, which is the library's). test-x402-payment.js is such a client |
| `Settle` | the library charges after a response below 400; if the facilitator fails the client gets a 402. External: the x402 packages are not in the repository |
| `Accepted`, `ValidateRefuses`, `CreateValidated`, `TopupValidated` | the zod schemas (server.js:22-31), the 400 exits, and for create the clock |
| `CreateCount`, `CreateArm`, `Counted`, `CounterExpires` | the hourly limit (server.js:187-197), through `RateLimiter` |
| `CreateRegion` | getRegion and the 404, 400 and 503 exits (server.js:199-210, 243-250) |
| `CreateStore`, `TopupLookup`, `TopupAdd` | the grants, and the 404/409 exits of topup |
| `HandlerFails` | a Redis call throws (500), before or after it took effect, or the process stops |
| `Reprice`, `Reseed`, `SessionEnds` | an operator's HSET, seedRegions at an API start, eviction and the hash's TTL |

Body minutes are counted in halves, so that fractions exist: `Number("2.5")` is
a price for the middleware and a 400 for the handler. `half = 0` stands for
everything that is no positive number, which the middleware prices with a
default and the handler refuses. `priceAt` is a history variable.

## 3. Runs

Violation runs state what a document, comment or test of the repository says
and show a behaviour of the code against it; they are described with the
findings below.

| Run | Instance | Shows |
|---|---|---|
| `credit_safety` | 1 session, 2 overlapping ticks, 2 topups, 1 aborted tick, clock 0..3, purchases of 1 unit, record TTL 1 | A session keeps its sure time and no more than was bought, has credit while it is active, `sessions:active` is exact, evictions are marked, then announced, and none is forgotten; implements `PrepaidSession`. Also checks the inductive invariant `CreditInv` |
| `credit_live` | 2 sessions, 1 topup, a tick that may die, fair ticks | Exhausted sessions are evicted, and the eviction is announced |
| `peers_safety` | 3 sessions that may share keys, 2 addresses, 1 tick, all failures but "create fails stored", 2 of them | No address in two active sessions or in use and in the pool; pooled addresses are routed nowhere; a route is lost only to another session of its key; implements `AddressLease` |
| `peers_live` | 2 sessions, 2 addresses, 2 overlapping ticks, "create fails stored" once, subscribed agent | Addresses come back, evicted peers lose their route, stored sessions get theirs, and at every moment something still carries what is not yet done; an address is shared only after it was itself returned twice or by the failed creation |
| `fetch_gate` | 1 session, 2 requests, windows of 2 s, limit 1, tokens of 1 s, purchases of 1 and 3 s, clock 0..2, API starts, fallback on and off | Who paid is served, who did not is not; 401 for a token's age only a token's life after the opening; 429 only for a full window, and no more than the limit while the window lasts; a repeat only where fallback is on; everybody is answered |
| `payment_gate` | 2 purchases by 1 source, minutes 0, 1, 1.5 and 2, 2 prices, a known and an unknown region, 1 session, hours of 1 s, limit 1, gate on and off | What is charged is what was granted, at one price; refusals cost nothing and come before any grant; the hourly limit counts only valid requests past the gate, and holds; every purchase is answered |
| `credit_lost_topup`, `credit_topup_expiry`, `peers_resync_gap`, `peers_reseed`, `peers_publish`, `fetch_local` | the smallest that shows it | findings |

### The properties that say most

* `CreditWithinPurchases`: however many ticks and topups overlap, the paid-until
  moment of an active session lies between the end of its sure time and the end
  of everything bought. So ticks never double-debit, and a topup that is lost
  takes none but itself. The reason is that a debit writes the pair (credit,
  last_billed_at) it computed in one HSET: a late write restores an older
  reading of the *same* paid-until moment.
* `PaidTimeHonoured`: until the sure time is over the session is active, and
  what a reader computes with a clock as old as any covers the rest of it.
* `ActiveHasCredit`: an active session has credit in its hash. A reader whose
  clock is older than the last debit takes the credit as it stands, so without
  this it would answer 402 to a session debited to nothing.
* `NoneUnannounced`: only the death of the very tick that marked a session,
  between markSessionEvicted and the publication, leaves its eviction
  unannounced; a tick that dies elsewhere leaves none.
* `ImplementsPrepaid`: an ended session never becomes active again, through
  any late write on an expired hash, and none ends before its sure time.
* `ActiveSetExact`: the work list is exactly the active sessions at every step,
  late writers included.
* `LeaseExclusive`, `ImplementsLease`: with one tick in flight and one seeding,
  and no creation that fails after it stored its session, no lost event, death
  of the API, a tick or the agent, failed call of the agent or creation that
  fails earlier makes two clients share an address.
* `PoolUnrouted`: no crash of the agent in the middle of an eviction, restart,
  or stale resync leaves a peer routed to an address the pool can hand out.
* `LeaseSharedOnlyByRepeat`: with overlapping ticks `LeaseExclusive` fails: the
  second PEER_EVICT of a session returns its address from under the next
  holder. This property says that nothing else does: every shared address was
  itself given back by a double announcement, or by a creation that failed with
  its session stored; all other addresses stay exclusive.
* `EvictionUnderway`: where nothing is lost and nobody dies, an evicted session
  is with a tick, in the channel or with the agent until its address is back;
  and a route it still has, or that its own late PEER_ADD installs after the
  eviction was recorded, is always followed by a PEER_EVICT.
* `AdditionUnderway`: a session that was answered is routed or its PEER_ADD is
  on the way, whatever comes and goes around it, unless its own address was
  given back wrongly and another session's peer took it.
* `RouteKeptWhileActive`: nothing that happens to other sessions or to the agent
  takes a live session's route, unless it is the end of another session opened
  with the same public key: main.go:232 removes the only peer of that key. The
  code lets clients reuse keys, so this is a limit the property admits.
* `RefusedOnlyUnpaid`, `ServedOnlyPaid`: both hold although the clock is read
  before the session, and the session may be topped up or evicted in between.
  The first is about the step that refuses: at that moment the sure time,
  topups included, is over.
* `TokenLastsFromOpening`: no client is refused for its token's age in the 24 h
  after the opening, whatever topups and their late answers do to the token; so
  a purchase of up to 24 h is covered. Nothing bounds a purchase (server.js:26):
  of a longer one, or of what topups pile up beyond the last token, the rest is
  refused with 401 until the client tops up again. `Amounts` of the run holds
  such a purchase.
* `RefusedOnlyWhenFull`, `LimitedOnlyByValid`: a crash between INCR and
  EXPIRE locks nobody out, since the window is part of the key. A challenge or
  a body that validation refuses costs nothing of a source's hourly limit; a
  valid request that is refused later does (404, 503, or 400 for a missing
  public_key: server.js:199-210), because INCR comes first (server.js:190).
* `LimitKept`, `OpeningsLimited`: the TTL counts from the first INCR, so a key
  outlives its window and the limit holds while the window lasts. Afterwards a
  handler that read the clock in the window and counts late may find a fresh
  counter, which is why the properties say "while it lasts".
* `FairPrice`: two parsers, two pricings and a price that may change at any
  step, and yet a charge is granted minutes times one price, to half of
  0.000001 dollars.
* `ChargedOnlyForGrant`, `UnpaidOnlyByFailure`: the order of checks, grant and
  answer never charges for nothing, nor refuses after granting.

### Findings

1. **A topup can vanish** (`credit_lost_topup`): one worker, no overlap; a
   HINCRBY between a tick's HGETALL and its HSET is overwritten (worker.js:53).
2. **A topup promises too much** (`credit_topup_expiry`): `new_expires_at` is
   now plus the raw credit, unbilled seconds included (server.js:310).
3. **Resync before subscribe** (`peers_resync_gap`): an eviction in the gap is
   never applied; peer and address leak (main.go:303).
4. **Seeding refills an exhausted pool** (`peers_reseed`): an API start while
   every address is leased puts them all back (regions.js:63).
5. **A failed publication shares an address** (`peers_publish`): when
   createSession succeeds and the publication throws, the catch block returns
   an address that the stored session keeps (server.js:268), and the next
   session is opened on it.
6. **A local fetch with the fallback off** (`fetch_local`): an API start wipes
   `proxy_url` (regions.js:52), and without one executeRegionalFetch fetches
   locally whatever `ALLOW_LOCAL_PROXY_FALLBACK` says (fetchProxy.js:258).

7. **No double debit** (`credit_safety`, a run that passes): the documentation
   says that several billing instances "would double-debit; no locking today"
   (docs/backend-services-and-placement.md:101). They do not: a debit writes
   credit and last_billed_at together and absolutely (worker.js:53-56), so the
   same seconds are never taken twice (`CreditWithinPurchases`, and the theorem
   `NeverDoubleCharged` for any number of ticks). What two instances, or two
   overlapping ticks of one, do is announce an eviction twice (worker.js:61-62),
   which `LeaseSharedOnlyByRepeat` is about.

## 4. Bounds, and why they are enough

* *Clock.* Only differences matter. In `credit_safety` three units let a session
  be created, debited, run out, be evicted and expire while an old tick still
  holds a reading, which is the longest chain the code has; of its two topups
  one may fall in a tick's window and the other not. `SecondsPerMinute`
  is 1 there: amounts enter only through sums and comparisons.
* *Ticks.* Every interaction between ticks is between one that read and one
  that wrote meanwhile; two are enough to exhibit it, and the proofs cover more.
* *Sessions.* Credit of different sessions interacts only through the work
  list, hence one session for safety and two for the liveness run. Addresses
  pass from session to session, hence three sessions on two addresses; two on
  two where ticks overlap.
* *Mishaps.* Two reach, for instance, a lost event and then an agent restart.
* *FetchGate.* A clock of 0..2 with windows of 2 has two windows, a key that
  outlives its window, and a session that ends under a request. A purchase of
  3 s is longer than a token of 1 s and lasts into the second window; a session
  may also be opened with 1 s and topped up, in time or late, by others. Two requests
  are what a limit of 1 needs. Operators and API starts are not bounded.
* *PaymentGate.* Minutes below, at and above the minimum, a fraction and a
  missing number; a price at which amounts are whole and one at which they are
  rounded; two hours, and a limit that the second purchase meets. A client may
  retry without bound.

Bounds are constants named in each module: `MaxTime`, `MaxAborts`,
`MaxMishaps`, `MaxBought`. Symmetry sets permute values the
specifications treat alike and are used in safety runs only.

## 5. Fairness

* `SessionCredit`: weak fairness of each tick's steps, because `setInterval`
  starts ticks for ever and Redis answers. Time, clients and aborts have none.
  `ExhaustedEvicted` survives aborted ticks: the session is still listed.
* `PeerLifecycle`: weak fairness of the agent's steps, and of handlers and ticks
  *already begun*; nobody need open a session or run out of credit. A mishap is
  never forced, and never prevented, except by its bound.
* `FetchGate`: weak fairness of each handler's steps (each of them changes
  `fetch`, hence `WF_fetch`), i.e. Redis answers, the
  AbortController's timers fire (fetchProxy.js:193, 223) and name resolution,
  which no timer covers, returns. The regional proxy is given none.
* `PaymentGate`: weak fairness of each handler's steps and of settlement: Redis
  and the call to the facilitator answer or fail. Clients need never come back
  with a payment, and prices may change for ever.

## 6. What is proved

Every invariant, action property and refinement that a passing run checks is
also a theorem, for any sets of sessions, requests, ticks, addresses, keys and
sources and any amounts and bounds that satisfy the named assumption of its
module (`CreditAssumption`, `PeerAssumption`, `FetchAssumption`,
`PaymentAssumption`: amounts and bounds are natural, lengths positive, `None`
is not a member, and the requests that are counted are finitely many).

| Module | Theorem | States |
|---|---|---|
| `SessionCreditProofs` | `TypeCorrect`, `CreditInvariant` | `TypeOK`, `CreditInv` |
| | `NeverDoubleCharged` | `CreditWithinPurchases` |
| | `SureTimeServed` | `PaidTimeHonoured` |
| | `CreditWhileActive` | `ActiveHasCredit` |
| | `WorkListExact` | `ActiveSetExact` |
| | `EvictionRecordedFirst`, `EvictionNotForgotten` | `MarkedBeforeAnnounced`, `NoneUnannounced` |
| | `RefinesPrepaid` | `ImplementsPrepaid` |
| `PeerLifecycleProofs` | `PeerTypeCorrect` | `TypeOK` |
| `PeerLeaseProofs` | `SharedOnlyByRepeat` | `LeaseSharedOnlyByRepeat` |
| | `OneHolder` | `LeaseExclusive` |
| | `LeaseImplemented` | `ImplementsLease` |
| `PeerRouteProofs` | `PoolIsUnrouted` | `PoolUnrouted` |
| | `RouteIsKept` | `RouteKeptWhileActive` |
| | `EvictionCarriedThrough` | `EvictionUnderway` |
| | `AdditionCarriedThrough` | `AdditionUnderway` |
| `FetchGateProofs` | `FetchTypeCorrect` | `TypeOK` |
| | `NoRefusalOfPaid`, `NoServiceUnpaid` | `RefusedOnlyUnpaid`, `ServedOnlyPaid` |
| | `TokenOutlivesOpening` | `TokenLastsFromOpening` |
| | `AtMostOncePerHost` | `RepeatedOnlyByFallback` |
| | `NoEarlyRefusal`, `LimitHolds` | `RefusedOnlyWhenFull`, `LimitKept` |
| `PaymentGateProofs` | `PaymentTypeCorrect` | `TypeOK` |
| | `NoChargeWithoutGrant` | `ChargedOnlyForGrant` |
| | `NoRefusalAfterGrant` | `UnpaidOnlyByFailure` |
| | `ChargeMatchesGrant` | `FairPrice` |
| `PaymentLimitProofs` | `NoEarlyLimit`, `OpeningsAreLimited` | `LimitedOnlyByValid`, `OpeningsLimited` |

### Credit

`CreditWithinPurchases` alone is not preserved by `TickDebit`, which writes
what the tick read some steps ago. `ReadingsBounded` says that a reading in a
tick's hands obeys the same bounds as the hash, and that a tick evicts exactly
when it read nothing left: a topup moves `sureUntil` only when no tick holds a
reading, so no reading falls behind it. `NothingAhead` says that no clock
reading or last_billed_at lies in the future and that a session no longer
active has used its sure time, which is what makes an eviction on a stale
reading harmless to the lower bound; `StoredOnly` that whoever holds a session
holds a stored one, and that announced sessions or those a tick is about to
clean or publish are not active, which is what keeps a late `TickClean` from
unlisting a live session; `MinutesRequested` that amounts in flight are those of
requests. `NoneUnannounced` is inductive on top of these.

Each action is shown to preserve `CreditInv`: handlers (`HandlerSteps`), ticks
that only read (`TickReads`), ticks that write (`TickWrites`). The refinement
maps `status` to a phase and credit to a paid-until moment; every step is one of
the abstract actions or a stutter (`RefinesStep`): a debit is a `Settle` or
nothing, an eviction a `Close` or nothing, a topup a `TopUp`, sure or not, or a
`TopUpLate`.

### Peers

Three assumptions name what the theorems about leases and routes need.
`OneSeeding`: at most one process seeds the pool. `OneTick`: at most one tick
is in flight. `NoFailureStored`: a creation that fails after its session was
stored is not among the mishaps. `PeerTypeCorrect` needs none and
`SharedOnlyByRepeat` only the first; `OneHolder`, `LeaseImplemented`,
`PoolIsUnrouted` and `RouteIsKept` need all three, as `peers_safety` has them,
and `peers_reseed`, `peers_publish` and finding 5 show what happens without.
`EvictionCarriedThrough` and `AdditionCarriedThrough` allow any number of ticks
in flight and every failure of a creation, but need what `peers_live` has: keys
that are not shared, and `Reliable`: the agent subscribed first and lives on,
its calls succeed, ticks live and no event is lost. `AdditionCarriedThrough`
needs `OneSeeding`, too.

The invariants, each resting on the one before:

* `KnownInv`: whoever is in the hands of a tick, an event, the agent or
  active_peers was stored, and has an address.
* `EvictInv`: what a tick is to announce, an eviction in the channel, and what
  the agent cleans up are sessions that have ended; an active session has not
  had its address returned, unless its creation failed after it was stored.
* `LeaseInv`: before the pool is seeded nobody holds anything; and, unless an
  address was itself returned twice or by a creation that failed with its
  session stored, a session that holds it holds it alone, and it is not in the
  pool. It is inductive address by address: an address, once suspect, stays so.
* `OnceInv`: with one tick, the eviction of a session is in one place at a
  time and its address has been returned at most once, and not while the
  eviction is on its way. This is what fails under overlapping ticks.
* `RouteInv`: an address that WireGuard routes to a key belongs to a session of
  that key which has not returned it; a PEER_ADD stands before the PEER_EVICT of
  its session, and comes before its address went back; while the agent cleans
  up after a session nobody is routed to its address.

* `UnderwayInv`: the agent keeps listening, no two sessions have one key, and an
  evicted session is announced, being cleaned up after or given back, and is
  announced as long as it has a route or a PEER_ADD to come. It is inductive
  because a PEER_ADD stands before every PEER_EVICT of its session: when the
  last of these is taken no PEER_ADD is left to install the peer again.
* `AdditionInv`: a session whose PEER_ADD is on its way was answered and holds
  its address. So the handler that installs it can only take the route of a
  session that shares its address, which `LeaseInv` excludes.

The refinement of `AddressLease` maps an address to the session that holds it;
`SPOP` is a grant, the first return a release, and all else stutters.

### The gates

`FetchGateProofs` has two invariants. `GateInv` dates what a handler knows: it
read the clock no later than now, past the look-up its session was paid at that
time, and a token was refused for its age a `TokenTtl` after the opening;
together with `SessionInv` (while a session is active, until lies between the
sure time and what was bought; an ended session's sure time is over; a session
was opened with a clock that is not ahead, and its last token ends no earlier
than a `TokenTtl` after that) it gives the first three theorems.
`RefusedOnlyUnpaid` is a property of one step, the look-up (`RefusedByLookup`).
`RateInv` relates the counter to requests: it never exceeds the number of those
that were counted, and while the window lasts is at least the number of those
that passed, because no key has a TTL that ends within its window. It uses the
fact that Redis drops only keys with a TTL: one left without a TTL stays, and
counts correctly.

`PaymentGateProofs` carries `PaymentInv`: what has been granted and quoted at
each stage of a request. `ParsersAgree` proves that both parsers read the same
number from every body that is accepted, `ToUsdNearest` that the rounding is to
the nearest; `FairPrice` follows. `PaymentLimitProofs` adds `PlaceInv` (which
requests were counted, and with which result) and the `RateInv` of hours.

### Only model-checked

Liveness: `ExhaustedEvicted`, `ExhaustedAnnounced`, `EvictedReturned`,
`EvictedCutOff`, `ActiveRouted`, `EveryFetchAnswered`, `PurchaseAnswered`.
Liveness under fairness is out of the prover's reach. Its safety core is proved
where it has one: `NoneUnannounced` for `ExhaustedAnnounced`, `EvictionUnderway`
for `EvictedReturned` and `EvictedCutOff`, `AdditionUnderway` for `ActiveRouted`
say that what must still happen is in somebody's hands at every step; that the
hands move is what fairness adds.

## 7. Assumptions and limits

* One clock. The code compares `nowUnixSeconds()` of different hosts; skew
  between the API and the worker is not modelled.
* Each Redis command is applied at most once. ioredis may send a command again
  after a reconnect, so HINCRBY or SPOP may be applied twice.
* Of the calls that take effect and yet throw, the exec of createSession is
  modelled (`CreateFailsStored`), and in `PaymentGate` every one is, for what
  the client is answered. A publication that is delivered and yet throws is not: its
  PEER_ADD would reach the agent although the client was answered with an error.
* Tokens are genuine: what /fetch is shown was given out by create or topup.
* The x402 library does what its use in x402.js and its documentation say:
  challenge without payment, verification against the price of the retry,
  settlement after a response below 400. A payment that fails verification is a
  retry that does not come.
* `FetchGate` treats the check of create (server.js:204) and the storing of the
  session as one step.
* An Express handler that throws and one whose process stops end alike.

Not modelled: signatures and the chain (third party), configuration parsing
(its values are constants), the web page, the HMAC of tokens, URL and address
checks of the fetch path and its header filters, the arithmetic of
generateIpv4PoolFrom24Cidr, acknowledgements of the agent (nobody reads them),
the field `fetched_from` (a wrong word in a reply when the fallback served it,
server.js:385), read-only routes (/regions, /session/:id/status, /session/me
beyond the credit it computes), WireGuard's command line.

## 8. What is left

* The composition of `SessionCredit` with `FetchGate`, which today share only
  the abstract `PrepaidSession`: the time a record's credit lasts, step by step.
* Commands that ioredis sends again after a reconnect (redis.js:9). A repeated
  SPOP leaks an address, a repeated HINCRBY grants a topup twice, a repeated
  INCR counts a request twice; the bounds of `CreditWithinPurchases` and of the
  limits would have to be restated with the number of repeats.
* Pure operators against reference definitions: the /24 pool, private address
  ranges.
* Clock skew between the hosts.
