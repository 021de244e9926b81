----------------------------- MODULE PaymentGate -----------------------------
(***************************************************************************)
(* What stands between a client and a purchase: POST /session/create and   *)
(* POST /session/:id/topup behind the x402 middleware.  The middleware     *)
(* answers a request without payment with a price (402); the client sends  *)
(* the request again, with a payment of that amount; the price is computed *)
(* anew and must still be the same; then the handler runs, and only a      *)
(* success is charged.  Meanwhile operators change prices, API starts seed *)
(* them again, sessions end, and Redis and the payment facilitator fail.   *)
(* What the bought time is worth is SessionCredit's business.              *)
(***************************************************************************)
EXTENDS Integers, FiniteSets

CONSTANTS
  Requests,          \* purchases, each with one answer in the end
  Sources,           \* client addresses, as getSourceIp tells them apart
  Regions,           \* regions with a record in Redis
  Sessions,          \* sessions that were opened earlier
  HalfMinutes,       \* what Number(body.minutes) can be, in half minutes; 0
                     \* stands for everything that is no positive number
  MinCreateMinutes,  \* config.minimumCreateMinutes
  SecondsPerMinute,  \* 60 in the code
  DefaultPrice,      \* price of a minute: DEFAULT_PRICE_PER_MINUTE_USD, and
                     \* the same number in DEFAULT_REGIONS
  OtherPrices,       \* prices an operator may set
  PriceUnit,         \* how many units of price make 0.000001 dollars
  Window,            \* seconds of a rate-limit window: 3600 in the code
  Limit,             \* config.createRateLimitPerIpPerHour
  MaxTime,           \* bound: the clock stops here
  None               \* no region, no session, no source

ASSUME PaymentAssumption ==
  /\ IsFiniteSet(Requests)
  /\ HalfMinutes \subseteq Nat /\ MinCreateMinutes \in Nat
  /\ SecondsPerMinute \in Nat \ {0}
  /\ DefaultPrice \in Nat /\ OtherPrices \subseteq Nat /\ PriceUnit \in Nat \ {0}
  /\ Window \in Nat \ {0} /\ Limit \in Nat /\ MaxTime \in Nat
  /\ None \notin Regions \cup Sessions \cup Sources

VARIABLES
  clock,       \* nowUnixSeconds()
  gated,       \* config.x402Enabled
  price,       \* price[g]: price_per_minute_usd of the region record
  home,        \* home[s]: field region of session s
  state,       \* state[s]: field status of session s, or "absent"
  request,     \* request[r]: the request as last sent, and where it stands
  granted,     \* granted[r]: seconds of credit that r has written
  priceAt,     \* history: what a minute cost when r was last priced
  counter,     \* keys ratelimit:create:{source}:{b}, as in RateLimiter
  counterEnd

countVars == <<counter, counterEnd>>
worldVars == <<gated, price, home, state>>
vars == <<clock, worldVars, request, granted, priceAt, countVars>>

Limiter == INSTANCE RateLimiter WITH Clients <- Sources

NoRequest == [pc |-> "none", kind |-> "create", source |-> None, target |-> None,
              half |-> 0, quote |-> 0, at |-> 0, n |-> 0]

InHandler == {"validate", "count", "arm", "region", "store", "lookup", "add"}
Finished  == {"refused", "limited", "failed", "unsettled", "settled", "free"}

-------------------------------------------------------------------------------
(* What the middleware asks.                                               *)

AtLeast(n, m) == IF n >= m THEN n ELSE m

(* parseRequestedMinutes: Math.ceil, or the fallback.                      *)
RequestedMinutes(half, fallback) == IF half = 0 THEN fallback ELSE (half + 1) \div 2

BilledMinimum(kind, half) == MinCreateMinutes  \* mutant: body.minutes not read
BilledMinutes(kind, half) ==
  IF kind = "create"
    THEN AtLeast(RequestedMinutes(half, MinCreateMinutes), MinCreateMinutes)
    ELSE RequestedMinutes(half, 1)

(* toFixed(6) rounds to the nearest, and up when two are as near.          *)
ToUsd(amount) == (2 * amount + PriceUnit) \div (2 * PriceUnit)

(* resolveRegionPrice, for create with the region the body names, for      *)
(* topup with the one of the session.                                      *)
RegionOf(kind, target) ==
  IF kind = "create" THEN target
  ELSE IF state[target] = "absent" THEN None ELSE home[target]
PriceFor(kind, target) ==
  LET g == RegionOf(kind, target)
  IN  IF g \in Regions THEN price[g] ELSE DefaultPrice

Quote(kind, target, half) == ToUsd(BilledMinutes(kind, half) * PriceFor(kind, target))

(* What the handlers accept: z.coerce.number().int().positive().           *)
Valid(half) == half > 0 /\ half % 2 = 0
Minutes(half) == half \div 2

-------------------------------------------------------------------------------
Init ==
  /\ clock = 0
  /\ gated \in BOOLEAN
  /\ price = [g \in Regions |-> DefaultPrice]
  /\ home \in [Sessions -> Regions]
  /\ state = [s \in Sessions |-> "active"]
  /\ request = [r \in Requests |-> NoRequest]
  /\ granted = [r \in Requests |-> 0]
  /\ priceAt = [r \in Requests |-> 0]
  /\ Limiter!Init

TimePasses ==
  /\ clock < MaxTime
  /\ clock' = clock + 1
  /\ UNCHANGED <<worldVars, request, granted, priceAt, countVars>>

SetPrice(g, p) ==
  /\ price[g] # p
  /\ price' = [price EXCEPT ![g] = p]
  /\ UNCHANGED <<clock, gated, home, state, request, granted, priceAt, countVars>>

(* An operator's HSET.                                                     *)
Reprice(g) == \E p \in OtherPrices : SetPrice(g, p)

(* seedRegions at an API start writes the price of DEFAULT_REGIONS again.  *)
Reseed(g) == SetPrice(g, DefaultPrice)

(* markSessionEvicted, and the end of the hash's TTL.                      *)
SessionEnds(s) ==
  /\ state[s] # "absent"
  /\ state' = [state EXCEPT ![s] = IF @ = "active" THEN "evicted" ELSE "absent"]
  /\ UNCHANGED <<clock, gated, price, home, request, granted, priceAt, countVars>>

CounterExpires(i, b) ==
  /\ Limiter!Drop(i, b)
  /\ UNCHANGED <<clock, worldVars, request, granted, priceAt>>

-------------------------------------------------------------------------------
(* The middleware.                                                         *)

Goto(r, pc) == request' = [request EXCEPT ![r].pc = pc]

Targets(kind) == IF kind = "create" THEN Regions \cup {None} ELSE Sessions

(* What is kept of a request from its first arrival on.                    *)
OpeningAnonymous(kind, i, target, half) ==  \* mutant: req.ip is missing
  [NoRequest EXCEPT !.kind = kind, !.target = target, !.half = half]
Opening(kind, i, target, half) ==
  [NoRequest EXCEPT !.kind = kind, !.source = i, !.target = target, !.half = half]

(* The first request has no payment: 402 with the price, or straight to    *)
(* the handler where x402 is switched off.                                 *)
Arrive(r, kind, i, target, half) ==
  LET pc    == IF gated THEN "challenged" ELSE "validate"
      quote == IF gated THEN Quote(kind, target, half) ELSE 0
  IN  /\ request[r].pc = "none"
      /\ request' = [request EXCEPT
           ![r] = [Opening(kind, i, target, half) EXCEPT !.pc = pc, !.quote = quote]]
      /\ priceAt' = [priceAt EXCEPT ![r] = PriceFor(kind, target)]
      /\ UNCHANGED <<clock, worldVars, granted, countVars>>

(* The payment must be for the price as it is at the retry.                *)
PriceStandsAlways(due, paid) == TRUE  \* mutant: the payment is not matched again
PriceStands(due, paid) == due = paid

(* The client sends it again, perhaps for other minutes, and pays what it  *)
(* was asked; a price that is no longer that one is asked anew.            *)
Retry(r, half) ==
  LET due    == Quote(request[r].kind, request[r].target, half)
      paid   == request[r].quote
      stands == PriceStands(due, paid)
  IN  /\ request[r].pc = "challenged"
      /\ request' = [request EXCEPT ![r].half = half,
                       ![r].quote = IF stands THEN paid ELSE due,
                       ![r].pc = IF stands THEN "validate" ELSE "challenged"]
      /\ priceAt' = [priceAt EXCEPT ![r] = PriceFor(request[r].kind, request[r].target)]
      /\ UNCHANGED <<clock, worldVars, granted, countVars>>

(* A response below 400 is charged before it is sent; when the facilitator *)
(* fails to, the client gets a 402 instead.                                *)
Settle(r) ==
  /\ request[r].pc = "answered"
  /\ IF gated THEN \E pc \in {"settled", "unsettled"} : Goto(r, pc) ELSE Goto(r, "free")
  /\ UNCHANGED <<clock, worldVars, granted, priceAt, countVars>>

-------------------------------------------------------------------------------
(* The handlers.                                                           *)

(* 400 for minutes that are no positive integer, or too few for a session; *)
(* create reads the clock next, topup the session.                         *)
Accepted(kind, half) == Valid(half) /\ (kind = "create" => Minutes(half) >= MinCreateMinutes)

ValidateRefuses(r) ==
  /\ request[r].pc = "validate"
  /\ ~Accepted(request[r].kind, request[r].half)
  /\ Goto(r, "refused")
  /\ UNCHANGED <<clock, worldVars, granted, priceAt, countVars>>

CreateValidated(r) ==
  /\ request[r].pc = "validate" /\ request[r].kind = "create"
  /\ Accepted("create", request[r].half)
  /\ request' = [request EXCEPT ![r].pc = "count", ![r].at = clock]
  /\ UNCHANGED <<clock, worldVars, granted, priceAt, countVars>>

TopupValidated(r) ==
  /\ request[r].pc = "validate" /\ request[r].kind = "topup"
  /\ Accepted("topup", request[r].half)
  /\ Goto(r, "lookup")
  /\ UNCHANGED <<clock, worldVars, granted, priceAt, countVars>>

(* The count decides, whatever becomes of the TTL: 429 over the limit.     *)
CountedAsSuccess(n) == IF n <= Limit THEN "region" ELSE "answered"  \* mutant: no status 429
CountedUpTo(n) == IF n <= Limit + 1 THEN "region" ELSE "limited"  \* mutant: off by one
Counted(n) == IF n <= Limit THEN "region" ELSE "limited"

CreateCount(r) ==
  LET n == Limiter!CountNext(request[r].source, request[r].at)
  IN  /\ request[r].pc = "count"
      /\ Limiter!Incr(request[r].source, request[r].at)
      /\ request' = [request EXCEPT ![r].n = n, ![r].pc = IF n = 1 THEN "arm" ELSE Counted(n)]
      /\ UNCHANGED <<clock, worldVars, granted, priceAt>>

CreateArm(r) ==
  /\ request[r].pc = "arm"
  /\ Limiter!Expire(request[r].source, request[r].at)
  /\ Goto(r, Counted(request[r].n))
  /\ UNCHANGED <<clock, worldVars, granted, priceAt>>

(* 404 for a region without a record; 503 or 400 when the region cannot    *)
(* serve the mode, or has no address left (PeerLifecycle).                 *)
CreateRegion(r) ==
  /\ request[r].pc = "region"
  /\ \/ request[r].target # None /\ Goto(r, "store")
     \/ Goto(r, "refused")
  /\ UNCHANGED <<clock, worldVars, granted, priceAt, countVars>>

Grant(r) == granted' = [granted EXCEPT ![r] = Minutes(request[r].half) * SecondsPerMinute]

CreateStore(r) ==
  /\ request[r].pc = "store"
  /\ Grant(r)
  /\ Goto(r, "answered")
  /\ UNCHANGED <<clock, worldVars, priceAt, countVars>>

TopupGrantsFirst(r) ==  \* mutant: HINCRBY before the status is looked at
  /\ request[r].pc = "lookup"
  /\ Grant(r)
  /\ Goto(r, IF state[request[r].target] = "active" THEN "add" ELSE "refused")
  /\ UNCHANGED <<clock, worldVars, priceAt, countVars>>
TopupActiveOnly(r) ==  \* mutant: no reply for a session that has ended
  /\ request[r].pc = "lookup"
  /\ state[request[r].target] = "active"
  /\ Goto(r, "add")
  /\ UNCHANGED <<clock, worldVars, granted, priceAt, countVars>>
(* 404 for a session that is gone, 409 for one that was evicted.           *)
TopupLookup(r) ==
  /\ request[r].pc = "lookup"
  /\ Goto(r, IF state[request[r].target] = "active" THEN "add" ELSE "refused")
  /\ UNCHANGED <<clock, worldVars, granted, priceAt, countVars>>

TopupAdd(r) ==
  /\ request[r].pc = "add"
  /\ Grant(r)
  /\ Goto(r, "answered")
  /\ UNCHANGED <<clock, worldVars, priceAt, countVars>>

(* A Redis call throws (500), before or after it took effect, or the API   *)
(* process stops.                                                          *)
HandlerFails(r) ==
  /\ request[r].pc \in InHandler \cup {"answered"}
  /\ Goto(r, "failed")
  /\ UNCHANGED <<clock, worldVars, granted, priceAt, countVars>>

-------------------------------------------------------------------------------
Handle(r) ==
  \/ ValidateRefuses(r) \/ CreateValidated(r) \/ TopupValidated(r)
  \/ CreateCount(r) \/ CreateArm(r) \/ CreateRegion(r) \/ CreateStore(r)
  \/ TopupLookup(r) \/ TopupAdd(r) \/ Settle(r)

Purchase(r) ==
  \E half \in HalfMinutes :
    \/ Retry(r, half)
    \/ \E kind \in {"create", "topup"}, i \in Sources :
         \E target \in Targets(kind) : Arrive(r, kind, i, target, half)

Next ==
  \/ TimePasses
  \/ \E g \in Regions : Reprice(g) \/ Reseed(g)
  \/ \E s \in Sessions : SessionEnds(s)
  \/ \E i \in Sources, b \in Limiter!Windows : CounterExpires(i, b)
  \/ \E r \in Requests : Purchase(r) \/ Handle(r) \/ HandlerFails(r)

Spec == Init /\ [][Next]_vars

(* A handler goes on, and the call to the facilitator ends; clients need   *)
(* not come back with a payment.                                           *)
FairSpec == Spec /\ \A r \in Requests : WF_vars(Handle(r))

-------------------------------------------------------------------------------
Records == [pc : {"none", "challenged", "answered"} \cup InHandler \cup Finished,
            kind : {"create", "topup"}, source : Sources \cup {None},
            target : Regions \cup Sessions \cup {None}, half : HalfMinutes \cup {0},
            quote : Nat, at : 0 .. MaxTime, n : Nat]

(* Every variable has its type; a request that was sent has a source, and  *)
(* names what it buys.                                                     *)
TypeOK ==
  /\ clock \in 0 .. MaxTime
  /\ gated \in BOOLEAN
  /\ price \in [Regions -> Nat]
  /\ home \in [Sessions -> Regions]
  /\ state \in [Sessions -> {"active", "evicted", "absent"}]
  /\ request \in [Requests -> Records]
  /\ granted \in [Requests -> Nat]
  /\ priceAt \in [Requests -> Nat]
  /\ Limiter!TypeOK
  /\ \A r \in Requests : request[r].pc # "none" =>
       request[r].source \in Sources /\ request[r].target \in Targets(request[r].kind)

(* A client is charged for exactly the minutes it was granted, at a price  *)
(* its region had while it was asked to pay, to half of 0.000001 dollars:  *)
(* the parser of the price and the one of the handler agree on every body  *)
(* that the handler accepts, and repricing or seeding the region in the    *)
(* middle of a purchase never mixes two prices (x402.js:10, server.js:26). *)
FairPrice ==
  \A r \in Requests :
    LET worth == granted[r] * priceAt[r]
        paid  == request[r].quote * PriceUnit * SecondsPerMinute
        half  == PriceUnit * SecondsPerMinute
    IN  request[r].pc = "settled" =>
          -half <= 2 * (paid - worth) /\ 2 * (paid - worth) <= half

(* Nobody is charged for a request that granted nothing: not for one over  *)
(* the limit, with bad minutes, for an unknown region or an ended session. *)
ChargedOnlyForGrant ==
  \A r \in Requests : request[r].pc = "settled" => granted[r] > 0

(* Behind the gate credit that was granted stays unpaid only because the   *)
(* process, Redis or the facilitator failed after it was written; no       *)
(* refusal comes after the write.                                          *)
UnpaidOnlyByFailure ==
  \A r \in Requests :
    gated /\ granted[r] > 0
    => request[r].pc \in {"answered", "settled", "unsettled", "failed"}

(* What the hourly limit counts: 429 means that Limit other requests of    *)
(* the same source, each valid and with the payment its minutes ask for,   *)
(* came past the gate in the same hour.  Those refused after the count     *)
(* (404, 503, 400 without a public_key) and those that failed are among    *)
(* them, for INCR comes first (server.js:190); no challenge, no body that  *)
(* validation refuses (server.js:175-184) and no counter left over from    *)
(* another hour is.                                                        *)
SameHour(q, r) ==
  /\ request[q].source = request[r].source
  /\ request[q].at \div Window = request[r].at \div Window
LimitedOnlyByValid ==
  \A r \in Requests : request[r].pc = "limited" =>
    Cardinality({q \in Requests \ {r} :
      /\ request[q].kind = "create" /\ request[q].n > 0 /\ SameHour(q, r)
      /\ Accepted("create", request[q].half)
      /\ gated => request[q].quote = ToUsd(Minutes(request[q].half) * priceAt[q])}) >= Limit

(* No source opens more than Limit sessions in an hour while it lasts.     *)
Opened(i, b) == {r \in Requests :
  /\ request[r].kind = "create" /\ request[r].source = i /\ granted[r] > 0
  /\ request[r].at \div Window = b}
OpeningsLimited ==
  \A i \in Sources, b \in Limiter!Windows :
    clock < (b + 1) * Window => Cardinality(Opened(i, b)) <= Limit

(* A purchase that reached the handler is answered.                        *)
PurchaseAnswered ==
  \A r \in Requests : (request[r].pc = "validate") ~> (request[r].pc \in Finished)
===============================================================================
