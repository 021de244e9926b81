------------------------------ MODULE FetchGate ------------------------------
(***************************************************************************)
(* GET|POST /fetch: a request with the token of a proxy session is checked *)
(* against the session's credit and its rate limit, and is executed by the *)
(* region's proxy or, failing that, by the API host itself.  Requests      *)
(* interleave with each other, with the session's life (PrepaidSession,    *)
(* which SessionCredit implements), with operators who set the region's    *)
(* proxy_url, and with API starts, which seed the region record again.     *)
(* One session's region stands for all; a client uses the token it was     *)
(* given last, and tokens are genuine.                                     *)
(***************************************************************************)
EXTENDS Naturals, FiniteSets

CONSTANTS
  Sessions,  \* proxy-mode sessions
  Amounts,   \* what a payment can buy, in seconds
  Fetches,   \* requests to /fetch
  Window,    \* seconds of a rate-limit window: 60 in the code
  Limit,     \* config.fetchRateLimitPerSessionPerMinute
  TokenTtl,  \* config.sessionTokenTtlSeconds: 24 h in the code
  MaxTime,   \* bound: the clock stops here
  MaxBought, \* bound: nobody buys time past this moment
  None       \* no session

ASSUME FetchAssumption ==
  /\ IsFiniteSet(Fetches) /\ Amounts \subseteq Nat
  /\ Window \in Nat \ {0} /\ Limit \in Nat /\ TokenTtl \in Nat
  /\ MaxTime \in Nat /\ MaxBought \in Nat
  /\ None \notin Sessions

VARIABLES
  clock, phase, until, sureUntil, boughtUntil,  \* as in PrepaidSession
  openFrom,       \* history: openFrom[s]: the clock reading that the credit
                  \* and the token s was opened with are dated with
  openUntil,      \* history: openUntil[s]: end of the time s was opened with
  tokenUntil,     \* tokenUntil[s]: exp of the last token given out for s
  allowFallback,  \* config.allowLocalProxyFallback
  proxyUrl,       \* the region record names a regional proxy
  fetch,          \* fetch[f]: the handler of request f; n is its requestCount
  proxy,          \* proxy[f]: what the regional proxy makes of request f
  executed,       \* executed[f]: the hosts that sent f to its target, counted
  counter,        \* keys ratelimit:fetch:{s}:{b}, as in RateLimiter
  counterEnd

openVars    == <<openFrom, openUntil>>
sessionVars == <<clock, phase, until, sureUntil, boughtUntil, openVars, tokenUntil>>
regionVars  == <<allowFallback, proxyUrl>>
countVars   == <<counter, counterEnd>>
vars == <<sessionVars, regionVars, fetch, proxy, executed, countVars>>

Prepaid == INSTANCE PrepaidSession
Limiter == INSTANCE RateLimiter WITH Clients <- Sessions

NoFetch  == [pc |-> "none", session |-> None, at |-> 0, n |-> 0]
Finished == {"unauthorized", "unpaid", "mismatch", "limited", "ok", "error"}

(* buildProxyToken and the check of exp in verifySessionToken.             *)
TokenEndShort(from) == from + TokenTtl \div 2  \* mutant: a shorter exp
TokenEnd(from) == from + TokenTtl
TokenValid(s, at) == tokenUntil[s] > at

(* getSession and computeEffectiveCreditSeconds, for a request of time at. *)
PaidWithMargin(s, at) == phase[s] = "active" /\ until[s] > at + 1  \* mutant: low credit
PaidActiveOnly(s, at) == phase[s] = "active"  \* mutant: credit not looked at
Paid(s, at) == phase[s] = "active" /\ until[s] > at

(* The wait for the regional proxy ends with its answer or with the timer. *)
AbandonOnError(f) == proxy[f] = "failed"  \* mutant: no timer
Abandon(f) == proxy[f] \in {"sent", "executed", "failed"}

FallBackAlways == "local"  \* mutant: the catch block does not rethrow
FallBack == IF allowFallback THEN "local" ELSE "error"

-------------------------------------------------------------------------------
Init ==
  /\ Prepaid!Init
  /\ openFrom = [s \in Sessions |-> 0]
  /\ openUntil = [s \in Sessions |-> 0]
  /\ tokenUntil = [s \in Sessions |-> 0]
  /\ allowFallback \in BOOLEAN
  /\ proxyUrl = FALSE
  /\ fetch = [f \in Fetches |-> NoFetch]
  /\ proxy = [f \in Fetches |-> "idle"]
  /\ executed = [f \in Fetches |-> [region |-> 0, api |-> 0]]
  /\ Limiter!Init

(* A session opens only in a region that can serve it (server.js:204); the *)
(* round trips between that check and the store are one step here.  The    *)
(* token is dated, as the credit is, with the clock the handler read first *)
OpenSession(s) ==
  /\ proxyUrl \/ allowFallback
  /\ Prepaid!Open(s)
  /\ openUntil' = [openUntil EXCEPT ![s] = boughtUntil'[s]]
  /\ \E from \in 0 .. clock :
       /\ openUntil'[s] - from \in Amounts
       /\ openFrom' = [openFrom EXCEPT ![s] = from]
       /\ tokenUntil' = [tokenUntil EXCEPT ![s] = TokenEnd(from)]
  /\ boughtUntil'[s] <= MaxBought
  /\ UNCHANGED <<regionVars, fetch, proxy, executed, countVars>>

TopUpSession(s) ==
  /\ Prepaid!TopUp(s) \/ Prepaid!TopUpLate(s)
  /\ boughtUntil'[s] <= MaxBought
  /\ UNCHANGED <<openVars, tokenUntil, regionVars, fetch, proxy, executed, countVars>>

(* A topup is answered, after it was credited, with a new token.  Which of *)
(* them still are to be answered is not kept: tokens are renewed at least  *)
(* as often as the code renews them.                                       *)
RenewToken(s) ==
  /\ boughtUntil[s] > openUntil[s]
  /\ tokenUntil' = [tokenUntil EXCEPT ![s] = TokenEnd(clock)]
  /\ UNCHANGED <<clock, phase, until, sureUntil, boughtUntil, openVars, regionVars,
                 fetch, proxy, executed, countVars>>

BillSession(s) ==
  /\ Prepaid!Settle(s) \/ Prepaid!Close(s)
  /\ UNCHANGED <<openVars, tokenUntil, regionVars, fetch, proxy, executed, countVars>>

TimePasses ==
  /\ Prepaid!Advance
  /\ UNCHANGED <<openVars, tokenUntil, regionVars, fetch, proxy, executed, countVars>>

(* An operator sets proxy_url in Redis.                                    *)
ConfigureProxy ==
  /\ ~proxyUrl
  /\ proxyUrl' = TRUE
  /\ UNCHANGED <<sessionVars, allowFallback, fetch, proxy, executed, countVars>>

(* seedRegions, at every API start: HSET of every field of the region,     *)
(* proxy_url among them, from DEFAULT_REGIONS, where it is "".             *)
SeedRegion ==
  /\ proxyUrl
  /\ proxyUrl' = FALSE
  /\ UNCHANGED <<sessionVars, allowFallback, fetch, proxy, executed, countVars>>

-------------------------------------------------------------------------------
(* The handler of request f.                                               *)

Goto(f, pc) == fetch' = [fetch EXCEPT ![f].pc = pc]
Execute(f, host) == executed' = [executed EXCEPT ![f][host] = @ + 1]

(* Mutant: the handler does not keep the session of the token.             *)
FetchArrivesAnonymous(f, s) ==
  /\ fetch[f].pc = "none"
  /\ phase[s] # "none"
  /\ fetch' = [fetch EXCEPT ![f].pc = "lookup", ![f].at = clock]
  /\ UNCHANGED <<sessionVars, regionVars, proxy, executed, countVars>>

(* The clock is read and the token verified before the session is: 401.    *)
FetchArrives(f, s) ==
  /\ fetch[f].pc = "none"
  /\ phase[s] # "none"
  /\ fetch' = [fetch EXCEPT ![f].session = s, ![f].at = clock,
                 ![f].pc = IF TokenValid(s, clock) THEN "lookup" ELSE "unauthorized"]
  /\ UNCHANGED <<sessionVars, regionVars, proxy, executed, countVars>>

(* 402 without credit, 403 when evicted or gone, and 401 when a late write *)
(* made the hash of a session that is gone anew, without mode and region.  *)
FetchLookup(f) ==
  /\ fetch[f].pc = "lookup"
  /\ \/ Paid(fetch[f].session, fetch[f].at) /\ Goto(f, "count")
     \/ ~Paid(fetch[f].session, fetch[f].at) /\ Goto(f, "unpaid")
     \/ phase[fetch[f].session] = "ended" /\ Goto(f, "mismatch")
  /\ UNCHANGED <<sessionVars, regionVars, proxy, executed, countVars>>

(* The count decides, whatever becomes of the TTL: 429 over the limit.     *)
Counted(n) == IF n <= Limit THEN "region" ELSE "limited"

(* INCR; the first request of a window goes on to set the TTL.             *)
FetchCount(f) ==
  LET n == Limiter!CountNext(fetch[f].session, fetch[f].at)
  IN  /\ fetch[f].pc = "count"
      /\ Limiter!Incr(fetch[f].session, fetch[f].at)
      /\ fetch' = [fetch EXCEPT ![f].n = n, ![f].pc = IF n = 1 THEN "arm" ELSE Counted(n)]
      /\ UNCHANGED <<sessionVars, regionVars, proxy, executed>>

FetchArm(f) ==
  /\ fetch[f].pc = "arm"
  /\ Limiter!Expire(fetch[f].session, fetch[f].at)
  /\ Goto(f, Counted(fetch[f].n))
  /\ UNCHANGED <<sessionVars, regionVars, proxy, executed>>

CounterExpires(s, b) ==
  /\ Limiter!Drop(s, b)
  /\ UNCHANGED <<sessionVars, regionVars, fetch, proxy, executed>>

(* getRegion, and the POST to the proxy when the record names one.         *)
FetchRegion(f) ==
  /\ fetch[f].pc = "region"
  /\ Goto(f, IF proxyUrl THEN "regional" ELSE "local")
  /\ proxy' = [proxy EXCEPT ![f] = IF proxyUrl THEN "sent" ELSE "idle"]
  /\ UNCHANGED <<sessionVars, regionVars, executed, countVars>>

(* 404: an operator has removed the region's record.                       *)
FetchNoRegion(f) ==
  /\ fetch[f].pc = "region"
  /\ Goto(f, "error")
  /\ UNCHANGED <<sessionVars, regionVars, proxy, executed, countVars>>

(* The API stops waiting; the regional proxy is not told.                  *)
ForwardFails(f) ==
  /\ fetch[f].pc = "regional"
  /\ Abandon(f)
  /\ Goto(f, FallBack)
  /\ UNCHANGED <<sessionVars, regionVars, proxy, executed, countVars>>

ForwardAnswered(f) ==
  /\ fetch[f].pc = "regional"
  /\ proxy[f] = "executed"
  /\ Goto(f, "ok")
  /\ UNCHANGED <<sessionVars, regionVars, proxy, executed, countVars>>

(* performSafeFetch: the target is reached, in time or not,                *)
LocalFetch(f) ==
  /\ fetch[f].pc = "local"
  /\ Execute(f, "api")
  /\ \E pc \in {"ok", "error"} : Goto(f, pc)
  /\ UNCHANGED <<sessionVars, regionVars, proxy, countVars>>

(* or the URL is refused, or the target not reached at all.                *)
LocalFails(f) ==
  /\ fetch[f].pc = "local"
  /\ Goto(f, "error")
  /\ UNCHANGED <<sessionVars, regionVars, proxy, executed, countVars>>

(* The API process stops in the middle of the handler, or a Redis call     *)
(* fails and Express answers 500: nothing more is done for the request.    *)
HandlerDies(f) ==
  /\ fetch[f].pc \notin Finished \cup {"none"}
  /\ Goto(f, "error")
  /\ UNCHANGED <<sessionVars, regionVars, proxy, executed, countVars>>

-------------------------------------------------------------------------------
(* The regional proxy: it executes what it received, whether or not the    *)
(* API still waits; it may refuse the request, or fail before or after.    *)

ProxyExecutes(f) ==
  /\ proxy[f] = "sent"
  /\ Execute(f, "region")
  /\ \E end \in {"executed", "failed"} : proxy' = [proxy EXCEPT ![f] = end]
  /\ UNCHANGED <<sessionVars, regionVars, fetch, countVars>>

ProxyRefuses(f) ==
  /\ proxy[f] = "sent"
  /\ proxy' = [proxy EXCEPT ![f] = "failed"]
  /\ UNCHANGED <<sessionVars, regionVars, fetch, executed, countVars>>

-------------------------------------------------------------------------------
FetchStep(f) ==
  \/ FetchLookup(f) \/ FetchCount(f) \/ FetchArm(f)
  \/ FetchRegion(f) \/ FetchNoRegion(f)
  \/ ForwardFails(f) \/ ForwardAnswered(f) \/ LocalFetch(f) \/ LocalFails(f)

Next ==
  \/ TimePasses \/ ConfigureProxy \/ SeedRegion
  \/ \E s \in Sessions :
       \/ OpenSession(s) \/ TopUpSession(s) \/ RenewToken(s) \/ BillSession(s)
       \/ \E f \in Fetches : FetchArrives(f, s)
       \/ \E b \in Limiter!Windows : CounterExpires(s, b)
  \/ \E f \in Fetches :
       FetchStep(f) \/ HandlerDies(f) \/ ProxyExecutes(f) \/ ProxyRefuses(f)

Spec == Init /\ [][Next]_vars

(* A handler goes on, and its timers fire; the proxy owes nothing.         *)
FairSpec == Spec /\ \A f \in Fetches : WF_fetch(FetchStep(f))

-------------------------------------------------------------------------------
Records == [pc : {"none", "lookup", "count", "arm", "region", "regional", "local"} \cup Finished,
            session : Sessions \cup {None}, at : 0 .. MaxTime, n : Nat]

(* Every variable has its type; a request that arrived names its session.  *)
TypeOK ==
  /\ clock \in 0 .. MaxTime
  /\ phase \in [Sessions -> {"none", "active", "ended"}]
  /\ until \in [Sessions -> Nat]
  /\ sureUntil \in [Sessions -> Nat]
  /\ boughtUntil \in [Sessions -> Nat]
  /\ openFrom \in [Sessions -> Nat]
  /\ openUntil \in [Sessions -> Nat]
  /\ tokenUntil \in [Sessions -> Nat]
  /\ allowFallback \in BOOLEAN /\ proxyUrl \in BOOLEAN
  /\ fetch \in [Fetches -> Records]
  /\ proxy \in [Fetches -> {"idle", "sent", "executed", "failed"}]
  /\ executed \in [Fetches -> [region : Nat, api : Nat]]
  /\ Limiter!TypeOK
  /\ \A f \in Fetches : fetch[f].pc # "none" => fetch[f].session \in Sessions

(* The look-up of the session refuses a client only when the sure time of  *)
(* its session, and not only that of its opening, is over, however stale   *)
(* the clock the handler read (server.js:123-142, 352-363).                *)
RefusedOnlyUnpaid ==
  [][\A f \in Fetches :
       fetch[f].pc = "lookup" /\ fetch'[f].pc \in {"unpaid", "mismatch"} =>
         sureUntil[fetch[f].session] <= clock]_vars

(* Whatever billing, topups and evictions do between the steps of the      *)
(* handler, a request reaches its target only if it came in before the end *)
(* of the time that was bought for its session.                            *)
ServedOnlyPaid ==
  \A f \in Fetches :
    executed[f].region + executed[f].api > 0 => fetch[f].at < boughtUntil[fetch[f].session]

(* 429 means that Limit other requests of the same session and minute were *)
(* counted: no counter left over from another minute, or left without a    *)
(* TTL by a crash between INCR and EXPIRE, locks a session out.            *)
RefusedOnlyWhenFull ==
  \A f \in Fetches : fetch[f].pc = "limited" =>
    Cardinality({g \in Fetches \ {f} :
      /\ fetch[g].session = fetch[f].session /\ fetch[g].n > 0
      /\ fetch[g].at \div Window = fetch[f].at \div Window}) >= Limit

(* No more than Limit requests of a session and minute pass while that     *)
(* minute lasts: the TTL counts from the first INCR, so the key outlives   *)
(* its window, and only a handler that read the clock in one minute and    *)
(* counts after its end can find a fresh counter.                          *)
Passed(s, b) == {f \in Fetches : fetch[f].session = s /\ fetch[f].at \div Window = b
                                  /\ fetch[f].n \in 1 .. Limit}
LimitKept ==
  \A s \in Sessions, b \in Limiter!Windows :
    clock < (b + 1) * Window => Cardinality(Passed(s, b)) <= Limit

(* A client is told that its token has ended only when TokenTtl seconds    *)
(* have passed since the session was opened: neither the answer to a topup *)
(* nor the clock read before the session was stored leaves it with a token *)
(* that ends sooner, so a purchase of at most TokenTtl is always covered.  *)
(* A purchase may be longer than that, which nothing prevents              *)
(* (server.js:26): the rest of it, and what topups bought, may then be     *)
(* left at the refusal, and only the answer to a topup gives a new token.  *)
TokenLastsFromOpening ==
  \A f \in Fetches : fetch[f].pc = "unauthorized" =>
    openFrom[fetch[f].session] + TokenTtl <= fetch[f].at

(* Each host sends a request to its target at most once, and both do only  *)
(* where the configuration allows the fallback.                            *)
RepeatedOnlyByFallback ==
  \A f \in Fetches :
    /\ executed[f].region <= 1 /\ executed[f].api <= 1
    /\ executed[f].region + executed[f].api = 2 => allowFallback

(* Every request is answered, unless its API process stops, even when the  *)
(* regional proxy never replies.                                           *)
EveryFetchAnswered ==
  \A f \in Fetches : (fetch[f].pc = "lookup") ~> (fetch[f].pc \in Finished)

(* The API host executes requests itself only where it was allowed to.     *)
LocalOnlyIfAllowed == \A f \in Fetches : executed[f].api > 0 => allowFallback
===============================================================================
