-------------------------- MODULE PaymentGateProofs --------------------------
(***************************************************************************)
(* Theorems about PaymentGate, for any number of purchases, sources,       *)
(* regions and sessions, any prices and any limit.                         *)
(***************************************************************************)
EXTENDS PaymentGate, LimiterLemmas, TLAPS

-------------------------------------------------------------------------------
(* Arithmetic of the helpers.                                              *)

LEMMA HalfMinutesNat == HalfMinutes \cup {0} \subseteq Nat
  BY PaymentAssumption

LEMMA WindowOfMoment ==
  ASSUME NEW at \in 0 .. MaxTime
  PROVE  Limiter!Bucket(at) \in Limiter!Windows
  BY PaymentAssumption, QuotientInRange DEF Limiter!Bucket, Limiter!Windows

(* A charge is the nearest to what it stands for.                          *)
LEMMA ToUsdNearest ==
  ASSUME NEW amount \in Nat
  PROVE  /\ ToUsd(amount) \in Nat
         /\ -PriceUnit <= 2 * (ToUsd(amount) * PriceUnit - amount)
         /\ 2 * (ToUsd(amount) * PriceUnit - amount) <= PriceUnit
<1>. DEFINE u == PriceUnit
            d == (2 * amount + u) \div (2 * u)
<1>1. u \in Nat \ {0} /\ 2 * u \in Nat \ {0} /\ 2 * amount + u \in Nat
  BY PaymentAssumption
<1>2. /\ d \in Nat
      /\ (2 * u) * d <= 2 * amount + u
      /\ 2 * amount + u < (2 * u) * d + 2 * u
  <2>. HIDE DEF u
  <2>. QED BY <1>1, DivisionLemma
<1>3. ToUsd(amount) = d
  BY DEF ToUsd
<1>. HIDE DEF d, u
<1>4. PICK k \in Nat : k = d * u
  BY <1>1, <1>2, ProductIsNat
<1>5. (2 * u) * d = 2 * k
  BY <1>1, <1>2, <1>4
<1>6. -u <= 2 * (k - amount) /\ 2 * (k - amount) <= u
  BY <1>1, <1>2, <1>5
<1>. QED BY <1>2, <1>3, <1>4, <1>6 DEF u

LEMMA BilledMinutesType ==
  ASSUME NEW kind \in {"create", "topup"}, NEW half \in Nat
  PROVE  BilledMinutes(kind, half) \in Nat
  BY PaymentAssumption DEF BilledMinutes, AtLeast, RequestedMinutes

(* Both parsers read the same number from every body the handlers accept.  *)
LEMMA ParsersAgree ==
  ASSUME NEW kind \in {"create", "topup"}, NEW half \in Nat, Accepted(kind, half)
  PROVE  /\ BilledMinutes(kind, half) = Minutes(half)
         /\ Minutes(half) \in Nat \ {0}
  BY PaymentAssumption DEF Accepted, Valid, Minutes, BilledMinutes, AtLeast, RequestedMinutes

LEMMA QuoteType ==
  ASSUME TypeOK, NEW kind \in {"create", "topup"}, NEW target, NEW half \in Nat
  PROVE  PriceFor(kind, target) \in Nat /\ Quote(kind, target, half) \in Nat
<1>1. PriceFor(kind, target) \in Nat
  BY PaymentAssumption DEF TypeOK, PriceFor
<1>. HIDE DEF PriceFor
<1>. QED BY <1>1, BilledMinutesType, ProductIsNat, ToUsdNearest DEF Quote

-------------------------------------------------------------------------------
(* Type correctness.                                                       *)

LEMMA TypeInit == Init => TypeOK
  BY PaymentAssumption
     DEF Init, TypeOK, NoRequest, Records, Limiter!Init, Limiter!TypeOK

(* A step that only sends request r to another place of its code.          *)
LEMMA GotoType ==
  ASSUME TypeOK, NEW r \in Requests, request[r].pc # "none", NEW pc,
         pc \in {"challenged", "answered"} \cup InHandler \cup Finished, Goto(r, pc)
  PROVE  /\ request' \in [Requests -> Records]
         /\ \A q \in Requests : request'[q].pc # "none" =>
              request'[q].source \in Sources /\ request'[q].target \in Targets(request'[q].kind)
<1>. DEFINE new == [request[r] EXCEPT !.pc = pc]
<1>1. request[r] \in Records
  BY DEF TypeOK
<1>2. new \in Records
  BY ONLY <1>1, pc \in {"challenged", "answered"} \cup InHandler \cup Finished DEF Records
<1>3. request' = [request EXCEPT ![r] = new]
  BY DEF Goto
<1>4. new.source = request[r].source /\ new.target = request[r].target
      /\ new.kind = request[r].kind
  BY <1>1 DEF Records
<1>. HIDE DEF new
<1>. QED BY <1>2, <1>3, <1>4 DEF TypeOK

LEMMA CountType ==
  ASSUME TypeOK, NEW i \in Sources, NEW at \in 0 .. MaxTime
  PROVE  /\ Limiter!CountNext(i, at) \in Nat
         /\ Limiter!Incr(i, at) => Limiter!TypeOK'
         /\ Limiter!Expire(i, at) => Limiter!TypeOK'
<1>1. Limiter!Bucket(at) \in Limiter!Windows
  BY WindowOfMoment
<1>. DEFINE b == Limiter!Bucket(at)
<1>2. clock + Window \in Nat
  BY PaymentAssumption DEF TypeOK
<1>3. /\ counter \in [Sources -> [Limiter!Windows -> Nat]]
      /\ counterEnd \in [Sources -> [Limiter!Windows -> Nat]]
  BY DEF TypeOK, Limiter!TypeOK
<1>4. counter[i][b] + 1 \in Nat /\ Limiter!CountNext(i, at) = counter[i][b] + 1
  BY <1>1, <1>3 DEF Limiter!CountNext
<1>5. Limiter!Incr(i, at) => /\ counter' = [counter EXCEPT ![i][b] = counter[i][b] + 1]
                             /\ counterEnd' = counterEnd
  BY <1>3 DEF Limiter!Incr
<1>6. Limiter!Expire(i, at) => /\ counterEnd' = [counterEnd EXCEPT ![i][b] = clock + Window]
                               /\ counter' = counter
  BY <1>3 DEF Limiter!Expire
<1>7. b \in Limiter!Windows
  BY <1>1
<1>. HIDE DEF b
<1>8. Limiter!Incr(i, at) => counter' \in [Sources -> [Limiter!Windows -> Nat]]
  <2>. DEFINE n == counter[i][b] + 1
  <2>1. n \in Nat
    BY <1>4
  <2>2. Limiter!Incr(i, at) => counter' = [counter EXCEPT ![i][b] = n]
    BY <1>5
  <2>. HIDE DEF n
  <2>. QED BY <1>3, <1>7, <2>1, <2>2, CellUpdateType
<1>9. Limiter!Expire(i, at) => counterEnd' \in [Sources -> [Limiter!Windows -> Nat]]
  BY <1>2, <1>3, <1>6, <1>7, CellUpdateType
<1>. QED BY <1>3, <1>4, <1>5, <1>6, <1>8, <1>9 DEF Limiter!TypeOK, Limiter!Windows

LEMMA TypeNext == TypeOK /\ [Next]_vars => TypeOK'
<1>. SUFFICES ASSUME TypeOK, [Next]_vars PROVE TypeOK'
  OBVIOUS
<1>. USE DEF worldVars, countVars
<1>1. CASE TimePasses
  BY <1>1, PaymentAssumption DEF TimePasses, TypeOK, Limiter!TypeOK
<1>2. ASSUME NEW g \in Regions, Reprice(g) \/ Reseed(g) PROVE TypeOK'
  BY <1>2, PaymentAssumption DEF Reprice, Reseed, SetPrice, TypeOK, Limiter!TypeOK
<1>3. ASSUME NEW s \in Sessions, SessionEnds(s) PROVE TypeOK'
  BY <1>3 DEF SessionEnds, TypeOK, Limiter!TypeOK
<1>4. ASSUME NEW i \in Sources, NEW b \in Limiter!Windows, CounterExpires(i, b) PROVE TypeOK'
  <2>1. Limiter!TypeOK'
    BY <1>4 DEF CounterExpires, Limiter!Drop, TypeOK, Limiter!TypeOK
  <2>. QED BY <1>4, <2>1 DEF CounterExpires, TypeOK
<1>5. ASSUME NEW r \in Requests, NEW kind \in {"create", "topup"}, NEW i \in Sources,
             NEW target \in Targets(kind), NEW half \in HalfMinutes,
             Arrive(r, kind, i, target, half)
      PROVE  TypeOK'
  <2>. DEFINE pc    == IF gated THEN "challenged" ELSE "validate"
              quote == IF gated THEN Quote(kind, target, half) ELSE 0
              new   == [Opening(kind, i, target, half) EXCEPT !.pc = pc, !.quote = quote]
  <2>1. half \in Nat /\ target \in Regions \cup Sessions \cup {None}
    BY PaymentAssumption DEF Targets
  <2>2. PriceFor(kind, target) \in Nat /\ quote \in Nat
    BY <2>1, QuoteType
  <2>3. /\ Opening(kind, i, target, half) \in Records
        /\ Opening(kind, i, target, half).source = i
        /\ Opening(kind, i, target, half).target = target
        /\ Opening(kind, i, target, half).kind = kind
    <3>1. NoRequest \in Records
      BY PaymentAssumption DEF NoRequest, Records
    <3>. HIDE DEF NoRequest
    <3>. QED BY ONLY <2>1, <3>1, half \in HalfMinutes, kind \in {"create", "topup"}, i \in Sources
         DEF Opening, Records
  <2>. HIDE DEF quote
  <2>4. new \in Records /\ new.source = i /\ new.target = target /\ new.kind = kind
    <3>. DEFINE base == Opening(kind, i, target, half)
    <3>1. pc \in {"challenged"} \cup InHandler
      BY DEF InHandler
    <3>. HIDE DEF pc, base
    <3>. QED BY <2>2, <2>3, <3>1 DEF Records, base
  <2>5. request' = [request EXCEPT ![r] = new] /\ priceAt' = [priceAt EXCEPT ![r] = PriceFor(kind, target)]
    BY <1>5 DEF Arrive, quote
  <2>. HIDE DEF new, pc
  <2>7. \A q \in Requests : request'[q].pc # "none" =>
          request'[q].source \in Sources /\ request'[q].target \in Targets(request'[q].kind)
    BY <2>4, <2>5 DEF TypeOK
  <2>8. UNCHANGED <<clock, worldVars, granted, countVars>>
    BY <1>5 DEF Arrive
  <2>. QED BY <2>2, <2>4, <2>5, <2>7, <2>8 DEF TypeOK, Limiter!TypeOK
<1>6. ASSUME NEW r \in Requests, NEW half \in HalfMinutes, Retry(r, half) PROVE TypeOK'
  <2>. DEFINE q   == request[r]
              due == Quote(q.kind, q.target, half)
              pc  == IF due = q.quote THEN "validate" ELSE "challenged"
              new == [q EXCEPT !.half = half, !.quote = due, !.pc = pc]
  <2>1. q \in Records /\ q.kind \in {"create", "topup"} /\ half \in Nat
    BY PaymentAssumption DEF TypeOK, Records
  <2>2. PriceFor(q.kind, q.target) \in Nat /\ due \in Nat
    BY <2>1, QuoteType
  <2>3. /\ request' = [request EXCEPT ![r] = new]
        /\ priceAt' = [priceAt EXCEPT ![r] = PriceFor(q.kind, q.target)]
        /\ UNCHANGED <<clock, worldVars, granted, countVars>>
        /\ q.pc = "challenged"
    BY <1>6 DEF Retry, PriceStands
  <2>. HIDE DEF due
  <2>4. new \in Records
    <3>. HIDE DEF q
    <3>. QED BY ONLY <2>1, <2>2, half \in HalfMinutes DEF Records, InHandler
  <2>5. new.source = q.source /\ new.target = q.target /\ new.kind = q.kind
    <3>. HIDE DEF q
    <3>. QED BY <2>1 DEF Records
  <2>6. q.source \in Sources /\ q.target \in Targets(q.kind)
    BY <2>3 DEF TypeOK
  <2>. HIDE DEF new, pc, q
  <2>7. \A x \in Requests : request'[x].pc # "none" =>
          request'[x].source \in Sources /\ request'[x].target \in Targets(request'[x].kind)
    BY <2>3, <2>5, <2>6 DEF TypeOK
  <2>. QED BY <2>2, <2>3, <2>4, <2>7 DEF TypeOK, Limiter!TypeOK
<1>7. ASSUME NEW r \in Requests,
             \/ ValidateRefuses(r) \/ TopupValidated(r) \/ CreateRegion(r)
             \/ TopupLookup(r) \/ Settle(r) \/ HandlerFails(r)
      PROVE  TypeOK'
  <2>1. PICK pc \in {"refused", "lookup", "store", "add", "settled", "unsettled", "free", "failed"} :
          Goto(r, pc)
    BY <1>7 DEF ValidateRefuses, TopupValidated, CreateRegion, TopupLookup, Settle, HandlerFails
  <2>2. request[r].pc # "none" /\ UNCHANGED <<clock, worldVars, granted, priceAt, countVars>>
    BY <1>7 DEF ValidateRefuses, TopupValidated, CreateRegion, TopupLookup, Settle,
                HandlerFails, InHandler
  <2>. QED BY <2>1, <2>2, GotoType DEF TypeOK, Limiter!TypeOK, InHandler, Finished
<1>8. ASSUME NEW r \in Requests, CreateValidated(r) PROVE TypeOK'
  <2>. DEFINE new == [request[r] EXCEPT !.pc = "count", !.at = clock]
  <2>1. request[r] \in Records /\ clock \in 0 .. MaxTime
    BY DEF TypeOK
  <2>2. new \in Records
    BY ONLY <2>1 DEF Records, InHandler
  <2>3. new.source = request[r].source /\ new.target = request[r].target
        /\ new.kind = request[r].kind
    BY <2>1 DEF Records
  <2>4. /\ request' = [request EXCEPT ![r] = new] /\ request[r].pc # "none"
        /\ UNCHANGED <<clock, worldVars, granted, priceAt, countVars>>
    BY <1>8 DEF CreateValidated
  <2>. HIDE DEF new
  <2>. QED BY <2>2, <2>3, <2>4 DEF TypeOK, Limiter!TypeOK
<1>9. ASSUME NEW r \in Requests, CreateCount(r) PROVE TypeOK'
  <2>. DEFINE n   == Limiter!CountNext(request[r].source, request[r].at)
              pc  == IF n = 1 THEN "arm" ELSE Counted(n)
              new == [request[r] EXCEPT !.n = n, !.pc = pc]
  <2>1. /\ request[r] \in Records /\ request[r].source \in Sources
        /\ request[r].at \in 0 .. MaxTime
    BY <1>9 DEF CreateCount, TypeOK, Records
  <2>2. n \in Nat /\ Limiter!TypeOK'
    BY <1>9, <2>1, CountType DEF CreateCount
  <2>3. pc \in {"arm", "region", "limited"}
    BY DEF Counted
  <2>4. new \in Records
    <3>. HIDE DEF n, pc
    <3>. QED BY ONLY <2>1, <2>2, <2>3 DEF Records, InHandler, Finished
  <2>5. new.source = request[r].source /\ new.target = request[r].target
        /\ new.kind = request[r].kind
    BY <2>1 DEF Records
  <2>6. /\ request' = [request EXCEPT ![r] = new] /\ request[r].pc # "none"
        /\ UNCHANGED <<clock, worldVars, granted, priceAt>>
    BY <1>9 DEF CreateCount
  <2>. HIDE DEF new
  <2>. QED BY <2>2, <2>4, <2>5, <2>6 DEF TypeOK
<1>10. ASSUME NEW r \in Requests, CreateArm(r) PROVE TypeOK'
  <2>1. request[r].source \in Sources /\ request[r].at \in 0 .. MaxTime
    BY <1>10 DEF CreateArm, TypeOK, Records
  <2>2. Limiter!TypeOK'
    BY <1>10, <2>1, CountType DEF CreateArm
  <2>3. Counted(request[r].n) \in {"region", "limited"}
    BY DEF Counted
  <2>4. request[r].pc # "none" /\ Goto(r, Counted(request[r].n))
        /\ UNCHANGED <<clock, worldVars, granted, priceAt>>
    BY <1>10 DEF CreateArm
  <2>. QED BY <2>2, <2>3, <2>4, GotoType DEF TypeOK, InHandler, Finished
<1>11. ASSUME NEW r \in Requests, CreateStore(r) \/ TopupAdd(r) PROVE TypeOK'
  <2>1. Minutes(request[r].half) * SecondsPerMinute \in Nat
    <3>1. request[r].half \in Nat
      <4>1. request[r].half \in HalfMinutes \cup {0}
        BY DEF TypeOK, Records
      <4>. QED BY <4>1, HalfMinutesNat
    <3>2. Minutes(request[r].half) \in Nat
      BY <3>1 DEF Minutes
    <3>. QED BY <3>2, ProductIsNat, PaymentAssumption
  <2>2. /\ request[r].pc # "none" /\ Goto(r, "answered") /\ Grant(r)
        /\ UNCHANGED <<clock, worldVars, priceAt, countVars>>
    BY <1>11 DEF CreateStore, TopupAdd
  <2>3. granted' \in [Requests -> Nat]
    BY <2>1, <2>2 DEF Grant, TypeOK
  <2>. QED BY <2>2, <2>3, GotoType DEF TypeOK, Limiter!TypeOK
<1>12. CASE UNCHANGED vars
  BY <1>12 DEF vars, TypeOK, Limiter!TypeOK
<1>. QED
  BY <1>1, <1>2, <1>3, <1>4, <1>5, <1>6, <1>7, <1>8, <1>9, <1>10, <1>11, <1>12
     DEF Next, Purchase, Handle

(* Every reachable state is well typed (server.js:173-316, x402.js:46-88). *)
THEOREM PaymentTypeCorrect == Spec => []TypeOK
<1>. QED BY TypeInit, TypeNext, PTL DEF Spec

-------------------------------------------------------------------------------
(* The invariant of the gate, one request at a time: nothing is granted    *)
(* before the last step of a handler, or to a request that is refused; a   *)
(* handler goes on with accepted minutes only; behind the gate the price   *)
(* asked last is the one for the minutes and the price of that moment.     *)

Ungranted == {"none", "challenged", "validate", "count", "arm", "region", "store",
              "lookup", "add", "refused", "limited"}
Succeeded == {"answered", "settled", "unsettled", "free"}
Vetted    == {"count", "arm", "region", "store", "lookup", "add"} \cup Succeeded

Consistent(q, seconds, perMinute, behindGate) ==
  /\ q.pc \in Ungranted => seconds = 0
  /\ q.pc \in Vetted => Accepted(q.kind, q.half)
  /\ q.pc \in Succeeded => seconds = Minutes(q.half) * SecondsPerMinute
  /\ q.pc = "settled" => behindGate
  /\ q.pc = "free" => ~behindGate
  /\ behindGate /\ q.pc # "none" => q.quote = ToUsd(BilledMinutes(q.kind, q.half) * perMinute)

PaymentInv == \A r \in Requests : Consistent(request[r], granted[r], priceAt[r], gated)

LEMMA PaymentInvInit == Init => PaymentInv
  BY DEF Init, PaymentInv, Consistent, NoRequest, Vetted, Succeeded

(* A step of r that leaves every other request alone is judged by r alone. *)
LEMMA ConsistentElsewhere ==
  ASSUME PaymentInv, NEW r \in Requests, UNCHANGED gated,
         \A q \in Requests \ {r} :
           request'[q] = request[q] /\ granted'[q] = granted[q] /\ priceAt'[q] = priceAt[q],
         Consistent(request'[r], granted'[r], priceAt'[r], gated)
  PROVE  PaymentInv'
<1> SUFFICES ASSUME NEW q \in Requests
             PROVE  Consistent(request'[q], granted'[q], priceAt'[q], gated')
  BY DEF PaymentInv
<1>1. CASE q = r
  BY <1>1
<1>2. CASE q # r
  BY <1>2 DEF PaymentInv
<1>. QED BY <1>1, <1>2

(* A step that sends r elsewhere and grants nothing.                       *)
LEMMA ConsistentGoto ==
  ASSUME TypeOK, PaymentInv, NEW r \in Requests, NEW pc, Goto(r, pc),
         UNCHANGED <<gated, granted, priceAt>>, request[r].pc # "none",
         pc \in Ungranted => granted[r] = 0,
         pc \in Vetted => Accepted(request[r].kind, request[r].half),
         pc \in Succeeded => granted[r] = Minutes(request[r].half) * SecondsPerMinute,
         pc = "settled" => gated, pc = "free" => ~gated
  PROVE  PaymentInv'
<1>1. /\ request'[r].pc = pc /\ request'[r].kind = request[r].kind
      /\ request'[r].half = request[r].half /\ request'[r].quote = request[r].quote
      /\ \A q \in Requests \ {r} : request'[q] = request[q]
  BY DEF Goto, TypeOK, Records
<1>2. Consistent(request[r], granted[r], priceAt[r], gated)
  BY DEF PaymentInv
<1>3. Consistent(request'[r], granted'[r], priceAt'[r], gated)
  BY <1>1, <1>2 DEF Consistent
<1>. QED BY <1>1, <1>3, ConsistentElsewhere

LEMMA PaymentInvNext == TypeOK /\ PaymentInv /\ [Next]_vars => PaymentInv'
<1>. SUFFICES ASSUME TypeOK, PaymentInv, [Next]_vars PROVE PaymentInv'
  OBVIOUS
<1>. USE DEF worldVars, countVars
<1>1. ASSUME UNCHANGED <<gated, request, granted, priceAt>> PROVE PaymentInv'
  BY <1>1 DEF PaymentInv
<1>2. CASE TimePasses
  BY <1>1, <1>2 DEF TimePasses
<1>3. ASSUME NEW g \in Regions, Reprice(g) \/ Reseed(g) PROVE PaymentInv'
  BY <1>1, <1>3 DEF Reprice, Reseed, SetPrice
<1>4. ASSUME NEW s \in Sessions, SessionEnds(s) PROVE PaymentInv'
  BY <1>1, <1>4 DEF SessionEnds
<1>5. ASSUME NEW i \in Sources, NEW b \in Limiter!Windows, CounterExpires(i, b)
      PROVE  PaymentInv'
  BY <1>1, <1>5 DEF CounterExpires
<1>6. ASSUME NEW r \in Requests, NEW kind \in {"create", "topup"}, NEW i \in Sources,
             NEW target \in Targets(kind), NEW half \in HalfMinutes,
             Arrive(r, kind, i, target, half)
      PROVE  PaymentInv'
  <2>1. /\ request'[r].pc \in {"challenged", "validate"}
        /\ request'[r].kind = kind /\ request'[r].half = half
        /\ gated => request'[r].quote = Quote(kind, target, half)
        /\ \A q \in Requests \ {r} : request'[q] = request[q]
    BY <1>6 DEF Arrive, Opening, NoRequest, TypeOK
  <2>2. /\ request[r].pc = "none" /\ UNCHANGED <<gated, granted>>
        /\ priceAt' = [priceAt EXCEPT ![r] = PriceFor(kind, target)]
    BY <1>6 DEF Arrive
  <2>3. granted[r] = 0
    BY <2>2 DEF PaymentInv, Consistent, Ungranted
  <2>4. Consistent(request'[r], granted'[r], priceAt'[r], gated)
    BY <2>1, <2>2, <2>3 DEF Consistent, Vetted, Succeeded, Quote, TypeOK
  <2>. QED BY <2>1, <2>2, <2>4, ConsistentElsewhere DEF TypeOK
<1>7. ASSUME NEW r \in Requests, NEW half \in HalfMinutes, Retry(r, half) PROVE PaymentInv'
  <2>1. /\ request'[r].pc \in {"challenged", "validate"}
        /\ request'[r].kind = request[r].kind /\ request'[r].half = half
        /\ request'[r].quote = Quote(request[r].kind, request[r].target, half)
        /\ \A q \in Requests \ {r} : request'[q] = request[q]
    BY <1>7 DEF Retry, PriceStands, TypeOK, Records
  <2>2. /\ request[r].pc = "challenged" /\ UNCHANGED <<gated, granted>>
        /\ priceAt' = [priceAt EXCEPT ![r] = PriceFor(request[r].kind, request[r].target)]
    BY <1>7 DEF Retry, PriceStands
  <2>3. granted[r] = 0
    BY <2>2 DEF PaymentInv, Consistent, Ungranted
  <2>4. Consistent(request'[r], granted'[r], priceAt'[r], gated)
    BY <2>1, <2>2, <2>3 DEF Consistent, Vetted, Succeeded, Quote, TypeOK
  <2>. QED BY <2>1, <2>2, <2>4, ConsistentElsewhere DEF TypeOK
<1>8. ASSUME NEW r \in Requests, ValidateRefuses(r) \/ TopupValidated(r) PROVE PaymentInv'
  <2>1. granted[r] = 0
    BY <1>8 DEF ValidateRefuses, TopupValidated, PaymentInv, Consistent, Ungranted
  <2>2. CASE ValidateRefuses(r)
    BY <2>1, <2>2, ConsistentGoto DEF ValidateRefuses, Vetted, Succeeded
  <2>3. CASE TopupValidated(r)
    BY <2>1, <2>3, ConsistentGoto DEF TopupValidated, Vetted, Succeeded
  <2>. QED BY <1>8, <2>2, <2>3
<1>9. ASSUME NEW r \in Requests, CreateValidated(r) PROVE PaymentInv'
  <2>1. /\ request'[r].pc = "count" /\ request'[r].kind = request[r].kind
        /\ request'[r].half = request[r].half /\ request'[r].quote = request[r].quote
        /\ \A q \in Requests \ {r} : request'[q] = request[q]
    BY <1>9 DEF CreateValidated, TypeOK, Records
  <2>2. /\ Consistent(request[r], granted[r], priceAt[r], gated)
        /\ request[r].pc = "validate" /\ Accepted(request[r].kind, request[r].half)
        /\ UNCHANGED <<gated, granted, priceAt>>
    BY <1>9 DEF CreateValidated, PaymentInv
  <2>3. Consistent(request'[r], granted'[r], priceAt'[r], gated)
    BY <2>1, <2>2 DEF Consistent, Ungranted, Vetted, Succeeded
  <2>. QED BY <2>1, <2>2, <2>3, ConsistentElsewhere
<1>10. ASSUME NEW r \in Requests, CreateCount(r) PROVE PaymentInv'
  <2>1. /\ request'[r].pc \in {"arm", "region", "limited"}
        /\ request'[r].kind = request[r].kind
        /\ request'[r].half = request[r].half /\ request'[r].quote = request[r].quote
        /\ \A q \in Requests \ {r} : request'[q] = request[q]
    BY <1>10 DEF CreateCount, Counted, TypeOK, Records
  <2>2. /\ Consistent(request[r], granted[r], priceAt[r], gated)
        /\ request[r].pc = "count" /\ UNCHANGED <<gated, granted, priceAt>>
    BY <1>10 DEF CreateCount, PaymentInv
  <2>3. Consistent(request'[r], granted'[r], priceAt'[r], gated)
    BY <2>1, <2>2 DEF Consistent, Ungranted, Vetted, Succeeded
  <2>. QED BY <2>1, <2>2, <2>3, ConsistentElsewhere
<1>11. ASSUME NEW r \in Requests, CreateArm(r) \/ CreateRegion(r) \/ TopupLookup(r)
       PROVE  PaymentInv'
  <2>1. PICK pc \in {"region", "limited", "refused", "store", "add"} : Goto(r, pc)
    BY <1>11 DEF CreateArm, CreateRegion, TopupLookup, Counted
  <2>2. request[r].pc \in {"arm", "region", "lookup"} /\ UNCHANGED <<gated, granted, priceAt>>
    BY <1>11 DEF CreateArm, CreateRegion, TopupLookup
  <2>3. granted[r] = 0 /\ Accepted(request[r].kind, request[r].half)
    BY <2>2 DEF PaymentInv, Consistent, Ungranted, Vetted
  <2>. QED BY <2>1, <2>2, <2>3, ConsistentGoto DEF Succeeded
<1>12. ASSUME NEW r \in Requests, CreateStore(r) \/ TopupAdd(r) PROVE PaymentInv'
  <2>1. /\ request'[r].pc = "answered" /\ request'[r].kind = request[r].kind
        /\ request'[r].half = request[r].half /\ request'[r].quote = request[r].quote
        /\ granted'[r] = Minutes(request[r].half) * SecondsPerMinute
        /\ \A q \in Requests \ {r} : request'[q] = request[q] /\ granted'[q] = granted[q]
    BY <1>12 DEF CreateStore, TopupAdd, Goto, Grant, TypeOK, Records
  <2>2. /\ Consistent(request[r], granted[r], priceAt[r], gated)
        /\ request[r].pc \in {"store", "add"} /\ UNCHANGED <<gated, priceAt>>
    BY <1>12 DEF CreateStore, TopupAdd, PaymentInv
  <2>3. Consistent(request'[r], granted'[r], priceAt'[r], gated)
    BY <2>1, <2>2 DEF Consistent, Ungranted, Vetted, Succeeded
  <2>. QED BY <2>1, <2>2, <2>3, ConsistentElsewhere
<1>13. ASSUME NEW r \in Requests, Settle(r) PROVE PaymentInv'
  <2>1. PICK pc \in {"settled", "unsettled", "free"} : 
          Goto(r, pc) /\ (pc = "settled" => gated) /\ (pc = "free" => ~gated)
    BY <1>13 DEF Settle
  <2>2. request[r].pc = "answered" /\ UNCHANGED <<gated, granted, priceAt>>
    BY <1>13 DEF Settle
  <2>3. /\ Accepted(request[r].kind, request[r].half)
        /\ granted[r] = Minutes(request[r].half) * SecondsPerMinute
    BY <2>2 DEF PaymentInv, Consistent, Vetted, Succeeded
  <2>. QED BY <2>1, <2>2, <2>3, ConsistentGoto DEF Ungranted
<1>14. ASSUME NEW r \in Requests, HandlerFails(r) PROVE PaymentInv'
  BY <1>14, ConsistentGoto DEF HandlerFails, InHandler, Ungranted, Vetted, Succeeded
<1>15. CASE UNCHANGED vars
  BY <1>1, <1>15 DEF vars
<1>. QED
  BY <1>2, <1>3, <1>4, <1>5, <1>6, <1>7, <1>8, <1>9, <1>10, <1>11, <1>12, <1>13, <1>14, <1>15
     DEF Next, Purchase, Handle

LEMMA PaymentInvariant == Spec => [](TypeOK /\ PaymentInv)
<1>. QED BY TypeInit, TypeNext, PaymentInvInit, PaymentInvNext, PTL DEF Spec

-------------------------------------------------------------------------------
(* Nobody pays for a request that granted nothing: what is settled was     *)
(* accepted, and its credit written (server.js:173-316).                   *)
THEOREM NoChargeWithoutGrant == Spec => []ChargedOnlyForGrant
<1>1. TypeOK /\ PaymentInv => ChargedOnlyForGrant
  <2> SUFFICES ASSUME TypeOK, PaymentInv, NEW r \in Requests, request[r].pc = "settled"
               PROVE  granted[r] > 0
    BY DEF ChargedOnlyForGrant
  <2>1. /\ granted[r] = Minutes(request[r].half) * SecondsPerMinute
        /\ Accepted(request[r].kind, request[r].half)
    BY DEF PaymentInv, Consistent, Vetted, Succeeded
  <2>2. request[r].kind \in {"create", "topup"} /\ request[r].half \in Nat
    BY HalfMinutesNat DEF TypeOK, Records
  <2>3. Minutes(request[r].half) \in Nat \ {0}
    BY <2>1, <2>2, ParsersAgree
  <2>4. ASSUME NEW m \in Nat \ {0}, NEW n \in Nat \ {0} PROVE m * n > 0
    OBVIOUS
  <2>. QED BY <2>1, <2>3, <2>4, PaymentAssumption
<1>. QED BY <1>1, PaymentInvariant, PTL

(* Behind the gate no refusal comes after the write of the credit.         *)
THEOREM NoRefusalAfterGrant == Spec => []UnpaidOnlyByFailure
<1>1. TypeOK /\ PaymentInv => UnpaidOnlyByFailure
  <2> SUFFICES ASSUME TypeOK, PaymentInv, NEW r \in Requests, gated, granted[r] > 0
               PROVE  request[r].pc \in {"answered", "settled", "unsettled", "failed"}
    BY DEF UnpaidOnlyByFailure
  <2>1. request[r].pc \notin Ungranted /\ request[r].pc # "free"
    BY DEF PaymentInv, Consistent, TypeOK
  <2>2. request[r].pc \in {"none", "challenged", "answered"} \cup InHandler \cup Finished
    BY DEF TypeOK, Records
  <2>. QED BY <2>1, <2>2 DEF Ungranted, InHandler, Finished
<1>. QED BY <1>1, PaymentInvariant, PTL

LEMMA ScaledBounds ==
  ASSUME NEW e \in Int, NEW u \in Nat, NEW n \in Nat, -u <= e, e <= u
  PROVE  -(u * n) <= e * n /\ e * n <= u * n
<1>1. PICK k \in Nat : e = u - k
  BY u - e \in Nat
<1>2. PICK j \in Nat : e = j - u
  BY e + u \in Nat
<1>3. e * n = u * n - k * n /\ k * n \in Nat
  BY <1>1, ProductIsNat
<1>4. e * n = j * n - u * n /\ j * n \in Nat
  BY <1>2, ProductIsNat
<1>. QED BY <1>3, <1>4, ProductIsNat

(* Whatever operators and API starts do to prices during a purchase, the   *)
(* charge is the granted minutes at the price of the moment the middleware *)
(* accepted the payment, to half of the smallest amount (x402.js:10-32).   *)
THEOREM ChargeMatchesGrant == Spec => []FairPrice
<1>1. TypeOK /\ PaymentInv => FairPrice
  <2> SUFFICES ASSUME TypeOK, PaymentInv, NEW r \in Requests, request[r].pc = "settled"
               PROVE  LET worth == granted[r] * priceAt[r]
                          paid  == request[r].quote * PriceUnit * SecondsPerMinute
                          half  == PriceUnit * SecondsPerMinute
                      IN  -half <= 2 * (paid - worth) /\ 2 * (paid - worth) <= half
    BY DEF FairPrice
  <2>. DEFINE m == Minutes(request[r].half)
              n == SecondsPerMinute
              u == PriceUnit
              p == priceAt[r]
              q == request[r].quote
              e == 2 * (q * u - m * p)
  <2>1. request[r].kind \in {"create", "topup"} /\ request[r].half \in Nat
    BY HalfMinutesNat DEF TypeOK, Records
  <2>2. /\ Accepted(request[r].kind, request[r].half) /\ granted[r] = m * n
        /\ q = ToUsd(BilledMinutes(request[r].kind, request[r].half) * p)
    BY DEF PaymentInv, Consistent, Vetted, Succeeded
  <2>3. m \in Nat /\ q = ToUsd(m * p)
    BY <2>1, <2>2, ParsersAgree
  <2>4. /\ n \in Nat /\ u \in Nat /\ p \in Nat /\ m * p \in Nat
    BY <2>3, ProductIsNat, PaymentAssumption DEF TypeOK
  <2>5. q \in Nat /\ -u <= e /\ e <= u
    <3>. HIDE DEF m, p
    <3>. QED BY <2>3, <2>4, ToUsdNearest
  <2>. HIDE DEF m, n, u, p, q
  <2>6. -(u * n) <= e * n /\ e * n <= u * n
    <3>1. e \in Int
      BY <2>3, <2>4, <2>5
    <3>. HIDE DEF e
    <3>. QED BY <2>4, <2>5, <3>1, ScaledBounds
  <2>7. e * n = 2 * (q * u * n - (m * n) * p)
    BY <2>3, <2>4, <2>5
  <2>. QED BY <2>2, <2>6, <2>7 DEF m, n, u, p, q
<1>. QED BY <1>1, PaymentInvariant, PTL
===============================================================================
