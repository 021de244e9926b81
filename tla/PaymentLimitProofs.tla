-------------------------- MODULE PaymentLimitProofs --------------------------
(***************************************************************************)
(* The hourly limit of PaymentGate, for any number of purchases, any       *)
(* window and any limit.                                                   *)
(***************************************************************************)
EXTENDS PaymentGateProofs

-------------------------------------------------------------------------------
(* Where a request stands says whether it was counted, and how.            *)

Uncounted == {"none", "challenged", "validate", "count", "lookup", "add"}

Placed(q, seconds, now) ==
  /\ q.at <= now
  /\ q.pc \in Uncounted => q.n = 0
  /\ q.pc \in {"lookup", "add"} => q.kind = "topup"
  /\ q.pc \in {"count", "arm", "region", "store"} => q.kind = "create"
  /\ q.pc = "arm" => q.n > 0
  /\ q.pc \in {"region", "store"} => q.n \in 1 .. Limit
  /\ q.pc = "limited" => q.n > Limit
  /\ q.n > 0 => q.kind = "create" /\ Accepted("create", q.half)
  /\ q.kind = "create" /\ seconds > 0 => q.n \in 1 .. Limit

PlaceInv == \A r \in Requests : Placed(request[r], granted[r], clock)

LEMMA PlaceInit == Init => PlaceInv
  BY PaymentAssumption DEF Init, PlaceInv, Placed, NoRequest

LEMMA PlacedElsewhere ==
  ASSUME PlaceInv, NEW r \in Requests, UNCHANGED clock,
         \A q \in Requests \ {r} : request'[q] = request[q] /\ granted'[q] = granted[q],
         Placed(request'[r], granted'[r], clock)
  PROVE  PlaceInv'
<1>. SUFFICES ASSUME NEW q \in Requests PROVE Placed(request'[q], granted'[q], clock')
  BY DEF PlaceInv
<1>1. CASE q = r
  BY <1>1
<1>2. CASE q # r
  BY <1>2 DEF PlaceInv
<1>. QED BY <1>1, <1>2

LEMMA PlacedGoto ==
  ASSUME TypeOK, PlaceInv, NEW r \in Requests, NEW pc, Goto(r, pc), UNCHANGED <<clock, granted>>,
         pc \in Uncounted => request[r].n = 0,
         pc \in {"lookup", "add"} => request[r].kind = "topup",
         pc \in {"count", "arm", "region", "store"} => request[r].kind = "create",
         pc # "arm",
         pc \in {"region", "store"} => request[r].n \in 1 .. Limit,
         pc = "limited" => request[r].n > Limit
  PROVE  PlaceInv'
<1>1. /\ request'[r].pc = pc /\ request'[r].kind = request[r].kind
      /\ request'[r].half = request[r].half /\ request'[r].n = request[r].n
      /\ request'[r].at = request[r].at
      /\ \A q \in Requests \ {r} : request'[q] = request[q]
  BY DEF Goto, TypeOK, Records
<1>2. Placed(request[r], granted[r], clock)
  BY DEF PlaceInv
<1>3. Placed(request'[r], granted'[r], clock)
  BY <1>1, <1>2 DEF Placed
<1>. QED BY <1>1, <1>3, PlacedElsewhere

LEMMA PlaceNext == TypeOK /\ PaymentInv /\ PlaceInv /\ [Next]_vars => PlaceInv'
<1>. SUFFICES ASSUME TypeOK, PaymentInv, PlaceInv, [Next]_vars PROVE PlaceInv'
  OBVIOUS
<1>. USE DEF worldVars, countVars
<1>1. ASSUME UNCHANGED <<clock, request, granted>> PROVE PlaceInv'
  BY <1>1 DEF PlaceInv
<1>2. CASE TimePasses
  <2>1. clock \in Nat /\ clock' = clock + 1 /\ UNCHANGED <<request, granted>>
    BY <1>2 DEF TimePasses, TypeOK
  <2>2. ASSUME NEW r \in Requests PROVE request[r].at <= clock + 1
    <3>1. request[r].at \in Nat /\ request[r].at <= clock
      BY DEF TypeOK, Records, PlaceInv, Placed
    <3>. QED BY <2>1, <3>1
  <2>. QED BY <2>1, <2>2 DEF PlaceInv, Placed
<1>3. ASSUME NEW g \in Regions, Reprice(g) \/ Reseed(g) PROVE PlaceInv'
  BY <1>1, <1>3 DEF Reprice, Reseed, SetPrice
<1>4. ASSUME NEW s \in Sessions, SessionEnds(s) PROVE PlaceInv'
  BY <1>1, <1>4 DEF SessionEnds
<1>5. ASSUME NEW i \in Sources, NEW b \in Limiter!Windows, CounterExpires(i, b)
      PROVE  PlaceInv'
  BY <1>1, <1>5 DEF CounterExpires
<1>6. ASSUME NEW r \in Requests, NEW kind \in {"create", "topup"}, NEW i \in Sources,
             NEW target \in Targets(kind), NEW half \in HalfMinutes,
             Arrive(r, kind, i, target, half)
      PROVE  PlaceInv'
  <2>1. /\ request'[r].pc \in {"challenged", "validate"}
        /\ request'[r].n = 0 /\ request'[r].at = 0
        /\ \A q \in Requests \ {r} : request'[q] = request[q]
    BY <1>6 DEF Arrive, Opening, NoRequest, TypeOK
  <2>2. request[r].pc = "none" /\ UNCHANGED <<clock, granted>> /\ 0 <= clock
    BY <1>6 DEF Arrive, TypeOK
  <2>3. granted[r] = 0
    BY <2>2 DEF PaymentInv, Consistent, Ungranted
  <2>4. Placed(request'[r], granted'[r], clock)
    BY <2>1, <2>2, <2>3 DEF Placed
  <2>. QED BY <2>1, <2>2, <2>4, PlacedElsewhere
<1>7. ASSUME NEW r \in Requests, NEW half \in HalfMinutes, Retry(r, half) PROVE PlaceInv'
  <2>1. /\ request'[r].pc \in {"challenged", "validate"}
        /\ request'[r].n = request[r].n /\ request'[r].at = request[r].at
        /\ request'[r].kind = request[r].kind
        /\ \A q \in Requests \ {r} : request'[q] = request[q]
    BY <1>7 DEF Retry, PriceStands, TypeOK, Records
  <2>2. request[r].pc = "challenged" /\ UNCHANGED <<clock, granted>>
    BY <1>7 DEF Retry, PriceStands
  <2>3. granted[r] = 0 /\ request[r].n = 0 /\ request[r].at <= clock
    BY <2>2 DEF PaymentInv, Consistent, Ungranted, PlaceInv, Placed, Uncounted
  <2>4. Placed(request'[r], granted'[r], clock)
    BY <2>1, <2>2, <2>3 DEF Placed
  <2>. QED BY <2>1, <2>2, <2>4, PlacedElsewhere
<1>8. ASSUME NEW r \in Requests,
             \/ ValidateRefuses(r) \/ TopupValidated(r) \/ CreateRegion(r)
             \/ TopupLookup(r) \/ Settle(r) \/ HandlerFails(r) \/ CreateArm(r)
      PROVE  PlaceInv'
  <2>1. Placed(request[r], granted[r], clock)
    BY DEF PlaceInv
  <2>2. UNCHANGED <<clock, granted>>
    BY <1>8 DEF ValidateRefuses, TopupValidated, CreateRegion, TopupLookup, Settle, HandlerFails,
                CreateArm
  <2>3. CASE ValidateRefuses(r) \/ Settle(r) \/ HandlerFails(r)
    <3>1. PICK pc \in {"refused", "settled", "unsettled", "free", "failed"} : Goto(r, pc)
      BY <2>3 DEF ValidateRefuses, Settle, HandlerFails
    <3>. QED BY <2>2, <3>1, PlacedGoto DEF Uncounted
  <2>4. CASE TopupValidated(r)
    BY <2>1, <2>2, <2>4, PlacedGoto DEF TopupValidated, Placed, Uncounted
  <2>5. CASE CreateRegion(r)
    <3>1. PICK pc \in {"store", "refused"} : Goto(r, pc)
      BY <2>5 DEF CreateRegion
    <3>2. request[r].pc = "region"
      BY <2>5 DEF CreateRegion
    <3>. QED BY <2>1, <2>2, <3>1, <3>2, PlacedGoto DEF Placed, Uncounted
  <2>6. CASE TopupLookup(r)
    <3>1. PICK pc \in {"add", "refused"} : Goto(r, pc)
      BY <2>6 DEF TopupLookup
    <3>2. request[r].pc = "lookup"
      BY <2>6 DEF TopupLookup
    <3>. QED BY <2>1, <2>2, <3>1, <3>2, PlacedGoto DEF Placed, Uncounted
  <2>7. CASE CreateArm(r)
    <3>1. request[r].pc = "arm" /\ Goto(r, Counted(request[r].n)) /\ request[r].n \in Nat
      BY <2>7 DEF CreateArm, TypeOK, Records
    <3>2. request[r].n > 0 /\ request[r].kind = "create"
      BY <2>1, <3>1 DEF Placed
    <3>3. \/ Counted(request[r].n) = "region" /\ request[r].n \in 1 .. Limit
          \/ Counted(request[r].n) = "limited" /\ request[r].n > Limit
      BY <3>1, <3>2, PaymentAssumption DEF Counted
    <3>. QED BY <2>2, <3>1, <3>2, <3>3, PlacedGoto DEF Uncounted
  <2>. QED BY <1>8, <2>3, <2>4, <2>5, <2>6, <2>7
<1>9. ASSUME NEW r \in Requests, CreateValidated(r) PROVE PlaceInv'
  <2>1. /\ request'[r].pc = "count" /\ request'[r].kind = request[r].kind
        /\ request'[r].n = request[r].n /\ request'[r].at = clock
        /\ \A q \in Requests \ {r} : request'[q] = request[q]
    BY <1>9 DEF CreateValidated, TypeOK, Records
  <2>2. /\ request[r].pc = "validate" /\ request[r].kind = "create" /\ UNCHANGED <<clock, granted>>
        /\ clock <= clock
    BY <1>9 DEF CreateValidated, TypeOK
  <2>3. granted[r] = 0 /\ request[r].n = 0
    BY <2>2 DEF PaymentInv, Consistent, Ungranted, PlaceInv, Placed, Uncounted
  <2>4. Placed(request'[r], granted'[r], clock)
    BY <2>1, <2>2, <2>3 DEF Placed
  <2>. QED BY <2>1, <2>2, <2>4, PlacedElsewhere
<1>10. ASSUME NEW r \in Requests, CreateCount(r) PROVE PlaceInv'
  <2>. DEFINE n == Limiter!CountNext(request[r].source, request[r].at)
  <2>1. /\ request'[r].pc = IF n = 1 THEN "arm" ELSE Counted(n)
        /\ request'[r].kind = request[r].kind /\ request'[r].half = request[r].half
        /\ request'[r].n = n /\ request'[r].at = request[r].at
        /\ \A q \in Requests \ {r} : request'[q] = request[q]
    BY <1>10 DEF CreateCount, TypeOK, Records
  <2>2. /\ request[r].pc = "count" /\ UNCHANGED <<clock, granted>>
    BY <1>10 DEF CreateCount
  <2>3. /\ granted[r] = 0 /\ request[r].at <= clock
        /\ request[r].kind = "create" /\ Accepted("create", request[r].half)
    BY <2>2 DEF PaymentInv, Consistent, Ungranted, Vetted, PlaceInv, Placed
  <2>4. n \in Nat /\ n > 0
    <3>1. request[r].source \in Sources /\ request[r].at \in 0 .. MaxTime
      BY <2>2 DEF TypeOK, Records
    <3>2. counter[request[r].source][Limiter!Bucket(request[r].at)] \in Nat
      BY <3>1, WindowOfMoment DEF TypeOK, Limiter!TypeOK
    <3>. QED BY <3>2 DEF Limiter!CountNext
  <2>. HIDE DEF n
  <2>5. \/ request'[r].pc = "arm"
        \/ request'[r].pc = "region" /\ n \in 1 .. Limit
        \/ request'[r].pc = "limited" /\ n > Limit
    BY <2>1, <2>4, PaymentAssumption DEF Counted
  <2>6. Placed(request'[r], granted'[r], clock)
    BY <2>1, <2>2, <2>3, <2>4, <2>5 DEF Placed, Uncounted
  <2>. QED BY <2>1, <2>2, <2>6, PlacedElsewhere
<1>11. ASSUME NEW r \in Requests, CreateStore(r) \/ TopupAdd(r) PROVE PlaceInv'
  <2>1. /\ request'[r].pc = "answered" /\ request'[r].kind = request[r].kind
        /\ request'[r].half = request[r].half /\ request'[r].n = request[r].n
        /\ request'[r].at = request[r].at
        /\ \A q \in Requests \ {r} : request'[q] = request[q] /\ granted'[q] = granted[q]
    BY <1>11 DEF CreateStore, TopupAdd, Goto, Grant, TypeOK, Records
  <2>2. /\ Placed(request[r], granted[r], clock) /\ UNCHANGED clock
        /\ request[r].pc = "store" \/ request[r].kind = "topup"
    BY <1>11 DEF CreateStore, TopupAdd, PlaceInv, Placed
  <2>3. Placed(request'[r], granted'[r], clock)
    BY <2>1, <2>2 DEF Placed, Uncounted
  <2>. QED BY <2>1, <2>2, <2>3, PlacedElsewhere
<1>12. CASE UNCHANGED vars
  BY <1>1, <1>12 DEF vars
<1>. QED
  BY <1>2, <1>3, <1>4, <1>5, <1>6, <1>7, <1>8, <1>9, <1>10, <1>11, <1>12
     DEF Next, Purchase, Handle
(* Every request is placed rightly in every reachable state.               *)
LEMMA PlaceInvariant == Spec => [](TypeOK /\ PaymentInv /\ PlaceInv)
<1>1. Init => TypeOK /\ PaymentInv /\ PlaceInv
  BY TypeInit, PaymentInvInit, PlaceInit
<1>2. TypeOK /\ PaymentInv /\ PlaceInv /\ [Next]_vars => (TypeOK /\ PaymentInv /\ PlaceInv)'
  BY TypeNext, PaymentInvNext, PlaceNext
<1>. QED BY <1>1, <1>2, PTL DEF Spec

-------------------------------------------------------------------------------
(* The counter of a source and an hour is at most the number of requests   *)
(* that were counted for them, and while the hour lasts at least that of   *)
(* the requests that passed: its key cannot expire before the hour is over.*)

Came(i, b) == {r \in Requests : request[r].source = i /\ request[r].at \div Window = b
                                 /\ request[r].n > 0}
Passed(i, b) == {r \in Requests : request[r].source = i /\ request[r].at \div Window = b
                                   /\ request[r].n \in 1 .. Limit}

CountInv ==
  \A i \in Sources, b \in Limiter!Windows :
    /\ counter[i][b] <= Cardinality(Came(i, b))
    /\ \A r \in Came(i, b) : request[r].n <= Cardinality(Came(i, b))

LimitInv ==
  \A i \in Sources, b \in Limiter!Windows :
    /\ counterEnd[i][b] # 0 => (b + 1) * Window <= counterEnd[i][b]
    /\ clock < (b + 1) * Window =>
         /\ Cardinality(Passed(i, b)) <= counter[i][b]
         /\ Cardinality(Passed(i, b)) <= Limit

RateInv == CountInv /\ LimitInv

LEMMA CameFinite ==
  ASSUME NEW i, NEW b
  PROVE  /\ Came(i, b) \in SUBSET Requests /\ Cardinality(Came(i, b)) \in Nat
         /\ Passed(i, b) \in SUBSET Requests /\ Cardinality(Passed(i, b)) \in Nat
<1>1. Came(i, b) \in SUBSET Requests /\ Passed(i, b) \in SUBSET Requests
  BY DEF Came, Passed
<1>. QED BY <1>1, PaymentAssumption, CardinalityIsNat

LEMMA RateInit == Init => RateInv
<1>. SUFFICES ASSUME Init PROVE RateInv
  OBVIOUS
<1>1. \A r \in Requests : request[r].n = 0
  BY DEF Init, NoRequest
<1>2. \A i, b : Passed(i, b) = {} /\ Came(i, b) = {}
  BY <1>1, PaymentAssumption DEF Passed, Came
<1>3. Cardinality({}) = 0
  BY FS_EmptySet
<1>4. /\ counter = [i \in Sources |-> [b \in Limiter!Windows |-> 0]]
      /\ counterEnd = [i \in Sources |-> [b \in Limiter!Windows |-> 0]]
  BY DEF Init, Limiter!Init, Limiter!Windows
<1>5. CountInv
  BY <1>1, <1>2, <1>3, <1>4 DEF CountInv
<1>6. LimitInv
  BY <1>2, <1>3, <1>4, PaymentAssumption DEF LimitInv
<1>. QED BY <1>5, <1>6 DEF RateInv

(* A step in which no request is counted.                                  *)
NoneCounted ==
  \A r \in Requests :
    /\ request'[r].n = request[r].n
    /\ request[r].n > 0 => request'[r].source = request[r].source /\ request'[r].at = request[r].at

LEMMA SetsKept ==
  ASSUME TypeOK, NoneCounted, NEW i, NEW b
  PROVE  Came(i, b)' = Came(i, b) /\ Passed(i, b)' = Passed(i, b)
<1>1. \A r \in Requests : request[r].n \in Nat
  BY DEF TypeOK, Records
<1>2. \A r \in Requests : request[r].n \in 1 .. Limit => request[r].n > 0
  BY PaymentAssumption
<1>3. Came(i, b)' = Came(i, b)
  BY <1>1 DEF Came, NoneCounted
<1>4. Passed(i, b)' = Passed(i, b)
  BY <1>1, <1>2 DEF Passed, NoneCounted
<1>. QED BY <1>3, <1>4

(* Such a step keeps the invariant if it drops a counter only after its    *)
(* hour, and gives it no TTL that ends within the hour.                    *)
LEMMA RateKept ==
  ASSUME TypeOK, RateInv, NoneCounted, clock <= clock', clock' \in Nat,
         \A i \in Sources, b \in Limiter!Windows :
           /\ counterEnd'[i][b] \in {0, counterEnd[i][b]} \/ (b + 1) * Window <= counterEnd'[i][b]
           /\ counter'[i][b] = counter[i][b]
              \/ (counter'[i][b] = 0 /\ (b + 1) * Window <= clock')
  PROVE  RateInv'
<1>. SUFFICES ASSUME NEW i \in Sources, NEW b \in Limiter!Windows
              PROVE  /\ counter'[i][b] <= Cardinality(Came(i, b)')
                     /\ \A r \in Came(i, b)' : request'[r].n <= Cardinality(Came(i, b)')
                     /\ counterEnd'[i][b] # 0 => (b + 1) * Window <= counterEnd'[i][b]
                     /\ clock' < (b + 1) * Window =>
                          /\ Cardinality(Passed(i, b)') <= counter'[i][b]
                          /\ Cardinality(Passed(i, b)') <= Limit
  BY DEF RateInv, CountInv, LimitInv
<1>1. Passed(i, b)' = Passed(i, b) /\ Came(i, b)' = Came(i, b) /\ Cardinality(Came(i, b)) \in Nat
  BY SetsKept, CameFinite
<1>2. (b + 1) * Window \in Nat /\ clock \in Nat
  BY PaymentAssumption, ProductIsNat, QuotientInRange DEF Limiter!Windows, TypeOK
<1>. DEFINE end == (b + 1) * Window
<1>3. /\ counterEnd'[i][b] \in {0, counterEnd[i][b]} \/ end <= counterEnd'[i][b]
      /\ counter'[i][b] = counter[i][b] \/ (counter'[i][b] = 0 /\ end <= clock')
      /\ counterEnd[i][b] # 0 => end <= counterEnd[i][b]
      /\ clock < end => Cardinality(Passed(i, b)) <= counter[i][b] /\ Cardinality(Passed(i, b)) <= Limit
  BY DEF RateInv, LimitInv
<1>4. end \in Nat
  BY <1>2
<1>. HIDE DEF end
<1>5. /\ counterEnd'[i][b] # 0 => end <= counterEnd'[i][b]
      /\ clock' < end => /\ Cardinality(Passed(i, b)) <= counter'[i][b]
                         /\ Cardinality(Passed(i, b)) <= Limit
  BY <1>2, <1>3, <1>4
<1>6. counter'[i][b] <= Cardinality(Came(i, b))
  BY <1>1, <1>3 DEF RateInv, CountInv
<1>7. \A r \in Came(i, b) : request'[r].n <= Cardinality(Came(i, b))
  BY DEF RateInv, CountInv, Came, NoneCounted
<1>. QED BY <1>1, <1>5, <1>6, <1>7 DEF end

LEMMA NothingCounted ==
  ASSUME TypeOK, RateInv, NoneCounted, UNCHANGED countVars, clock <= clock', clock' \in Nat
  PROVE  RateInv'
  BY RateKept DEF countVars

LEMMA DropKeeps ==
  ASSUME TypeOK, RateInv, NEW i \in Sources, NEW b \in Limiter!Windows, CounterExpires(i, b)
  PROVE  RateInv'
<1>1. /\ counterEnd[i][b] # 0 /\ counterEnd[i][b] <= clock
      /\ counter' = [counter EXCEPT ![i][b] = 0] /\ counterEnd' = [counterEnd EXCEPT ![i][b] = 0]
      /\ UNCHANGED <<request, clock>>
  BY DEF CounterExpires, Limiter!Drop
<1>2. NoneCounted
  BY <1>1 DEF NoneCounted
<1>3. ASSUME NEW j \in Sources, NEW c \in Limiter!Windows
      PROVE  /\ counter'[j][c] = IF j = i /\ c = b THEN 0 ELSE counter[j][c]
             /\ counterEnd'[j][c] = IF j = i /\ c = b THEN 0 ELSE counterEnd[j][c]
  BY <1>1 DEF TypeOK, Limiter!TypeOK
<1>4. (b + 1) * Window <= clock
  <2>1. (b + 1) * Window \in Nat
    BY PaymentAssumption, ProductIsNat, QuotientInRange DEF Limiter!Windows
  <2>2. (b + 1) * Window <= counterEnd[i][b]
    BY <1>1 DEF RateInv, LimitInv
  <2>3. counterEnd[i][b] \in Nat /\ clock \in Nat
    BY DEF TypeOK, Limiter!TypeOK
  <2>. DEFINE end == (b + 1) * Window
  <2>. HIDE DEF end
  <2>4. end <= clock
    BY <1>1, <2>1, <2>2, <2>3 DEF end
  <2>. QED BY <2>4 DEF end
<1>5. clock <= clock' /\ clock' \in Nat
  BY <1>1 DEF TypeOK
<1>. QED BY <1>1, <1>2, <1>3, <1>4, <1>5, RateKept

(* The count itself: one more request came, and one more passed unless the *)
(* counter is over the limit.                                              *)
LEMMA CountKeeps ==
  ASSUME TypeOK, PlaceInv, RateInv, NEW r \in Requests, CreateCount(r)
  PROVE  RateInv'
<1>. DEFINE i == request[r].source
            b == request[r].at \div Window
            n == counter[i][b] + 1
<1>1. i \in Sources /\ b \in Limiter!Windows /\ counter[i][b] \in Nat
  <2>1. i \in Sources /\ request[r].at \in 0 .. MaxTime
    BY DEF CreateCount, TypeOK, Records
  <2>2. b \in Limiter!Windows
    BY <2>1, WindowOfMoment DEF Limiter!Bucket
  <2>. QED BY <2>1, <2>2 DEF TypeOK, Limiter!TypeOK
<1>2. /\ request[r].pc = "count" /\ request[r].n = 0
      /\ request' = [request EXCEPT ![r].n = n, ![r].pc = IF n = 1 THEN "arm" ELSE Counted(n)]
      /\ counter' = [counter EXCEPT ![i][b] = n]
      /\ UNCHANGED <<clock, counterEnd>>
  BY DEF CreateCount, Limiter!CountNext, Limiter!Incr, Limiter!Bucket, PlaceInv, Placed, Uncounted,
         TypeOK, Limiter!TypeOK
<1>3. n \in Nat /\ n > 0
  BY <1>1
<1>4. ASSUME NEW j \in Sources, NEW c \in Limiter!Windows
      PROVE  counter'[j][c] = IF j = i /\ c = b THEN n ELSE counter[j][c]
  BY <1>1, <1>2 DEF TypeOK, Limiter!TypeOK
<1>5. /\ request'[r].n = n /\ request'[r].source = i /\ request'[r].at = request[r].at
      /\ \A q \in Requests \ {r} : request'[q] = request[q]
  BY <1>2 DEF TypeOK, Records
<1>. HIDE DEF n
<1>6. ASSUME NEW j, NEW c
      PROVE  /\ Came(j, c)' = IF j = i /\ c = b THEN Came(j, c) \cup {r} ELSE Came(j, c)
             /\ Passed(j, c)' = IF j = i /\ c = b /\ n <= Limit
                                  THEN Passed(j, c) \cup {r} ELSE Passed(j, c)
             /\ r \notin Came(j, c) /\ r \notin Passed(j, c)
  <2>1. r \notin Came(j, c) /\ r \notin Passed(j, c)
    BY <1>2, PaymentAssumption DEF Came, Passed
  <2>2. ASSUME NEW q \in Requests
        PROVE  /\ q \in Came(j, c)' <=> IF q = r THEN j = i /\ c = b ELSE q \in Came(j, c)
               /\ q \in Passed(j, c)' <=>
                    IF q = r THEN j = i /\ c = b /\ n <= Limit ELSE q \in Passed(j, c)
    BY <1>3, <1>5, PaymentAssumption DEF Came, Passed
  <2>3. /\ Came(j, c)' \subseteq Requests /\ Came(j, c) \subseteq Requests
        /\ Passed(j, c)' \subseteq Requests /\ Passed(j, c) \subseteq Requests
    BY DEF Came, Passed
  <2>. QED BY <2>1, <2>2, <2>3
<1>7. ASSUME NEW j, NEW c
      PROVE  /\ Cardinality(Came(j, c)) \in Nat /\ Cardinality(Passed(j, c)) \in Nat
             /\ Cardinality(Came(j, c) \cup {r}) = Cardinality(Came(j, c)) + 1
             /\ Cardinality(Passed(j, c) \cup {r}) = Cardinality(Passed(j, c)) + 1
  BY <1>6, CameFinite, OneMore, PaymentAssumption
<1>8. CountInv'
  <2>1. ASSUME NEW j \in Sources, NEW c \in Limiter!Windows
        PROVE  /\ counter'[j][c] <= Cardinality(Came(j, c)')
               /\ \A q \in Came(j, c)' : request'[q].n <= Cardinality(Came(j, c)')
    <3>1. CASE j = i /\ c = b
      <4>1. Cardinality(Came(j, c)') = Cardinality(Came(j, c)) + 1
        BY <1>6, <1>7, <3>1
      <4>2. counter[j][c] <= Cardinality(Came(j, c)) /\ n = counter[j][c] + 1
        BY <3>1 DEF RateInv, CountInv, n
      <4>3. counter'[j][c] = n /\ n <= Cardinality(Came(j, c)')
        <5>1. counter[j][c] \in Nat /\ Cardinality(Came(j, c)) \in Nat /\ counter'[j][c] = n
          BY <1>4, <1>7, <3>1 DEF TypeOK, Limiter!TypeOK
        <5>. QED BY <4>1, <4>2, <5>1
      <4>4. ASSUME NEW q \in Came(j, c)' PROVE request'[q].n <= Cardinality(Came(j, c)')
        <5>1. CASE q = r
          BY <1>5, <4>3, <5>1
        <5>2. CASE q # r
          <6>1. q \in Came(j, c) /\ q \in Requests /\ request'[q].n = request[q].n
            BY <1>5, <1>6, <3>1, <5>2 DEF Came
          <6>2. request[q].n <= Cardinality(Came(j, c)) /\ request[q].n \in Nat
            BY <6>1 DEF RateInv, CountInv, TypeOK, Records
          <6>3. Cardinality(Came(j, c)) \in Nat
            BY <1>7
          <6>. QED BY <4>1, <6>1, <6>2, <6>3
        <5>. QED BY <5>1, <5>2
      <4>. QED BY <4>3, <4>4
    <3>2. CASE ~(j = i /\ c = b)
      <4>1. Came(j, c)' = Came(j, c) /\ counter'[j][c] = counter[j][c] /\ r \notin Came(j, c)
        BY <1>4, <1>6, <3>2
      <4>2. \A q \in Came(j, c) : request'[q] = request[q]
        BY <1>5, <4>1 DEF Came
      <4>. QED BY <4>1, <4>2 DEF RateInv, CountInv
    <3>. QED BY <3>1, <3>2
  <2>. QED BY <2>1 DEF CountInv
<1>9. LimitInv'
  <2>. SUFFICES ASSUME NEW j \in Sources, NEW c \in Limiter!Windows, clock < (c + 1) * Window
                PROVE  /\ Cardinality(Passed(j, c)') <= counter'[j][c]
                       /\ Cardinality(Passed(j, c)') <= Limit
    BY <1>2 DEF RateInv, LimitInv
  <2>1. Cardinality(Passed(j, c)) <= counter[j][c] /\ Cardinality(Passed(j, c)) <= Limit
    BY DEF RateInv, LimitInv
  <2>2. counter[j][c] \in Nat
    BY DEF TypeOK, Limiter!TypeOK
  <2>3. CASE j = i /\ c = b
    <3>1. n = counter[j][c] + 1 /\ counter'[j][c] = n
      BY <1>4, <2>3 DEF n
    <3>2. Cardinality(Passed(j, c)) \in Nat /\ Limit \in Nat
      BY <1>7, PaymentAssumption
    <3>3. CASE n <= Limit
      <4>1. Cardinality(Passed(j, c)') = Cardinality(Passed(j, c)) + 1
        BY <1>6, <1>7, <2>3, <3>3
      <4>. QED BY <2>1, <2>2, <3>1, <3>2, <3>3, <4>1
    <3>4. CASE ~(n <= Limit)
      <4>1. Passed(j, c)' = Passed(j, c)
        BY <1>6, <3>4
      <4>. QED BY <2>1, <2>2, <3>1, <3>2, <4>1
    <3>. QED BY <3>3, <3>4
  <2>4. CASE ~(j = i /\ c = b)
    BY <1>4, <1>6, <2>1, <2>4
  <2>. QED BY <2>3, <2>4
<1>. QED BY <1>8, <1>9 DEF RateInv

LEMMA GotoCountsNone ==
  ASSUME TypeOK, NEW r \in Requests, NEW pc, Goto(r, pc)
  PROVE  NoneCounted
  BY DEF Goto, NoneCounted, TypeOK, Records

(* EXPIRE, by a handler that read the clock in the hour.                   *)
LEMMA ArmKeeps ==
  ASSUME TypeOK, PlaceInv, RateInv, NEW r \in Requests, CreateArm(r)
  PROVE  RateInv'
<1>. DEFINE i == request[r].source
            b == request[r].at \div Window
            e == clock + Window
<1>1. /\ NoneCounted /\ counterEnd' = [counterEnd EXCEPT ![i][b] = e]
      /\ UNCHANGED <<clock, counter>>
  BY GotoCountsNone DEF CreateArm, Limiter!Expire, Limiter!Bucket
<1>2. request[r].at \in Nat /\ request[r].at <= clock /\ clock \in Nat
  BY DEF PlaceInv, Placed, TypeOK, Records
<1>3. (b + 1) * Window <= e
  BY <1>2, WindowEndBound, PaymentAssumption
<1>. HIDE DEF e
<1>4. ASSUME NEW j \in Sources, NEW c \in Limiter!Windows
      PROVE  counterEnd'[j][c] = IF j = i /\ c = b THEN e ELSE counterEnd[j][c]
  BY <1>1 DEF TypeOK, Limiter!TypeOK
<1>5. \A j \in Sources, c \in Limiter!Windows :
        counterEnd'[j][c] = counterEnd[j][c] \/ (c + 1) * Window <= counterEnd'[j][c]
  BY <1>3, <1>4
<1>6. clock <= clock' /\ clock' \in Nat
  BY <1>1, <1>2
<1>. QED BY <1>1, <1>5, <1>6, RateKept

LEMMA RateNext == TypeOK /\ PlaceInv /\ RateInv /\ [Next]_vars => RateInv'
<1>. SUFFICES ASSUME TypeOK, PlaceInv, RateInv, [Next]_vars PROVE RateInv'
  OBVIOUS
<1>1. clock \in Nat /\ clock' \in Nat
  BY TypeNext DEF TypeOK
<1>2. CASE TimePasses
  <2>1. UNCHANGED <<request, countVars>> /\ clock <= clock'
    BY <1>1, <1>2 DEF TimePasses
  <2>. QED BY <1>1, <2>1, NothingCounted DEF NoneCounted
<1>3. ASSUME \/ \E g \in Regions : Reprice(g) \/ Reseed(g)
             \/ \E s \in Sessions : SessionEnds(s)
             \/ UNCHANGED vars
      PROVE  RateInv'
  <2>1. UNCHANGED <<request, countVars, clock>> /\ clock <= clock'
    BY <1>1, <1>3 DEF Reprice, Reseed, SetPrice, SessionEnds, vars
  <2>. QED BY <1>1, <2>1, NothingCounted DEF NoneCounted
<1>4. ASSUME NEW r \in Requests, Purchase(r) PROVE RateInv'
  <2>1. /\ request[r].n = 0 /\ request'[r].n = 0
        /\ \A q \in Requests \ {r} : request'[q] = request[q]
        /\ UNCHANGED <<clock, countVars>>
    <3>1. ASSUME NEW half \in HalfMinutes, Retry(r, half)
          PROVE  /\ request[r].pc = "challenged" /\ request'[r].n = request[r].n
                 /\ \A q \in Requests \ {r} : request'[q] = request[q]
                 /\ UNCHANGED <<clock, countVars>>
      BY <3>1 DEF Retry, PriceStands, TypeOK, Records
    <3>2. ASSUME NEW half \in HalfMinutes, NEW kind \in {"create", "topup"}, NEW i \in Sources,
                 NEW target \in Targets(kind), Arrive(r, kind, i, target, half)
          PROVE  /\ request[r].pc = "none" /\ request'[r].n = 0
                 /\ \A q \in Requests \ {r} : request'[q] = request[q]
                 /\ UNCHANGED <<clock, countVars>>
      BY <3>2 DEF Arrive, Opening, NoRequest, TypeOK
    <3>3. request[r].pc \in {"none", "challenged"} => request[r].n = 0
      BY DEF PlaceInv, Placed, Uncounted
    <3>. QED BY <1>4, <3>1, <3>2, <3>3 DEF Purchase
  <2>2. UNCHANGED <<clock, countVars>> /\ clock <= clock'
    BY <1>1, <2>1
  <2>3. NoneCounted
    BY <2>1 DEF NoneCounted
  <2>. QED BY <1>1, <2>2, <2>3, NothingCounted
<1>5. ASSUME NEW r \in Requests,
             \/ ValidateRefuses(r) \/ TopupValidated(r) \/ CreateRegion(r) \/ CreateStore(r)
             \/ TopupLookup(r) \/ TopupAdd(r) \/ Settle(r) \/ HandlerFails(r)
      PROVE  RateInv'
  <2>1. /\ \E pc \in {"refused", "lookup", "store", "answered", "add", "settled", "unsettled",
                      "free", "failed"} : Goto(r, pc)
        /\ UNCHANGED <<clock, countVars>> /\ clock <= clock'
    BY <1>1, <1>5 DEF ValidateRefuses, TopupValidated, CreateRegion, CreateStore, TopupLookup,
                      TopupAdd, Settle, HandlerFails
  <2>. QED BY <1>1, <2>1, GotoCountsNone, NothingCounted
<1>6. ASSUME NEW r \in Requests, CreateValidated(r) PROVE RateInv'
  <2>1. /\ request[r].pc = "validate" /\ request'[r].n = request[r].n
        /\ \A q \in Requests \ {r} : request'[q] = request[q]
        /\ UNCHANGED <<clock, countVars>> /\ clock <= clock'
    BY <1>1, <1>6 DEF CreateValidated, TypeOK, Records
  <2>2. request[r].n = 0
    BY <2>1 DEF PlaceInv, Placed, Uncounted
  <2>3. NoneCounted
    BY <2>1, <2>2 DEF NoneCounted
  <2>. QED BY <1>1, <2>1, <2>3, NothingCounted
<1>. QED BY <1>2, <1>3, <1>4, <1>5, <1>6, CountKeeps, ArmKeeps, DropKeeps DEF Next, Handle

LEMMA RateInvariant == Spec => [](TypeOK /\ PaymentInv /\ PlaceInv /\ RateInv)
<1>1. Init => RateInv
  BY RateInit
<1>2. TypeOK /\ PlaceInv /\ RateInv /\ [Next]_vars => RateInv'
  BY RateNext
<1>. QED BY <1>1, <1>2, PlaceInvariant, PTL DEF Spec

(* 429 means that Limit other requests, valid and priced as their minutes  *)
(* were worth, came past the gate for that source in that hour, whatever   *)
(* became of them then: no challenge, no body that validation refused and  *)
(* no old counter does (server.js:175-197).                                *)
THEOREM NoEarlyLimit == Spec => []LimitedOnlyByValid
<1>1. ASSUME TypeOK, PaymentInv, PlaceInv, RateInv, NEW r \in Requests, request[r].pc = "limited"
      PROVE  Cardinality(Came(request[r].source, request[r].at \div Window) \ {r}) >= Limit
  <2>. DEFINE came == Came(request[r].source, request[r].at \div Window)
  <2>1. request[r].source \in Sources /\ request[r].at \in 0 .. MaxTime /\ request[r].n \in Nat
    BY <1>1 DEF TypeOK, Records
  <2>2. request[r].at \div Window \in Limiter!Windows
    BY <2>1, WindowOfMoment DEF Limiter!Bucket
  <2>3. request[r].n > Limit
    BY <1>1 DEF PlaceInv, Placed
  <2>4. r \in came
    BY <2>1, <2>3, PaymentAssumption DEF Came
  <2>5. request[r].n <= Cardinality(came)
    BY <1>1, <2>1, <2>2, <2>4 DEF RateInv, CountInv
  <2>6. Cardinality(came) \in Nat /\ Cardinality(came \ {r}) = Cardinality(came) - 1
    BY <2>4, CameFinite, OneLess, PaymentAssumption
  <2>. HIDE DEF came
  <2>7. Cardinality(came \ {r}) >= Limit
    BY <2>1, <2>3, <2>5, <2>6, PaymentAssumption
  <2>. QED BY <2>7 DEF came
<1>2. ASSUME TypeOK, PaymentInv, PlaceInv, NEW q \in Requests, request[q].n > 0
      PROVE  /\ request[q].kind = "create" /\ Accepted("create", request[q].half)
             /\ gated => request[q].quote = ToUsd(Minutes(request[q].half) * priceAt[q])
  <2>1. request[q].kind = "create" /\ Accepted("create", request[q].half)
    BY <1>2 DEF PlaceInv, Placed
  <2>2. request[q].pc # "none"
    BY <1>2 DEF PlaceInv, Placed, Uncounted
  <2>3. request[q].half \in Nat
    BY <1>2, HalfMinutesNat DEF TypeOK, Records
  <2>4. BilledMinutes("create", request[q].half) = Minutes(request[q].half)
    BY <2>1, <2>3, ParsersAgree
  <2>5. gated => request[q].quote
                 = ToUsd(BilledMinutes("create", request[q].half) * priceAt[q])
    BY <1>2, <2>1, <2>2 DEF PaymentInv, Consistent
  <2>. QED BY <2>1, <2>4, <2>5
<1>3. ASSUME TypeOK, PaymentInv, PlaceInv, NEW r \in Requests
      PROVE  {q \in Requests \ {r} :
                /\ request[q].kind = "create" /\ request[q].n > 0 /\ SameHour(q, r)
                /\ Accepted("create", request[q].half)
                /\ gated => request[q].quote = ToUsd(Minutes(request[q].half) * priceAt[q])}
             = Came(request[r].source, request[r].at \div Window) \ {r}
  BY <1>2, <1>3 DEF Came, SameHour
<1>4. TypeOK /\ PaymentInv /\ PlaceInv /\ RateInv => LimitedOnlyByValid
  BY <1>1, <1>3 DEF LimitedOnlyByValid
<1>. QED BY <1>4, RateInvariant, PTL

(* No source opens more than Limit sessions in an hour while it lasts: the *)
(* counter's key outlives the hour (server.js:187-193).                    *)
THEOREM OpeningsAreLimited == Spec => []OpeningsLimited
<1>1. ASSUME TypeOK, PlaceInv, RateInv, NEW i \in Sources, NEW b \in Limiter!Windows,
             clock < (b + 1) * Window
      PROVE  Cardinality(Opened(i, b)) <= Limit
  <2>1. \A r \in Requests : granted[r] \in Nat
    BY <1>1 DEF TypeOK
  <2>2. Opened(i, b) \subseteq Passed(i, b)
    BY <1>1, <2>1 DEF Opened, Passed, PlaceInv, Placed
  <2>3. IsFiniteSet(Passed(i, b))
    BY CameFinite, FS_Subset, PaymentAssumption
  <2>4. Cardinality(Opened(i, b)) <= Cardinality(Passed(i, b)) /\ Cardinality(Opened(i, b)) \in Nat
    BY <2>2, <2>3, FS_Subset, FS_CardinalityType
  <2>5. Cardinality(Passed(i, b)) <= Limit /\ Cardinality(Passed(i, b)) \in Nat
    BY <1>1, CameFinite DEF RateInv, LimitInv
  <2>. QED BY <2>4, <2>5, PaymentAssumption
<1>2. TypeOK /\ PlaceInv /\ RateInv => OpeningsLimited
  BY <1>1 DEF OpeningsLimited
<1>. QED BY <1>2, RateInvariant, PTL
===============================================================================
