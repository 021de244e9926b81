--------------------------- MODULE FetchGateProofs ---------------------------
(***************************************************************************)
(* Theorems about FetchGate, for any number of sessions and requests, any  *)
(* amounts, window, limit and life of a token.                             *)
(***************************************************************************)
EXTENDS FetchGate, LimiterLemmas, TLAPS

-------------------------------------------------------------------------------
(* Type correctness.                                                       *)

LEMMA TypeInit == Init => TypeOK
<1>. SUFFICES ASSUME Init PROVE TypeOK
  OBVIOUS
<1>1. Limiter!TypeOK
  BY DEF Init, Limiter!Init, Limiter!TypeOK
<1>2. NoFetch \in Records /\ NoFetch.pc = "none"
  BY FetchAssumption DEF NoFetch, Records
<1>3. /\ fetch = [f \in Fetches |-> NoFetch] /\ proxy = [f \in Fetches |-> "idle"]
      /\ executed = [f \in Fetches |-> [region |-> 0, api |-> 0]]
      /\ allowFallback \in BOOLEAN /\ proxyUrl = FALSE
      /\ tokenUntil = [s \in Sessions |-> 0] /\ openUntil = [s \in Sessions |-> 0]
      /\ openFrom = [s \in Sessions |-> 0]
  BY DEF Init
<1>4. /\ clock \in 0 .. MaxTime
      /\ phase \in [Sessions -> {"none", "active", "ended"}]
      /\ until \in [Sessions -> Nat]
      /\ sureUntil \in [Sessions -> Nat]
      /\ boughtUntil \in [Sessions -> Nat]
  BY FetchAssumption DEF Init, Prepaid!Init
<1>. QED BY <1>1, <1>2, <1>3, <1>4 DEF TypeOK

(* The steps of the session keep the types of its variables.               *)
LEMMA SessionType ==
  ASSUME TypeOK, NEW s \in Sessions,
         \/ Prepaid!Open(s) \/ Prepaid!TopUp(s) \/ Prepaid!TopUpLate(s)
         \/ Prepaid!Settle(s) \/ Prepaid!Close(s)
  PROVE  /\ clock' = clock
         /\ phase' \in [Sessions -> {"none", "active", "ended"}]
         /\ until' \in [Sessions -> Nat]
         /\ sureUntil' \in [Sessions -> Nat]
         /\ boughtUntil' \in [Sessions -> Nat]
<1>1. CASE Prepaid!TopUp(s)
  <2>1. PICK a \in Nat, sure \in Nat :
          /\ until' = [until EXCEPT ![s] = @ + a]
          /\ boughtUntil' = [boughtUntil EXCEPT ![s] = @ + a]
          /\ sureUntil' = [sureUntil EXCEPT ![s] = @ + sure]
          /\ UNCHANGED <<clock, phase>>
    BY <1>1, FetchAssumption DEF Prepaid!TopUp
  <2>. QED BY <2>1 DEF TypeOK
<1>2. CASE Prepaid!Open(s)
  <2>1. PICK end \in Nat :
          /\ phase' = [phase EXCEPT ![s] = "active"] /\ until' = [until EXCEPT ![s] = end]
          /\ sureUntil' = [sureUntil EXCEPT ![s] = end]
          /\ boughtUntil' = [boughtUntil EXCEPT ![s] = end] /\ UNCHANGED clock
    <3>1. PICK from \in 0 .. clock, a \in Amounts :
            /\ phase' = [phase EXCEPT ![s] = "active"] /\ until' = [until EXCEPT ![s] = from + a]
            /\ sureUntil' = [sureUntil EXCEPT ![s] = from + a]
            /\ boughtUntil' = [boughtUntil EXCEPT ![s] = from + a] /\ UNCHANGED clock
      BY <1>2 DEF Prepaid!Open
    <3>2. from + a \in Nat
      BY FetchAssumption DEF TypeOK
    <3>. QED BY <3>1, <3>2
  <2>. QED BY <2>1 DEF TypeOK
<1>3. CASE Prepaid!TopUpLate(s)
  BY <1>3, FetchAssumption DEF TypeOK, Prepaid!TopUpLate
<1>4. CASE Prepaid!Settle(s) \/ Prepaid!Close(s)
  BY <1>4 DEF TypeOK, Prepaid!Settle, Prepaid!Close
<1>. QED BY <1>1, <1>2, <1>3, <1>4

(* A step that only sends request f to another place of its code.          *)
LEMMA GotoType ==
  ASSUME TypeOK, NEW f \in Fetches, fetch[f].pc # "none", NEW pc,
         pc \in {"count", "arm", "region", "regional", "local"} \cup Finished, Goto(f, pc)
  PROVE  /\ fetch' \in [Fetches -> Records]
         /\ \A g \in Fetches : fetch'[g].pc # "none" => fetch'[g].session \in Sessions
<1>. DEFINE new == [fetch[f] EXCEPT !.pc = pc]
<1>1. fetch[f] \in Records
  BY DEF TypeOK
<1>2. new \in Records /\ new.session = fetch[f].session
  BY ONLY <1>1, pc \in {"count", "arm", "region", "regional", "local"} \cup Finished DEF Records
<1>3. fetch' = [fetch EXCEPT ![f] = new]
  BY DEF Goto
<1>. HIDE DEF new
<1>. QED BY <1>2, <1>3 DEF TypeOK

LEMMA CountType ==
  ASSUME TypeOK, NEW s \in Sessions, NEW at \in 0 .. MaxTime
  PROVE  /\ Limiter!Bucket(at) \in Limiter!Windows
         /\ Limiter!CountNext(s, at) \in Nat
         /\ Limiter!Incr(s, at) => Limiter!TypeOK'
         /\ Limiter!Expire(s, at) => Limiter!TypeOK'
<1>. DEFINE b == Limiter!Bucket(at)
            n == counter[s][b] + 1
            e == clock + Window
<1>1. b \in Limiter!Windows
  BY FetchAssumption, QuotientInRange DEF Limiter!Bucket, Limiter!Windows
<1>2. /\ counter \in [Sessions -> [Limiter!Windows -> Nat]]
      /\ counterEnd \in [Sessions -> [Limiter!Windows -> Nat]]
  BY DEF TypeOK, Limiter!TypeOK
<1>3. n \in Nat /\ Limiter!CountNext(s, at) = n
  BY <1>1, <1>2 DEF Limiter!CountNext
<1>4. e \in Nat
  BY FetchAssumption DEF TypeOK
<1>5. Limiter!Incr(s, at) => counter' = [counter EXCEPT ![s][b] = n] /\ counterEnd' = counterEnd
  BY <1>2 DEF Limiter!Incr
<1>6. Limiter!Expire(s, at) => counterEnd' = [counterEnd EXCEPT ![s][b] = e] /\ counter' = counter
  BY <1>2 DEF Limiter!Expire
<1>. HIDE DEF b, n, e
<1>7. Limiter!Incr(s, at) => counter' \in [Sessions -> [Limiter!Windows -> Nat]]
  <2>1. n \in Nat
    BY <1>3
  <2>2. Limiter!Incr(s, at) => counter' = [counter EXCEPT ![s][b] = n]
    BY <1>5
  <2>. QED BY <1>1, <1>2, <2>1, <2>2, CellUpdateType
<1>8. Limiter!Expire(s, at) => counterEnd' \in [Sessions -> [Limiter!Windows -> Nat]]
  BY <1>1, <1>2, <1>4, <1>6, CellUpdateType
<1>. QED BY <1>1, <1>2, <1>3, <1>5, <1>6, <1>7, <1>8 DEF Limiter!TypeOK, Limiter!Windows, b

LEMMA TypeNext == TypeOK /\ [Next]_vars => TypeOK'
<1>. SUFFICES ASSUME TypeOK, [Next]_vars PROVE TypeOK'
  OBVIOUS
<1>. USE DEF openVars, sessionVars, regionVars, countVars
<1>1. CASE TimePasses
  BY <1>1, FetchAssumption DEF TimePasses, Prepaid!Advance, TypeOK, Limiter!TypeOK
<1>2. CASE ConfigureProxy \/ SeedRegion
  BY <1>2 DEF ConfigureProxy, SeedRegion, TypeOK, Limiter!TypeOK
<1>3. ASSUME NEW s \in Sessions, OpenSession(s) PROVE TypeOK'
  <2>1. Prepaid!Open(s) /\ UNCHANGED <<regionVars, fetch, proxy, executed, countVars>>
    BY <1>3 DEF OpenSession
  <2>2. tokenUntil' \in [Sessions -> Nat]
    BY <1>3, FetchAssumption DEF OpenSession, TokenEnd, TypeOK
  <2>3. openUntil' \in [Sessions -> Nat]
    BY <1>3, <2>1, SessionType DEF OpenSession, TypeOK
  <2>4. openFrom' \in [Sessions -> Nat]
    BY <1>3 DEF OpenSession, TypeOK
  <2>. QED BY <2>1, <2>2, <2>3, <2>4, SessionType DEF TypeOK, Limiter!TypeOK
<1>4. ASSUME NEW s \in Sessions, TopUpSession(s) PROVE TypeOK'
  <2>1. /\ Prepaid!TopUp(s) \/ Prepaid!TopUpLate(s)
        /\ UNCHANGED <<openVars, tokenUntil, regionVars, fetch, proxy, executed, countVars>>
    BY <1>4 DEF TopUpSession
  <2>. QED BY <2>1, SessionType DEF TypeOK, Limiter!TypeOK
<1>15. ASSUME NEW s \in Sessions, RenewToken(s) PROVE TypeOK'
  BY <1>15, FetchAssumption DEF RenewToken, TokenEnd, TypeOK, Limiter!TypeOK
<1>5. ASSUME NEW s \in Sessions, BillSession(s) PROVE TypeOK'
  <2>1. /\ Prepaid!Settle(s) \/ Prepaid!Close(s)
        /\ UNCHANGED <<openVars, tokenUntil, regionVars, fetch, proxy, executed, countVars>>
    BY <1>5 DEF BillSession
  <2>. QED BY <2>1, SessionType DEF TypeOK, Limiter!TypeOK
<1>6. ASSUME NEW s \in Sessions, NEW f \in Fetches, FetchArrives(f, s) PROVE TypeOK'
  <2>. DEFINE pc  == IF TokenValid(s, clock) THEN "lookup" ELSE "unauthorized"
              new == [fetch[f] EXCEPT !.session = s, !.at = clock, !.pc = pc]
  <2>1. fetch[f] \in Records /\ clock \in 0 .. MaxTime /\ pc \in {"lookup", "unauthorized"}
    BY DEF TypeOK
  <2>. HIDE DEF pc
  <2>2. new \in Records /\ new.session = s
    BY ONLY <2>1, s \in Sessions DEF Records, Finished
  <2>3. /\ fetch' = [fetch EXCEPT ![f] = new]
        /\ UNCHANGED <<sessionVars, regionVars, proxy, executed, countVars>>
    BY <1>6 DEF FetchArrives, pc
  <2>. HIDE DEF new
  <2>. QED BY <2>2, <2>3 DEF TypeOK, Limiter!TypeOK
<1>7. ASSUME NEW s \in Sessions, NEW b \in Limiter!Windows, CounterExpires(s, b) PROVE TypeOK'
  <2>1. Limiter!TypeOK'
    BY <1>7 DEF CounterExpires, Limiter!Drop, TypeOK, Limiter!TypeOK
  <2>. QED BY <1>7, <2>1 DEF CounterExpires, TypeOK
<1>8. ASSUME NEW f \in Fetches, \/ FetchLookup(f) \/ FetchNoRegion(f) \/ ForwardFails(f)
                                \/ ForwardAnswered(f) \/ LocalFails(f) \/ HandlerDies(f)
      PROVE  TypeOK'
  <2>1. PICK pc \in {"count", "local"} \cup Finished : Goto(f, pc)
    BY <1>8 DEF FetchLookup, FetchNoRegion, ForwardFails, ForwardAnswered, LocalFails, HandlerDies,
                FallBack, Finished
  <2>2. fetch[f].pc # "none" /\ UNCHANGED <<sessionVars, regionVars, proxy, executed, countVars>>
    BY <1>8 DEF FetchLookup, FetchNoRegion, ForwardFails, ForwardAnswered, LocalFails, HandlerDies
  <2>. QED BY <2>1, <2>2, GotoType DEF TypeOK, Limiter!TypeOK
<1>9. ASSUME NEW f \in Fetches, FetchCount(f) PROVE TypeOK'
  <2>. DEFINE n   == Limiter!CountNext(fetch[f].session, fetch[f].at)
              pc  == IF n = 1 THEN "arm" ELSE Counted(n)
              new == [fetch[f] EXCEPT !.n = n, !.pc = pc]
  <2>1. /\ fetch[f] \in Records /\ fetch[f].session \in Sessions
        /\ fetch[f].at \in 0 .. MaxTime
    BY <1>9 DEF FetchCount, TypeOK, Records
  <2>2. n \in Nat /\ Limiter!TypeOK'
    BY <1>9, <2>1, CountType DEF FetchCount
  <2>3. pc \in {"arm", "region", "limited"}
    BY DEF Counted
  <2>4. new \in Records /\ new.session = fetch[f].session
    <3>. HIDE DEF n, pc
    <3>. QED BY ONLY <2>1, <2>2, <2>3 DEF Records, Finished
  <2>5. /\ fetch' = [fetch EXCEPT ![f] = new]
        /\ UNCHANGED <<sessionVars, regionVars, proxy, executed>>
    BY <1>9 DEF FetchCount
  <2>. HIDE DEF new
  <2>. QED BY <2>1, <2>2, <2>4, <2>5 DEF TypeOK
<1>10. ASSUME NEW f \in Fetches, FetchArm(f) PROVE TypeOK'
  <2>1. fetch[f].session \in Sessions /\ fetch[f].at \in 0 .. MaxTime
    BY <1>10 DEF FetchArm, TypeOK, Records
  <2>2. Limiter!TypeOK'
    BY <1>10, <2>1, CountType DEF FetchArm
  <2>3. Counted(fetch[f].n) \in {"region", "limited"}
    BY DEF Counted
  <2>4. fetch[f].pc # "none" /\ Goto(f, Counted(fetch[f].n))
        /\ UNCHANGED <<sessionVars, regionVars, proxy, executed>>
    BY <1>10 DEF FetchArm
  <2>. QED BY <2>2, <2>3, <2>4, GotoType DEF TypeOK, Finished
<1>11. ASSUME NEW f \in Fetches, FetchRegion(f) PROVE TypeOK'
  <2>1. PICK pc \in {"regional", "local"} : Goto(f, pc)
    BY <1>11 DEF FetchRegion
  <2>2. /\ fetch[f].pc # "none" /\ UNCHANGED <<sessionVars, regionVars, executed, countVars>>
        /\ proxy' \in [Fetches -> {"idle", "sent", "executed", "failed"}]
    BY <1>11 DEF FetchRegion, TypeOK
  <2>. QED BY <2>1, <2>2, GotoType DEF TypeOK, Limiter!TypeOK
<1>12. ASSUME NEW f \in Fetches, LocalFetch(f) PROVE TypeOK'
  <2>1. PICK pc \in {"ok", "error"} : Goto(f, pc)
    BY <1>12 DEF LocalFetch
  <2>2. /\ fetch[f].pc # "none" /\ UNCHANGED <<sessionVars, regionVars, proxy, countVars>>
        /\ executed' \in [Fetches -> [region : Nat, api : Nat]]
    BY <1>12 DEF LocalFetch, Execute, TypeOK
  <2>. QED BY <2>1, <2>2, GotoType DEF TypeOK, Limiter!TypeOK, Finished
<1>13. ASSUME NEW f \in Fetches, ProxyExecutes(f) \/ ProxyRefuses(f) PROVE TypeOK'
  <2>1. /\ UNCHANGED <<sessionVars, regionVars, fetch, countVars>>
        /\ proxy' \in [Fetches -> {"idle", "sent", "executed", "failed"}]
    BY <1>13 DEF ProxyExecutes, ProxyRefuses, TypeOK
  <2>2. executed' \in [Fetches -> [region : Nat, api : Nat]]
    BY <1>13 DEF ProxyExecutes, ProxyRefuses, Execute, TypeOK
  <2>. QED BY <2>1, <2>2 DEF TypeOK, Limiter!TypeOK
<1>14. CASE UNCHANGED vars
  BY <1>14 DEF vars, TypeOK, Limiter!TypeOK
<1>. QED
  BY <1>1, <1>2, <1>3, <1>4, <1>5, <1>6, <1>7, <1>8, <1>9, <1>10, <1>11, <1>12, <1>13, <1>14,
     <1>15 DEF Next, FetchStep

(* Every reachable state is well typed (server.js:325-419).                *)
THEOREM FetchTypeCorrect == Spec => []TypeOK
<1>. QED BY TypeInit, TypeNext, PTL DEF Spec

-------------------------------------------------------------------------------
(* What the requests may rely on.  An active session is paid at least to   *)
(* the end of its sure time and at most to the end of all that was bought, *)
(* and ends only after the former; the last token lasts TokenTtl seconds   *)
(* from the opening at least.                                              *)
SessionInv ==
  \A s \in Sessions :
    /\ phase[s] = "active" => sureUntil[s] <= until[s] /\ until[s] <= boughtUntil[s]
    /\ phase[s] = "ended" => sureUntil[s] <= clock
    /\ phase[s] # "none" => openFrom[s] <= clock /\ openFrom[s] + TokenTtl <= tokenUntil[s]

(* A step of another part leaves the sessions alone.                       *)
LEMMA OtherStep ==
  ASSUME [Next]_vars, ~TimePasses,
         ~ \E s \in Sessions : \/ OpenSession(s) \/ TopUpSession(s) \/ RenewToken(s)
                               \/ BillSession(s)
  PROVE  UNCHANGED sessionVars
  BY DEF Next, FetchStep, vars, ConfigureProxy, SeedRegion, FetchArrives, CounterExpires,
         FetchLookup, FetchCount, FetchArm, FetchRegion, FetchNoRegion, ForwardFails, ForwardAnswered,
         LocalFetch, LocalFails, HandlerDies, ProxyExecutes, ProxyRefuses

LEMMA SessionInvInit == Init => SessionInv
  BY DEF Init, Prepaid!Init, SessionInv

LEMMA SessionInvNext == TypeOK /\ SessionInv /\ [Next]_vars => SessionInv'
<1>. SUFFICES ASSUME TypeOK, SessionInv, [Next]_vars PROVE SessionInv'
  OBVIOUS
<1>. USE DEF openVars
<1>1. CASE TimePasses
  BY <1>1, FetchAssumption DEF TimePasses, Prepaid!Advance, TypeOK, SessionInv
<1>2. ASSUME NEW s \in Sessions, OpenSession(s) PROVE SessionInv'
  <2>1. PICK from \in 0 .. clock :
          /\ openFrom' = [openFrom EXCEPT ![s] = from]
          /\ tokenUntil' = [tokenUntil EXCEPT ![s] = from + TokenTtl]
    BY <1>2 DEF OpenSession, TokenEnd
  <2>2. PICK end \in Nat :
          /\ phase' = [phase EXCEPT ![s] = "active"] /\ until' = [until EXCEPT ![s] = end]
          /\ sureUntil' = [sureUntil EXCEPT ![s] = end]
          /\ boughtUntil' = [boughtUntil EXCEPT ![s] = end] /\ UNCHANGED clock
    <3>1. PICK start \in 0 .. clock, a \in Amounts :
            /\ phase' = [phase EXCEPT ![s] = "active"] /\ until' = [until EXCEPT ![s] = start + a]
            /\ sureUntil' = [sureUntil EXCEPT ![s] = start + a]
            /\ boughtUntil' = [boughtUntil EXCEPT ![s] = start + a] /\ UNCHANGED clock
      BY <1>2 DEF OpenSession, Prepaid!Open
    <3>2. start + a \in Nat
      BY FetchAssumption DEF TypeOK
    <3>. QED BY <3>1, <3>2
  <2>. QED BY <2>1, <2>2, FetchAssumption DEF SessionInv, TypeOK
<1>3. ASSUME NEW s \in Sessions, TopUpSession(s) PROVE SessionInv'
  <2>1. UNCHANGED <<openVars, tokenUntil, clock>>
    BY <1>3 DEF TopUpSession, Prepaid!TopUp, Prepaid!TopUpLate
  <2>2. CASE Prepaid!TopUp(s)
    BY <2>1, <2>2, FetchAssumption DEF Prepaid!TopUp, SessionInv, TypeOK
  <2>3. CASE Prepaid!TopUpLate(s)
    BY <2>1, <2>3, FetchAssumption DEF Prepaid!TopUpLate, SessionInv, TypeOK
  <2>. QED BY <1>3, <2>2, <2>3 DEF TopUpSession
<1>6. ASSUME NEW s \in Sessions, RenewToken(s) PROVE SessionInv'
  BY <1>6, FetchAssumption DEF RenewToken, TokenEnd, SessionInv, TypeOK
<1>4. ASSUME NEW s \in Sessions, BillSession(s) PROVE SessionInv'
  <2>1. UNCHANGED <<openVars, tokenUntil, clock>>
    BY <1>4 DEF BillSession, Prepaid!Settle, Prepaid!Close
  <2>2. CASE Prepaid!Settle(s)
    BY <2>1, <2>2, FetchAssumption DEF Prepaid!Settle, SessionInv, TypeOK
  <2>3. CASE Prepaid!Close(s)
    BY <2>1, <2>3, FetchAssumption DEF Prepaid!Close, SessionInv, TypeOK
  <2>. QED BY <1>4, <2>2, <2>3 DEF BillSession
<1>5. CASE UNCHANGED sessionVars
  BY <1>5 DEF sessionVars, SessionInv
<1>. QED BY <1>1, <1>2, <1>3, <1>4, <1>5, <1>6, OtherStep

(* A session that was opened keeps its opening, and only gains.            *)
LEMMA SessionKept ==
  ASSUME TypeOK, [Next]_vars, NEW s \in Sessions, phase[s] # "none"
  PROVE  /\ phase'[s] # "none"
         /\ openFrom'[s] = openFrom[s]
         /\ boughtUntil[s] <= boughtUntil'[s]
         /\ clock <= clock'
<1>. USE DEF openVars
<1>1. CASE TimePasses
  BY <1>1 DEF TimePasses, Prepaid!Advance, TypeOK
<1>2. ASSUME NEW q \in Sessions, OpenSession(q) PROVE q # s /\ UNCHANGED clock
  BY <1>2 DEF OpenSession, Prepaid!Open
<1>3. ASSUME NEW q \in Sessions, OpenSession(q)
      PROVE  /\ phase'[s] = phase[s] /\ openFrom'[s] = openFrom[s]
             /\ boughtUntil'[s] = boughtUntil[s]
  BY <1>2, <1>3 DEF OpenSession, Prepaid!Open, TypeOK
<1>4. ASSUME NEW q \in Sessions, TopUpSession(q) \/ RenewToken(q) \/ BillSession(q)
      PROVE  /\ phase'[s] # "none" /\ openFrom'[s] = openFrom[s]
             /\ boughtUntil[s] <= boughtUntil'[s] /\ UNCHANGED clock
  BY <1>4, FetchAssumption
     DEF TopUpSession, RenewToken, BillSession, Prepaid!TopUp, Prepaid!TopUpLate, Prepaid!Settle,
         Prepaid!Close, TypeOK
<1>5. CASE UNCHANGED sessionVars
  BY <1>5 DEF sessionVars, TypeOK
<1>. QED BY <1>1, <1>2, <1>3, <1>4, <1>5, OtherStep DEF TypeOK

-------------------------------------------------------------------------------
(* The invariant of one request: what its handler found out about the      *)
(* session stays true of it, and no host executes it out of turn.          *)

Vetted == {"count", "arm", "region", "regional", "local"}
Reached(f) == fetch[f].pc \in Vetted \/ proxy[f] # "idle" \/ executed[f].api > 0

FetchInv(f) ==
  LET q == fetch[f]
      s == fetch[f].session
  IN  /\ q.pc # "none" => phase[s] # "none" /\ q.at <= clock
      /\ Reached(f) => q.pc # "none" /\ q.at < boughtUntil[s]
      /\ q.pc = "unauthorized" => openFrom[s] + TokenTtl <= q.at

HostInv(f) ==
  /\ executed[f].region <= 1 /\ executed[f].api <= 1
  /\ proxy[f] \in {"idle", "sent"} => executed[f].region = 0
  /\ executed[f].api > 0 => fetch[f].pc \in {"ok", "error"}
  /\ proxy[f] # "idle" => fetch[f].pc \in {"regional", "local", "ok", "error"}
  /\ proxy[f] # "idle" /\ (fetch[f].pc = "local" \/ executed[f].api > 0) => allowFallback

GateInv == SessionInv /\ \A f \in Fetches : FetchInv(f) /\ HostInv(f)

LEMMA GateInvInit == Init => GateInv
  BY SessionInvInit DEF Init, GateInv, FetchInv, HostInv, Reached, Vetted, NoFetch

(* A request that does not move keeps its part of the invariant.           *)
LEMMA FetchUnmoved ==
  ASSUME TypeOK, [Next]_vars, NEW f \in Fetches, FetchInv(f),
         fetch'[f] = fetch[f], Reached(f)' => Reached(f)
  PROVE  FetchInv(f)'
<1>1. fetch[f].pc = "none" => ~ Reached(f)
  BY DEF FetchInv
<1>2. fetch[f].pc # "none" =>
        LET s == fetch[f].session
        IN  /\ s \in Sessions /\ phase'[s] # "none" /\ openFrom'[s] = openFrom[s]
            /\ boughtUntil[s] <= boughtUntil'[s] /\ clock <= clock'
  BY SessionKept DEF FetchInv, TypeOK
<1>. QED BY <1>1, <1>2, TypeNext DEF FetchInv, TypeOK, Records

(* A step of the handler, judged by what it says of the session.           *)
LEMMA FetchMoved ==
  ASSUME TypeOK, [Next]_vars, NEW f \in Fetches, FetchInv(f), fetch[f].pc # "none",
         fetch'[f].session = fetch[f].session, fetch'[f].at = fetch[f].at,
         fetch'[f].pc \notin {"none", "unauthorized"},
         Reached(f)' => Reached(f) \/ fetch[f].at < boughtUntil[fetch[f].session]
  PROVE  FetchInv(f)'
<1>. DEFINE s == fetch[f].session
<1>1. /\ s \in Sessions /\ phase'[s] # "none" /\ openFrom'[s] = openFrom[s]
      /\ boughtUntil[s] <= boughtUntil'[s] /\ clock <= clock'
  BY SessionKept DEF FetchInv, TypeOK
<1>2. /\ clock \in Nat /\ clock' \in Nat /\ fetch[f].at \in Nat
      /\ openFrom[s] \in Nat /\ boughtUntil[s] \in Nat /\ boughtUntil'[s] \in Nat
  BY <1>1, TypeNext DEF TypeOK, Records
<1>3. fetch[f].at <= clock /\ (Reached(f) => fetch[f].at < boughtUntil[s])
  BY DEF FetchInv
<1>. QED BY <1>1, <1>2, <1>3 DEF FetchInv

(* What getSession and the credit left tell the handler is so.             *)
LEMMA PaidMeans ==
  ASSUME TypeOK, SessionInv, NEW s \in Sessions, phase[s] # "none", NEW at \in 0 .. clock
  PROVE  /\ Paid(s, at) => at < boughtUntil[s]
         /\ ~Paid(s, at) => sureUntil[s] <= clock
         /\ ~TokenValid(s, at) => openFrom[s] + TokenTtl <= at
<1>1. /\ sureUntil[s] \in Nat /\ openFrom[s] \in Nat /\ until[s] \in Nat /\ boughtUntil[s] \in Nat
      /\ tokenUntil[s] \in Nat /\ clock \in Nat /\ at \in Nat /\ at <= clock
      /\ phase[s] \in {"active", "ended"}
  BY DEF TypeOK
<1>. QED BY <1>1, FetchAssumption DEF Paid, TokenValid, SessionInv

(* Every step leaves the other requests where they are.                    *)
OthersStay(f) ==
  \A g \in Fetches \ {f} :
    fetch'[g] = fetch[g] /\ proxy'[g] = proxy[g] /\ executed'[g] = executed[g]

LEMMA OneMoves ==
  ASSUME TypeOK, GateInv, [Next]_vars, NEW f \in Fetches, OthersStay(f),
         UNCHANGED allowFallback, FetchInv(f)', HostInv(f)'
  PROVE  GateInv'
<1>1. SessionInv'
  BY SessionInvNext DEF GateInv
<1>2. ASSUME NEW g \in Fetches \ {f} PROVE FetchInv(g)' /\ HostInv(g)'
  <2>1. fetch'[g] = fetch[g] /\ proxy'[g] = proxy[g] /\ executed'[g] = executed[g]
    BY DEF OthersStay
  <2>2. FetchInv(g)'
    BY <2>1, FetchUnmoved DEF GateInv, Reached
  <2>3. HostInv(g)'
    BY <2>1 DEF GateInv, HostInv
  <2>. QED BY <2>2, <2>3
<1>. QED BY <1>1, <1>2 DEF GateInv

LEMMA NoneMoves ==
  ASSUME TypeOK, GateInv, [Next]_vars, UNCHANGED <<allowFallback, fetch, proxy, executed>>
  PROVE  GateInv'
<1>1. SessionInv'
  BY SessionInvNext DEF GateInv
<1>2. ASSUME NEW g \in Fetches PROVE FetchInv(g)' /\ HostInv(g)'
  <2>1. FetchInv(g)'
    BY FetchUnmoved DEF GateInv, Reached
  <2>2. HostInv(g)'
    BY DEF GateInv, HostInv
  <2>. QED BY <2>1, <2>2
<1>. QED BY <1>1, <1>2 DEF GateInv

(* A handler that goes to pc, and changes nothing else of its request.     *)
LEMMA HandlerGoes ==
  ASSUME TypeOK, GateInv, [Next]_vars, NEW f \in Fetches, NEW pc, Goto(f, pc),
         fetch[f].pc \notin Finished \cup {"none"}, pc \notin {"none", "lookup", "unauthorized"},
         pc \in Vetted => fetch[f].at < boughtUntil[fetch[f].session],
         fetch[f].pc \in {"regional", "local"} => pc \in {"regional", "local", "ok", "error"},
         fetch[f].pc # "local" /\ pc = "local" => allowFallback \/ proxy[f] = "idle",
         UNCHANGED <<allowFallback, proxy, executed>>
  PROVE  GateInv'
<1>1. /\ fetch'[f].pc = pc /\ fetch'[f].session = fetch[f].session /\ fetch'[f].at = fetch[f].at
      /\ OthersStay(f)
  BY DEF Goto, OthersStay, TypeOK, Records
<1>2. FetchInv(f) /\ HostInv(f)
  BY DEF GateInv
<1>3. FetchInv(f)'
  <2>1. Reached(f)' => Reached(f) \/ fetch[f].at < boughtUntil[fetch[f].session]
    BY <1>1 DEF Reached
  <2>. QED BY <1>1, <1>2, <2>1, FetchMoved
<1>4. HostInv(f)'
  BY <1>1, <1>2 DEF HostInv, Finished
<1>. QED BY <1>1, <1>3, <1>4, OneMoves

LEMMA GateInvNext == TypeOK /\ GateInv /\ [Next]_vars => GateInv'
<1>. SUFFICES ASSUME TypeOK, GateInv, [Next]_vars PROVE GateInv'
  OBVIOUS
<1>. USE DEF openVars, sessionVars, regionVars, countVars
<1>1. CASE TimePasses \/ ConfigureProxy \/ SeedRegion \/ UNCHANGED vars
  BY <1>1, NoneMoves DEF TimePasses, ConfigureProxy, SeedRegion, vars
<1>2. ASSUME NEW s \in Sessions, \/ OpenSession(s) \/ TopUpSession(s) \/ RenewToken(s)
                                \/ BillSession(s)
                                \/ \E b \in Limiter!Windows : CounterExpires(s, b)
      PROVE  GateInv'
  BY <1>2, NoneMoves DEF OpenSession, TopUpSession, RenewToken, BillSession, CounterExpires
<1>3. ASSUME NEW s \in Sessions, NEW f \in Fetches, FetchArrives(f, s) PROVE GateInv'
  <2>1. /\ fetch[f].pc = "none" /\ phase[s] # "none" /\ OthersStay(f)
        /\ fetch'[f].session = s /\ fetch'[f].at = clock
        /\ fetch'[f].pc = IF TokenValid(s, clock) THEN "lookup" ELSE "unauthorized"
        /\ UNCHANGED <<sessionVars, regionVars, proxy, executed, countVars>>
    BY <1>3 DEF FetchArrives, TypeOK, Records, OthersStay
  <2>2. FetchInv(f) /\ HostInv(f) /\ SessionInv
    BY DEF GateInv
  <2>3. ~ Reached(f)
    BY <2>1, <2>2 DEF FetchInv
  <2>4. ~ Reached(f)'
    BY <2>1, <2>3 DEF Reached, Vetted
  <2>5. clock \in 0 .. clock
    BY DEF TypeOK
  <2>6. FetchInv(f)'
    BY <2>1, <2>2, <2>4, <2>5, PaidMeans DEF FetchInv
  <2>7. HostInv(f)'
    BY <2>1, <2>2, <2>3 DEF HostInv, Reached
  <2>. QED BY <2>1, <2>6, <2>7, OneMoves
<1>4. ASSUME NEW f \in Fetches, FetchLookup(f) PROVE GateInv'
  <2>. DEFINE s == fetch[f].session
  <2>1. PICK pc \in {"count", "unpaid", "mismatch"} :
          Goto(f, pc) /\ (pc = "count" => Paid(s, fetch[f].at))
    BY <1>4 DEF FetchLookup
  <2>4. /\ fetch[f].pc = "lookup"
        /\ UNCHANGED <<sessionVars, regionVars, proxy, executed, countVars>>
    BY <1>4 DEF FetchLookup
  <2>2. s \in Sessions /\ phase[s] # "none" /\ fetch[f].at \in 0 .. clock
    BY <2>4 DEF GateInv, FetchInv, TypeOK, Records
  <2>3. Paid(s, fetch[f].at) => fetch[f].at < boughtUntil[s]
    BY <2>2, PaidMeans DEF GateInv
  <2>. QED BY <2>1, <2>3, <2>4, HandlerGoes DEF Vetted, Finished
<1>5. ASSUME NEW f \in Fetches, fetch[f].pc \in Vetted
      PROVE  fetch[f].at < boughtUntil[fetch[f].session] /\ HostInv(f)
  BY <1>5 DEF GateInv, FetchInv, Reached
<1>6. ASSUME NEW f \in Fetches, FetchCount(f) PROVE GateInv'
  <2>1. /\ fetch'[f].pc \in {"arm", "region", "limited"} /\ fetch[f].pc = "count"
        /\ fetch'[f].session = fetch[f].session /\ fetch'[f].at = fetch[f].at
        /\ OthersStay(f) /\ UNCHANGED <<sessionVars, regionVars, proxy, executed>>
    BY <1>6 DEF FetchCount, Counted, OthersStay, TypeOK, Records
  <2>2. FetchInv(f) /\ HostInv(f) /\ Reached(f)
    BY <2>1 DEF GateInv, Reached, Vetted
  <2>3. FetchInv(f)'
    BY <2>1, <2>2, FetchMoved
  <2>4. HostInv(f)'
    BY <2>1, <2>2 DEF HostInv
  <2>. QED BY <2>1, <2>3, <2>4, OneMoves
<1>7. ASSUME NEW f \in Fetches, FetchArm(f) PROVE GateInv'
  BY <1>5, <1>7, HandlerGoes DEF FetchArm, Counted, Vetted, Finished
<1>8. ASSUME NEW f \in Fetches, FetchRegion(f) PROVE GateInv'
  <2>1. /\ fetch'[f].pc = (IF proxyUrl THEN "regional" ELSE "local") /\ fetch[f].pc = "region"
        /\ proxy'[f] = (IF proxyUrl THEN "sent" ELSE "idle")
        /\ fetch'[f].session = fetch[f].session /\ fetch'[f].at = fetch[f].at
        /\ OthersStay(f) /\ UNCHANGED <<sessionVars, regionVars, executed, countVars>>
    BY <1>8 DEF FetchRegion, Goto, OthersStay, TypeOK, Records
  <2>2. FetchInv(f) /\ HostInv(f) /\ Reached(f)
    BY <2>1 DEF GateInv, Reached, Vetted
  <2>3. FetchInv(f)'
    BY <2>1, <2>2, FetchMoved
  <2>4. proxy[f] = "idle"
    BY <2>1, <2>2 DEF HostInv
  <2>5. HostInv(f)'
    BY <2>1, <2>2, <2>4 DEF HostInv
  <2>. QED BY <2>1, <2>3, <2>5, OneMoves
<1>9. ASSUME NEW f \in Fetches, ForwardFails(f) PROVE GateInv'
  BY <1>5, <1>9, HandlerGoes DEF ForwardFails, FallBack, Vetted, Finished
<1>10. ASSUME NEW f \in Fetches, \/ FetchNoRegion(f) \/ ForwardAnswered(f) \/ LocalFails(f)
                                 \/ HandlerDies(f)
       PROVE  GateInv'
  <2>1. PICK pc \in {"ok", "error"} : Goto(f, pc)
    BY <1>10 DEF FetchNoRegion, ForwardAnswered, LocalFails, HandlerDies
  <2>2. /\ fetch[f].pc \notin Finished \cup {"none"}
        /\ UNCHANGED <<sessionVars, regionVars, proxy, executed, countVars>>
    BY <1>10 DEF FetchNoRegion, ForwardAnswered, LocalFails, HandlerDies, Finished
  <2>. QED BY <2>1, <2>2, HandlerGoes DEF Vetted
<1>11. ASSUME NEW f \in Fetches, LocalFetch(f) PROVE GateInv'
  <2>1. PICK pc \in {"ok", "error"} : Goto(f, pc)
    BY <1>11 DEF LocalFetch
  <2>2. /\ fetch[f].pc = "local"
        /\ executed' = [executed EXCEPT ![f]["api"] = executed[f].api + 1]
        /\ UNCHANGED <<sessionVars, regionVars, proxy, countVars>>
    BY <1>11 DEF LocalFetch, Execute, TypeOK
  <2>3. /\ fetch'[f].pc = pc /\ fetch'[f].session = fetch[f].session /\ fetch'[f].at = fetch[f].at
        /\ executed'[f].api = executed[f].api + 1 /\ executed'[f].region = executed[f].region
        /\ OthersStay(f)
    BY <2>1, <2>2 DEF Goto, OthersStay, TypeOK, Records
  <2>4. FetchInv(f) /\ HostInv(f) /\ Reached(f) /\ executed[f].api \in Nat
    BY <2>2 DEF GateInv, Reached, Vetted, TypeOK
  <2>5. FetchInv(f)'
    BY <2>2, <2>3, <2>4, FetchMoved
  <2>6. executed[f].api = 0
    BY <2>2, <2>4 DEF HostInv
  <2>7. HostInv(f)'
    BY <2>2, <2>3, <2>4, <2>6 DEF HostInv
  <2>. QED BY <2>2, <2>3, <2>5, <2>7, OneMoves
<1>12. ASSUME NEW f \in Fetches, ProxyExecutes(f) \/ ProxyRefuses(f) PROVE GateInv'
  <2>1. /\ proxy[f] = "sent" /\ proxy'[f] \in {"executed", "failed"}
        /\ executed'[f].region \in {executed[f].region, executed[f].region + 1}
        /\ executed'[f].api = executed[f].api /\ OthersStay(f)
        /\ UNCHANGED <<sessionVars, regionVars, fetch, countVars>>
    BY <1>12 DEF ProxyExecutes, ProxyRefuses, Execute, OthersStay, TypeOK
  <2>2. FetchInv(f) /\ HostInv(f) /\ Reached(f)
    BY <2>1 DEF GateInv, Reached
  <2>3. FetchInv(f)'
    BY <2>1, <2>2, FetchUnmoved
  <2>4. HostInv(f)'
    BY <2>1, <2>2 DEF HostInv
  <2>. QED BY <2>1, <2>3, <2>4, OneMoves
<1>. QED
  BY <1>1, <1>2, <1>3, <1>4, <1>6, <1>7, <1>8, <1>9, <1>10, <1>11, <1>12 DEF Next, FetchStep

LEMMA GateInvariant == Spec => [](TypeOK /\ GateInv)
<1>1. TypeOK /\ GateInv /\ [Next]_vars => (TypeOK /\ GateInv)'
  BY TypeNext, GateInvNext
<1>. QED BY TypeInit, GateInvInit, <1>1, PTL DEF Spec

(* A handler only comes to the refusal from a look-up that found no credit,*)
(* or no session.                                                          *)
LEMMA RefusedByLookup ==
  ASSUME TypeOK, [Next]_vars, NEW f \in Fetches,
         fetch[f].pc = "lookup", fetch'[f].pc \in {"unpaid", "mismatch"}
  PROVE  ~Paid(fetch[f].session, fetch[f].at)
<1>1. ASSUME NEW g \in Fetches, NEW pc, Goto(g, pc) PROVE g = f /\ pc \in {"unpaid", "mismatch"}
  BY <1>1 DEF Goto, TypeOK, Records
<1>2. ASSUME NEW s \in Sessions, NEW g \in Fetches, FetchArrives(g, s) PROVE FALSE
  BY <1>2 DEF FetchArrives, TypeOK, Records
<1>3. ASSUME NEW g \in Fetches, FetchCount(g) PROVE FALSE
  BY <1>3 DEF FetchCount, Counted, TypeOK, Records
<1>4. ASSUME NEW g \in Fetches, FetchArm(g) \/ FetchRegion(g) \/ FetchNoRegion(g)
                                \/ ForwardFails(g) \/ ForwardAnswered(g) \/ LocalFetch(g)
                                \/ LocalFails(g) \/ HandlerDies(g)
      PROVE  FALSE
  BY <1>1, <1>4 DEF FetchArm, FetchRegion, FetchNoRegion, ForwardFails, ForwardAnswered, LocalFetch,
                    LocalFails, HandlerDies, FallBack, Counted
<1>5. ASSUME UNCHANGED fetch PROVE FALSE
  BY <1>5
<1>6. ASSUME NEW g \in Fetches, FetchLookup(g) PROVE ~Paid(fetch[f].session, fetch[f].at)
  BY <1>1, <1>6 DEF FetchLookup, Paid
<1>7. CASE UNCHANGED vars
  BY <1>5, <1>7 DEF vars
<1>8. CASE TimePasses \/ ConfigureProxy \/ SeedRegion
  BY <1>5, <1>8 DEF TimePasses, ConfigureProxy, SeedRegion
<1>9. ASSUME NEW s \in Sessions, \/ OpenSession(s) \/ TopUpSession(s) \/ RenewToken(s) \/ BillSession(s)
                                \/ \E b \in Limiter!Windows : CounterExpires(s, b)
      PROVE  FALSE
  BY <1>5, <1>9 DEF OpenSession, TopUpSession, RenewToken, BillSession, CounterExpires
<1>10. ASSUME NEW g \in Fetches, ProxyExecutes(g) \/ ProxyRefuses(g) PROVE FALSE
  BY <1>5, <1>10 DEF ProxyExecutes, ProxyRefuses
<1>. QED BY <1>2, <1>3, <1>4, <1>6, <1>7, <1>8, <1>9, <1>10 DEF Next, FetchStep

(* 402, 403, and 401 for a session that is gone, only after the sure time  *)
(* of the session, topups included, whatever clock the handler went by     *)
(* (server.js:122-142, 351-360).                                           *)
THEOREM NoRefusalOfPaid == Spec => RefusedOnlyUnpaid
<1>1. ASSUME TypeOK, GateInv, [Next]_vars, NEW f \in Fetches,
             fetch[f].pc = "lookup", fetch'[f].pc \in {"unpaid", "mismatch"}
      PROVE  sureUntil[fetch[f].session] <= clock
  <2>1. /\ fetch[f].session \in Sessions /\ phase[fetch[f].session] # "none"
        /\ fetch[f].at \in 0 .. clock
    BY <1>1 DEF GateInv, FetchInv, TypeOK, Records
  <2>2. ~Paid(fetch[f].session, fetch[f].at)
    BY <1>1, RefusedByLookup
  <2>. QED BY <1>1, <2>1, <2>2, PaidMeans DEF GateInv
<1>2. TypeOK /\ GateInv /\ [Next]_vars =>
        [\A f \in Fetches :
           fetch[f].pc = "lookup" /\ fetch'[f].pc \in {"unpaid", "mismatch"} =>
             sureUntil[fetch[f].session] <= clock]_vars
  BY <1>1
<1>. QED BY <1>2, GateInvariant, PTL DEF Spec, RefusedOnlyUnpaid

(* No target is reached for a request that came after the bought time.     *)
THEOREM NoServiceUnpaid == Spec => []ServedOnlyPaid
<1>1. ASSUME TypeOK, GateInv, NEW f \in Fetches, executed[f].region + executed[f].api > 0
      PROVE  fetch[f].at < boughtUntil[fetch[f].session]
  <2>1. executed[f].region > 0 \/ executed[f].api > 0
    BY <1>1 DEF TypeOK
  <2>2. Reached(f)
    BY <1>1, <2>1 DEF GateInv, HostInv, Reached
  <2>. QED BY <2>2, <1>1 DEF GateInv, FetchInv
<1>2. TypeOK /\ GateInv => ServedOnlyPaid
  BY <1>1 DEF ServedOnlyPaid
<1>. QED BY <1>2, GateInvariant, PTL

(* No 401 for the age of the token before TokenTtl seconds have passed     *)
(* since the opening, whatever topups and renewals did, and however long   *)
(* the purchase was (token.js:57, server.js:75-87).                        *)
THEOREM TokenOutlivesOpening == Spec => []TokenLastsFromOpening
<1>1. TypeOK /\ GateInv => TokenLastsFromOpening
  BY DEF GateInv, FetchInv, TokenLastsFromOpening
<1>. QED BY <1>1, GateInvariant, PTL

(* A request goes out twice only from the region and the API host together,*)
(* where the fallback is allowed (fetchProxy.js:184-258).                  *)
THEOREM AtMostOncePerHost == Spec => []RepeatedOnlyByFallback
<1>1. ASSUME TypeOK, GateInv, NEW f \in Fetches, executed[f].region + executed[f].api = 2
      PROVE  allowFallback
  <2>1. HostInv(f) /\ executed[f].region \in Nat /\ executed[f].api \in Nat
    BY <1>1 DEF GateInv, TypeOK
  <2>2. executed[f].region = 1 /\ executed[f].api = 1
    BY <1>1, <2>1 DEF HostInv
  <2>. QED BY <1>1, <2>1, <2>2 DEF HostInv, TypeOK
<1>2. TypeOK /\ GateInv => RepeatedOnlyByFallback
  BY <1>1 DEF GateInv, HostInv, RepeatedOnlyByFallback
<1>. QED BY <1>2, GateInvariant, PTL

-------------------------------------------------------------------------------
(* The rate limit.  A counter never exceeds the requests that were counted *)
(* in its window, and while the window lasts it is no less than those that *)
(* passed: its key cannot expire before the window is over.                *)

Came(s, b) == {f \in Fetches : fetch[f].session = s /\ fetch[f].at \div Window = b
                                /\ fetch[f].n > 0}

CountInv ==
  /\ \A s \in Sessions, b \in Limiter!Windows :
       /\ counter[s][b] <= Cardinality(Came(s, b))
       /\ \A f \in Came(s, b) : fetch[f].n <= Cardinality(Came(s, b))
  /\ \A f \in Fetches :
       /\ fetch[f].pc \in {"none", "lookup", "count"} => fetch[f].n = 0
       /\ fetch[f].pc = "limited" => fetch[f].n > Limit

LimitInv ==
  \A s \in Sessions, b \in Limiter!Windows :
    /\ counterEnd[s][b] # 0 => (b + 1) * Window <= counterEnd[s][b]
    /\ clock < (b + 1) * Window =>
         /\ Cardinality(Passed(s, b)) <= counter[s][b]
         /\ Cardinality(Passed(s, b)) <= Limit

LEMMA CameFinite ==
  ASSUME NEW s, NEW b
  PROVE  /\ Came(s, b) \in SUBSET Fetches /\ Cardinality(Came(s, b)) \in Nat
         /\ Passed(s, b) \in SUBSET Fetches /\ Cardinality(Passed(s, b)) \in Nat
<1>1. Came(s, b) \in SUBSET Fetches /\ Passed(s, b) \in SUBSET Fetches
  BY DEF Came, Passed
<1>. QED BY <1>1, FetchAssumption, CardinalityIsNat

LEMMA RateInit == Init => CountInv /\ LimitInv
<1>. SUFFICES ASSUME Init PROVE CountInv /\ LimitInv
  OBVIOUS
<1>1. \A f \in Fetches : fetch[f].n = 0 /\ fetch[f].pc = "none"
  BY DEF Init, NoFetch
<1>2. \A s, b : Passed(s, b) = {} /\ Came(s, b) = {}
  BY <1>1, FetchAssumption DEF Passed, Came
<1>3. Cardinality({}) = 0
  BY FS_EmptySet
<1>4. /\ counter = [s \in Sessions |-> [b \in Limiter!Windows |-> 0]]
      /\ counterEnd = [s \in Sessions |-> [b \in Limiter!Windows |-> 0]]
  BY DEF Init, Limiter!Init, Limiter!Windows
<1>5. CountInv
  BY <1>1, <1>2, <1>3, <1>4 DEF CountInv
<1>6. LimitInv
  BY <1>2, <1>3, <1>4, FetchAssumption DEF LimitInv
<1>. QED BY <1>5, <1>6

(* A step in which no request is counted.                                  *)
NoneCounted ==
  \A f \in Fetches :
    /\ fetch'[f].n = fetch[f].n
    /\ fetch[f].n > 0 => fetch'[f].session = fetch[f].session /\ fetch'[f].at = fetch[f].at

LEMMA SetsKept ==
  ASSUME TypeOK, NoneCounted, NEW s, NEW b
  PROVE  Came(s, b)' = Came(s, b) /\ Passed(s, b)' = Passed(s, b)
<1>1. \A f \in Fetches : fetch[f].n \in Nat
  BY DEF TypeOK, Records
<1>2. \A f \in Fetches : fetch[f].n \in 1 .. Limit => fetch[f].n > 0
  BY FetchAssumption
<1>3. Came(s, b)' = Came(s, b)
  BY <1>1 DEF Came, NoneCounted
<1>4. Passed(s, b)' = Passed(s, b)
  BY <1>1, <1>2 DEF Passed, NoneCounted
<1>. QED BY <1>3, <1>4

(* A handler that goes on without counting, past the counter only after it *)
(* has counted, and to the refusal only over the limit.                    *)
LEMMA CountInvKept ==
  ASSUME TypeOK, CountInv, NoneCounted,
         \A s \in Sessions, b \in Limiter!Windows : counter'[s][b] \in {0, counter[s][b]},
         \A f \in Fetches :
           /\ fetch'[f].pc \in {"none", "lookup", "count"} => fetch[f].pc \in {"none", "lookup", "count"}
           /\ fetch'[f].pc = "limited" => fetch[f].pc = "limited" \/ fetch[f].n > Limit
  PROVE  CountInv'
<1>1. ASSUME NEW s \in Sessions, NEW b \in Limiter!Windows
      PROVE  /\ counter'[s][b] <= Cardinality(Came(s, b)')
             /\ \A f \in Came(s, b)' : fetch'[f].n <= Cardinality(Came(s, b)')
  <2>1. Came(s, b)' = Came(s, b) /\ Cardinality(Came(s, b)) \in Nat
    BY SetsKept, CameFinite
  <2>2. \A f \in Came(s, b) : fetch'[f].n = fetch[f].n
    BY DEF Came, NoneCounted
  <2>. QED BY <2>1, <2>2 DEF CountInv
<1>2. ASSUME NEW f \in Fetches
      PROVE  /\ fetch'[f].pc \in {"none", "lookup", "count"} => fetch'[f].n = 0
             /\ fetch'[f].pc = "limited" => fetch'[f].n > Limit
  BY FetchAssumption DEF CountInv, NoneCounted
<1>. QED BY <1>1, <1>2 DEF CountInv

LEMMA LimitInvKept ==
  ASSUME TypeOK, LimitInv, NoneCounted, clock <= clock', clock' \in Nat,
         \A s \in Sessions, b \in Limiter!Windows :
           /\ counterEnd'[s][b] \in {0, counterEnd[s][b]} \/ (b + 1) * Window <= counterEnd'[s][b]
           /\ counter'[s][b] = counter[s][b] \/ (b + 1) * Window <= clock'
  PROVE  LimitInv'
<1>. SUFFICES ASSUME NEW s \in Sessions, NEW b \in Limiter!Windows
              PROVE  /\ counterEnd'[s][b] # 0 => (b + 1) * Window <= counterEnd'[s][b]
                     /\ clock' < (b + 1) * Window =>
                          /\ Cardinality(Passed(s, b)') <= counter'[s][b]
                          /\ Cardinality(Passed(s, b)') <= Limit
  BY DEF LimitInv
<1>1. Passed(s, b)' = Passed(s, b)
  BY SetsKept
<1>2. (b + 1) * Window \in Nat /\ clock \in Nat
  BY FetchAssumption, ProductIsNat, QuotientInRange DEF Limiter!Windows, TypeOK
<1>. DEFINE end == (b + 1) * Window
<1>3. /\ counterEnd'[s][b] \in {0, counterEnd[s][b]} \/ end <= counterEnd'[s][b]
      /\ counter'[s][b] = counter[s][b] \/ end <= clock'
      /\ counterEnd[s][b] # 0 => end <= counterEnd[s][b]
      /\ clock < end => Cardinality(Passed(s, b)) <= counter[s][b] /\ Cardinality(Passed(s, b)) <= Limit
  BY DEF LimitInv
<1>4. end \in Nat
  BY <1>2
<1>. HIDE DEF end
<1>5. /\ counterEnd'[s][b] # 0 => end <= counterEnd'[s][b]
      /\ clock' < end => /\ Cardinality(Passed(s, b)) <= counter'[s][b]
                         /\ Cardinality(Passed(s, b)) <= Limit
  BY <1>2, <1>3, <1>4
<1>. QED BY <1>1, <1>5 DEF end

RateInv == CountInv /\ LimitInv

(* A step of one handler that is not the count.                            *)
LEMMA HandlerUncounted ==
  ASSUME TypeOK, RateInv, NEW f \in Fetches, NEW pc, Goto(f, pc),
         pc \in {"none", "lookup", "count"} => fetch[f].pc \in {"none", "lookup", "count"},
         pc = "limited" => fetch[f].n > Limit, UNCHANGED <<clock, counter>>,
         \A s \in Sessions, b \in Limiter!Windows :
           counterEnd'[s][b] = counterEnd[s][b] \/ (b + 1) * Window <= counterEnd'[s][b]
  PROVE  RateInv'
<1>1. NoneCounted
  BY DEF Goto, NoneCounted, TypeOK, Records
<1>2. \A g \in Fetches : fetch'[g].pc = IF g = f THEN pc ELSE fetch[g].pc
  BY DEF Goto, TypeOK, Records
<1>3. CountInv'
  BY <1>1, <1>2, CountInvKept DEF RateInv
<1>4. LimitInv'
  BY <1>1, LimitInvKept DEF RateInv, TypeOK
<1>. QED BY <1>3, <1>4 DEF RateInv

LEMMA NothingCounted ==
  ASSUME TypeOK, RateInv, UNCHANGED <<fetch, counter, counterEnd>>, clock <= clock', clock' \in Nat
  PROVE  RateInv'
<1>1. NoneCounted
  BY DEF NoneCounted
<1>2. CountInv'
  BY <1>1, CountInvKept DEF RateInv
<1>3. LimitInv'
  BY <1>1, LimitInvKept DEF RateInv
<1>. QED BY <1>2, <1>3 DEF RateInv

LEMMA DropKeeps ==
  ASSUME TypeOK, RateInv, NEW s \in Sessions, NEW b \in Limiter!Windows, CounterExpires(s, b)
  PROVE  RateInv'
<1>1. /\ counterEnd[s][b] # 0 /\ counterEnd[s][b] <= clock
      /\ counter' = [counter EXCEPT ![s][b] = 0] /\ counterEnd' = [counterEnd EXCEPT ![s][b] = 0]
      /\ UNCHANGED <<fetch, clock>>
  BY DEF CounterExpires, Limiter!Drop, sessionVars
<1>2. NoneCounted
  BY <1>1 DEF NoneCounted
<1>3. ASSUME NEW q \in Sessions, NEW c \in Limiter!Windows
      PROVE  /\ counter'[q][c] = IF q = s /\ c = b THEN 0 ELSE counter[q][c]
             /\ counterEnd'[q][c] = IF q = s /\ c = b THEN 0 ELSE counterEnd[q][c]
  BY <1>1 DEF TypeOK, Limiter!TypeOK
<1>4. (b + 1) * Window <= clock
  <2>1. (b + 1) * Window \in Nat
    BY FetchAssumption, ProductIsNat, QuotientInRange DEF Limiter!Windows
  <2>2. (b + 1) * Window <= counterEnd[s][b]
    BY <1>1 DEF RateInv, LimitInv
  <2>3. counterEnd[s][b] \in Nat /\ clock \in Nat
    BY DEF TypeOK, Limiter!TypeOK
  <2>. DEFINE end == (b + 1) * Window
  <2>. HIDE DEF end
  <2>4. end <= clock
    BY <1>1, <2>1, <2>2, <2>3 DEF end
  <2>. QED BY <2>4 DEF end
<1>5. CountInv'
  BY <1>1, <1>2, <1>3, CountInvKept DEF RateInv
<1>6. LimitInv'
  BY <1>1, <1>2, <1>3, <1>4, LimitInvKept DEF RateInv, TypeOK
<1>. QED BY <1>5, <1>6 DEF RateInv

(* The count itself: one more request came, and one more passed unless the *)
(* counter is over the limit.                                              *)
LEMMA CountKeeps ==
  ASSUME TypeOK, RateInv, NEW f \in Fetches, FetchCount(f)
  PROVE  RateInv'
<1>. DEFINE s == fetch[f].session
            b == fetch[f].at \div Window
            n == counter[s][b] + 1
<1>1. s \in Sessions /\ b \in Limiter!Windows /\ counter[s][b] \in Nat
  <2>1. s \in Sessions /\ fetch[f].at \in 0 .. MaxTime
    BY DEF FetchCount, TypeOK, Records
  <2>2. b \in Limiter!Windows
    BY <2>1, CountType DEF Limiter!Bucket
  <2>. QED BY <2>1, <2>2 DEF TypeOK, Limiter!TypeOK
<1>2. /\ fetch[f].pc = "count" /\ fetch[f].n = 0
      /\ fetch' = [fetch EXCEPT ![f].n = n, ![f].pc = IF n = 1 THEN "arm" ELSE Counted(n)]
      /\ counter' = [counter EXCEPT ![s][b] = n]
      /\ UNCHANGED <<clock, counterEnd>>
  BY DEF FetchCount, Limiter!CountNext, Limiter!Incr, Limiter!Bucket, sessionVars, RateInv, CountInv,
         TypeOK, Limiter!TypeOK
<1>3. n \in Nat /\ n > 0
  BY <1>1
<1>4. ASSUME NEW q \in Sessions, NEW c \in Limiter!Windows
      PROVE  counter'[q][c] = IF q = s /\ c = b THEN n ELSE counter[q][c]
  BY <1>1, <1>2 DEF TypeOK, Limiter!TypeOK
<1>5. /\ fetch'[f].n = n /\ fetch'[f].session = s /\ fetch'[f].at = fetch[f].at
      /\ fetch'[f].pc = IF n = 1 THEN "arm" ELSE Counted(n)
      /\ \A g \in Fetches \ {f} : fetch'[g] = fetch[g]
  BY <1>2 DEF TypeOK, Records
<1>. HIDE DEF n
<1>6. ASSUME NEW q, NEW c
      PROVE  /\ Came(q, c)' = IF q = s /\ c = b THEN Came(q, c) \cup {f} ELSE Came(q, c)
             /\ Passed(q, c)' = IF q = s /\ c = b /\ n <= Limit
                                  THEN Passed(q, c) \cup {f} ELSE Passed(q, c)
             /\ f \notin Came(q, c) /\ f \notin Passed(q, c)
  <2>1. f \notin Came(q, c) /\ f \notin Passed(q, c)
    BY <1>2, FetchAssumption DEF Came, Passed
  <2>2. ASSUME NEW g \in Fetches
        PROVE  /\ g \in Came(q, c)' <=> IF g = f THEN q = s /\ c = b ELSE g \in Came(q, c)
               /\ g \in Passed(q, c)' <=>
                    IF g = f THEN q = s /\ c = b /\ n <= Limit ELSE g \in Passed(q, c)
    BY <1>3, <1>5, FetchAssumption DEF Came, Passed
  <2>3. /\ Came(q, c)' \subseteq Fetches /\ Came(q, c) \subseteq Fetches
        /\ Passed(q, c)' \subseteq Fetches /\ Passed(q, c) \subseteq Fetches
    BY DEF Came, Passed
  <2>. QED BY <2>1, <2>2, <2>3
<1>7. ASSUME NEW q, NEW c
      PROVE  /\ Cardinality(Came(q, c)) \in Nat /\ Cardinality(Passed(q, c)) \in Nat
             /\ Cardinality(Came(q, c) \cup {f}) = Cardinality(Came(q, c)) + 1
             /\ Cardinality(Passed(q, c) \cup {f}) = Cardinality(Passed(q, c)) + 1
  BY <1>6, CameFinite, OneMore, FetchAssumption
<1>8. CountInv'
  <2>1. ASSUME NEW q \in Sessions, NEW c \in Limiter!Windows
        PROVE  /\ counter'[q][c] <= Cardinality(Came(q, c)')
               /\ \A g \in Came(q, c)' : fetch'[g].n <= Cardinality(Came(q, c)')
    <3>1. CASE q = s /\ c = b
      <4>1. Cardinality(Came(q, c)') = Cardinality(Came(q, c)) + 1
        BY <1>6, <1>7, <3>1
      <4>2. counter[q][c] <= Cardinality(Came(q, c)) /\ n = counter[q][c] + 1
        BY <3>1 DEF RateInv, CountInv, n
      <4>3. counter'[q][c] = n /\ n <= Cardinality(Came(q, c)')
        <5>1. counter[q][c] \in Nat /\ Cardinality(Came(q, c)) \in Nat /\ counter'[q][c] = n
          BY <1>4, <1>7, <3>1 DEF TypeOK, Limiter!TypeOK
        <5>. QED BY <4>1, <4>2, <5>1
      <4>4. ASSUME NEW g \in Came(q, c)' PROVE fetch'[g].n <= Cardinality(Came(q, c)')
        <5>1. CASE g = f
          BY <1>5, <4>3, <5>1
        <5>2. CASE g # f
          <6>1. g \in Came(q, c) /\ g \in Fetches /\ fetch'[g].n = fetch[g].n
            BY <1>5, <1>6, <3>1, <5>2 DEF Came
          <6>2. fetch[g].n <= Cardinality(Came(q, c)) /\ fetch[g].n \in Nat
            BY <6>1 DEF RateInv, CountInv, TypeOK, Records
          <6>3. Cardinality(Came(q, c)) \in Nat
            BY <1>7
          <6>. QED BY <4>1, <6>1, <6>2, <6>3
        <5>. QED BY <5>1, <5>2
      <4>. QED BY <4>3, <4>4
    <3>2. CASE ~(q = s /\ c = b)
      <4>1. Came(q, c)' = Came(q, c) /\ counter'[q][c] = counter[q][c] /\ f \notin Came(q, c)
        BY <1>4, <1>6, <3>2
      <4>2. \A g \in Came(q, c) : fetch'[g] = fetch[g]
        BY <1>5, <4>1 DEF Came
      <4>. QED BY <4>1, <4>2 DEF RateInv, CountInv
    <3>. QED BY <3>1, <3>2
  <2>2. ASSUME NEW g \in Fetches
        PROVE  /\ fetch'[g].pc \in {"none", "lookup", "count"} => fetch'[g].n = 0
               /\ fetch'[g].pc = "limited" => fetch'[g].n > Limit
    <3>1. CASE g = f
      BY <1>3, <1>5, <3>1, FetchAssumption DEF Counted
    <3>2. CASE g # f
      BY <1>5, <3>2 DEF RateInv, CountInv
    <3>. QED BY <3>1, <3>2
  <2>. QED BY <2>1, <2>2 DEF CountInv
<1>9. LimitInv'
  <2>. SUFFICES ASSUME NEW q \in Sessions, NEW c \in Limiter!Windows, clock < (c + 1) * Window
                PROVE  /\ Cardinality(Passed(q, c)') <= counter'[q][c]
                       /\ Cardinality(Passed(q, c)') <= Limit
    BY <1>2 DEF RateInv, LimitInv
  <2>1. Cardinality(Passed(q, c)) <= counter[q][c] /\ Cardinality(Passed(q, c)) <= Limit
    BY DEF RateInv, LimitInv
  <2>2. counter[q][c] \in Nat
    BY DEF TypeOK, Limiter!TypeOK
  <2>3. CASE q = s /\ c = b
    <3>1. n = counter[q][c] + 1 /\ counter'[q][c] = n
      BY <1>4, <2>3 DEF n
    <3>2. Cardinality(Passed(q, c)) \in Nat /\ Limit \in Nat
      BY <1>7, FetchAssumption
    <3>3. CASE n <= Limit
      <4>1. Cardinality(Passed(q, c)') = Cardinality(Passed(q, c)) + 1
        BY <1>6, <1>7, <2>3, <3>3
      <4>. QED BY <2>1, <2>2, <3>1, <3>2, <3>3, <4>1
    <3>4. CASE ~(n <= Limit)
      <4>1. Passed(q, c)' = Passed(q, c)
        BY <1>6, <3>4
      <4>. QED BY <2>1, <2>2, <3>1, <3>2, <4>1
    <3>. QED BY <3>3, <3>4
  <2>4. CASE ~(q = s /\ c = b)
    BY <1>4, <1>6, <2>1, <2>4
  <2>. QED BY <2>3, <2>4
<1>. QED BY <1>8, <1>9 DEF RateInv

(* EXPIRE, by a handler that read the clock in the window.                 *)
LEMMA ArmKeeps ==
  ASSUME TypeOK, GateInv, RateInv, NEW f \in Fetches, FetchArm(f)
  PROVE  RateInv'
<1>. DEFINE s == fetch[f].session
            b == fetch[f].at \div Window
            e == clock + Window
<1>1. /\ fetch[f].pc = "arm" /\ Goto(f, Counted(fetch[f].n))
      /\ counterEnd' = [counterEnd EXCEPT ![s][b] = e]
      /\ UNCHANGED <<clock, counter>>
  BY DEF FetchArm, Limiter!Expire, Limiter!Bucket, sessionVars
<1>2. fetch[f].at \in Nat /\ fetch[f].at <= clock /\ clock \in Nat
  BY <1>1 DEF GateInv, FetchInv, TypeOK, Records
<1>3. (b + 1) * Window <= e
  BY <1>2, WindowEndBound, FetchAssumption
<1>. HIDE DEF e
<1>4. ASSUME NEW q \in Sessions, NEW c \in Limiter!Windows
      PROVE  counterEnd'[q][c] = IF q = s /\ c = b THEN e ELSE counterEnd[q][c]
  BY <1>1 DEF TypeOK, Limiter!TypeOK
<1>5. \A q \in Sessions, c \in Limiter!Windows :
        counterEnd'[q][c] = counterEnd[q][c] \/ (c + 1) * Window <= counterEnd'[q][c]
  BY <1>3, <1>4
<1>6. fetch[f].n \in Nat
  BY DEF TypeOK, Records
<1>7. /\ Counted(fetch[f].n) \notin {"none", "lookup", "count"}
      /\ Counted(fetch[f].n) = "limited" => fetch[f].n > Limit
  BY <1>6, FetchAssumption DEF Counted
<1>. QED BY <1>1, <1>5, <1>7, HandlerUncounted

LEMMA ArriveKeeps ==
  ASSUME TypeOK, RateInv, NEW f \in Fetches, NEW s \in Sessions, FetchArrives(f, s)
  PROVE  RateInv'
<1>1. /\ fetch[f].pc = "none" /\ fetch'[f].n = fetch[f].n
      /\ fetch'[f].pc \in {"lookup", "unauthorized"}
      /\ \A g \in Fetches \ {f} : fetch'[g] = fetch[g]
      /\ UNCHANGED <<clock, counter, counterEnd>>
  BY DEF FetchArrives, TypeOK, Records, sessionVars, countVars
<1>2. fetch[f].n = 0
  BY <1>1 DEF RateInv, CountInv
<1>3. NoneCounted
  BY <1>1, <1>2 DEF NoneCounted
<1>4. CountInv'
  BY <1>1, <1>3, CountInvKept DEF RateInv
<1>5. LimitInv'
  BY <1>1, <1>3, LimitInvKept DEF RateInv, TypeOK
<1>. QED BY <1>4, <1>5 DEF RateInv

LEMMA RateNext == TypeOK /\ GateInv /\ RateInv /\ [Next]_vars => RateInv'
<1>. SUFFICES ASSUME TypeOK, GateInv, RateInv, [Next]_vars PROVE RateInv'
  OBVIOUS
<1>. USE DEF openVars, sessionVars, regionVars, countVars
<1>1. clock \in Nat /\ clock' \in Nat
  BY TypeNext DEF TypeOK
<1>2. CASE TimePasses
  BY <1>1, <1>2, NothingCounted DEF TimePasses, Prepaid!Advance
<1>3. CASE ConfigureProxy \/ SeedRegion \/ UNCHANGED vars
  BY <1>1, <1>3, NothingCounted DEF ConfigureProxy, SeedRegion, vars
<1>4. ASSUME NEW s \in Sessions, \/ OpenSession(s) \/ TopUpSession(s) \/ RenewToken(s)
                                \/ BillSession(s)
      PROVE  RateInv'
  <2>1. UNCHANGED <<fetch, counter, counterEnd>>
    BY <1>4 DEF OpenSession, TopUpSession, RenewToken, BillSession
  <2>2. UNCHANGED clock
    BY <1>4 DEF OpenSession, TopUpSession, RenewToken, BillSession, Prepaid!Open, Prepaid!TopUp,
                Prepaid!TopUpLate, Prepaid!Settle, Prepaid!Close
  <2>. QED BY <1>1, <2>1, <2>2, NothingCounted
<1>5. ASSUME NEW f \in Fetches, \/ FetchLookup(f) \/ ForwardFails(f) \/ ForwardAnswered(f)
                                \/ LocalFetch(f) \/ LocalFails(f) \/ HandlerDies(f)
                                \/ FetchRegion(f) \/ FetchNoRegion(f)
      PROVE  RateInv'
  <2>1. PICK pc : /\ Goto(f, pc) /\ pc \notin {"none", "lookup", "limited"}
                  /\ pc = "count" => fetch[f].pc = "lookup"
    BY <1>5 DEF FetchLookup, ForwardFails, ForwardAnswered, LocalFetch, LocalFails, HandlerDies,
                FetchRegion, FetchNoRegion, FallBack
  <2>2. UNCHANGED <<clock, counter, counterEnd>>
    BY <1>5 DEF FetchLookup, ForwardFails, ForwardAnswered, LocalFetch, LocalFails, HandlerDies,
                FetchRegion, FetchNoRegion
  <2>. QED BY <2>1, <2>2, HandlerUncounted
<1>6. ASSUME NEW f \in Fetches, ProxyExecutes(f) \/ ProxyRefuses(f) PROVE RateInv'
  BY <1>1, <1>6, NothingCounted DEF ProxyExecutes, ProxyRefuses
<1>. QED BY <1>2, <1>3, <1>4, <1>5, <1>6, ArriveKeeps, CountKeeps, ArmKeeps, DropKeeps
     DEF Next, FetchStep

LEMMA RateInvariant == Spec => [](TypeOK /\ GateInv /\ RateInv)
<1>1. Init => TypeOK /\ GateInv /\ RateInv
  BY TypeInit, GateInvInit, RateInit DEF RateInv
<1>2. TypeOK /\ GateInv /\ RateInv /\ [Next]_vars => (TypeOK /\ GateInv /\ RateInv)'
  BY TypeNext, GateInvNext, RateNext
<1>. QED BY <1>1, <1>2, PTL DEF Spec

(* 429 means that Limit other requests of that session and minute were     *)
(* counted (server.js:362-372).                                            *)
THEOREM NoEarlyRefusal == Spec => []RefusedOnlyWhenFull
<1>1. ASSUME TypeOK, RateInv, NEW f \in Fetches, fetch[f].pc = "limited"
      PROVE  Cardinality(Came(fetch[f].session, fetch[f].at \div Window) \ {f}) >= Limit
  <2>. DEFINE came == Came(fetch[f].session, fetch[f].at \div Window)
  <2>1. fetch[f].session \in Sessions /\ fetch[f].at \in 0 .. MaxTime /\ fetch[f].n \in Nat
    BY <1>1 DEF TypeOK, Records
  <2>2. fetch[f].at \div Window \in Limiter!Windows
    BY <2>1, CountType, <1>1 DEF Limiter!Bucket
  <2>3. fetch[f].n > Limit
    BY <1>1 DEF RateInv, CountInv
  <2>4. f \in came
    BY <2>1, <2>3, FetchAssumption DEF Came
  <2>5. fetch[f].n <= Cardinality(came)
    BY <1>1, <2>1, <2>2, <2>4 DEF RateInv, CountInv
  <2>6. Cardinality(came) \in Nat /\ Cardinality(came \ {f}) = Cardinality(came) - 1
    BY <2>4, CameFinite, OneLess, FetchAssumption
  <2>. HIDE DEF came
  <2>7. Cardinality(came \ {f}) >= Limit
    BY <2>1, <2>3, <2>5, <2>6, FetchAssumption
  <2>. QED BY <2>7 DEF came
<1>2. ASSUME NEW f \in Fetches
      PROVE  {g \in Fetches \ {f} :
                /\ fetch[g].session = fetch[f].session /\ fetch[g].n > 0
                /\ fetch[g].at \div Window = fetch[f].at \div Window}
             = Came(fetch[f].session, fetch[f].at \div Window) \ {f}
  BY DEF Came
<1>3. TypeOK /\ GateInv /\ RateInv => RefusedOnlyWhenFull
  BY <1>1, <1>2 DEF RefusedOnlyWhenFull
<1>. QED BY <1>3, RateInvariant, PTL

(* No more than Limit requests pass while their minute lasts: the counter  *)
(* lives at least as long (server.js:366-369).                             *)
THEOREM LimitHolds == Spec => []LimitKept
<1>1. TypeOK /\ GateInv /\ RateInv => LimitKept
  BY DEF RateInv, LimitInv, LimitKept
<1>. QED BY <1>1, RateInvariant, PTL
===============================================================================
