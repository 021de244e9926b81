------------------------- MODULE SessionCreditProofs -------------------------
(***************************************************************************)
(* Theorems about SessionCredit, for any sets of sessions, requests and    *)
(* ticks, any purchases and any bound on time and on aborted ticks.        *)
(***************************************************************************)
EXTENDS SessionCredit, TLAPS

LEMMA ProductIsNat == ASSUME NEW m \in Nat, NEW n \in Nat PROVE m * n \in Nat
  OBVIOUS

LEMMA ProductIsPositive ==
  ASSUME NEW m \in Nat \ {0}, NEW n \in Nat \ {0} PROVE m * n \in Nat \ {0}
  OBVIOUS

LEMMA Max0Type ==
  ASSUME NEW n \in Int
  PROVE  /\ Max0(n) \in Nat
         /\ n <= Max0(n)
         /\ n >= 0 => Max0(n) = n
         /\ n <= 0 => Max0(n) = 0
  BY DEF Max0

LEMMA EvictedTickIsTick ==
  ASSUME NEW x \in TickRecords
  PROVE  [x EXCEPT !.pc = "publish", !.credit = 0] \in TickRecords
<1>1. [x EXCEPT !.pc = "publish"] \in TickRecords
  BY DEF TickRecords
<1>2. ASSUME NEW y \in TickRecords PROVE [y EXCEPT !.credit = 0] \in TickRecords
  BY DEF TickRecords
<1>3. [x EXCEPT !.pc = "publish", !.credit = 0] = [[x EXCEPT !.pc = "publish"] EXCEPT !.credit = 0]
  BY DEF TickRecords
<1>. QED BY <1>1, <1>2, <1>3

LEMMA TypeInit == Init => TypeOK
  BY CreditAssumption DEF Init, TypeOK, Statuses, CreateRecords, TopupRecords, TickRecords, IdleTick, NoTopup

LEMMA TypeNext == TypeOK /\ [Next]_vars => TypeOK'
<1> SUFFICES ASSUME TypeOK, [Next]_vars PROVE TypeOK'
  OBVIOUS
<1> USE CreditAssumption DEF TypeOK, Statuses, hashVars, deathVars, historyVars
<1>1. CASE TimePasses
  BY <1>1 DEF TimePasses
<1>2. ASSUME NEW s \in Sessions, ExpireKey(s) PROVE TypeOK'
  BY <1>2 DEF ExpireKey
<1>3. ASSUME NEW s \in Sessions, NEW m \in Minutes, CreateBegin(s, m) PROVE TypeOK'
  BY <1>3 DEF CreateBegin, CreateRecords
<1>4. ASSUME NEW s \in Sessions, CreateCommit(s) PROVE TypeOK'
  <2>1. create[s].at \in Nat /\ create[s].minutes * SecondsPerMinute \in Nat
    BY ProductIsNat DEF CreateRecords
  <2>2. [create[s] EXCEPT !.pc = "done"] \in CreateRecords
    BY DEF CreateRecords
  <2>. QED BY <1>4, <2>1, <2>2 DEF CreateCommit, List
<1>5. ASSUME NEW r \in Requests, NEW s \in Sessions, NEW m \in Minutes, TopupCheck(r, s, m)
      PROVE  TypeOK'
  <2>. DEFINE new == [topup[r] EXCEPT !.pc = "checked", !.session = s, !.minutes = m]
  <2>3. topup[r] \in TopupRecords /\ m \in Nat
    OBVIOUS
  <2>4. new \in TopupRecords
    BY ONLY <2>3, s \in Sessions DEF TopupRecords
  <2>1. topup' \in [Requests -> TopupRecords]
    BY <1>5, <2>4 DEF TopupCheck
  <2>2. \A q \in Requests : topup'[q].pc # "none" => topup'[q].session \in Sessions
    BY <1>5 DEF TopupCheck, TopupRecords
  <2>. QED BY <1>5, <2>1, <2>2 DEF TopupCheck
<1>6. ASSUME NEW r \in Requests, TopupCredit(r) PROVE TypeOK'
  <2>1. topup[r].minutes * SecondsPerMinute \in Nat
    BY ProductIsNat DEF TopupRecords
  <2>2. topup[r].session \in Sessions
    BY <1>6 DEF TopupCredit
  <2>. DEFINE credited == credit[topup[r].session] + topup[r].minutes * SecondsPerMinute
              new      == [topup[r] EXCEPT !.pc = "credited", !.newCredit = credited]
  <2>5. topup[r] \in TopupRecords /\ credited \in Int
    BY <2>1, <2>2
  <2>6. new \in TopupRecords
    <3>. HIDE DEF credited
    <3>. QED BY ONLY <2>5 DEF TopupRecords
  <2>3. topup' \in [Requests -> TopupRecords]
    BY <1>6, <2>6 DEF TopupCredit
  <2>4. \A q \in Requests : topup'[q].pc # "none" => topup'[q].session \in Sessions
    BY <1>6 DEF TopupCredit, TopupRecords
  <2>. QED BY <1>6, <2>1, <2>2, <2>3, <2>4 DEF TopupCredit, StatusKept
<1>7. ASSUME NEW r \in Requests, TopupReply(r) PROVE TypeOK'
  <2>1. now + Max0(topup[r].newCredit) \in Int
    BY Max0Type DEF TopupRecords
  <2>. DEFINE expiry == now + Max0(topup[r].newCredit)
              new == [topup[r] EXCEPT !.pc = "done", !.newExpiresAt = expiry]
  <2>4. new \in TopupRecords
    <3>1. topup[r] \in TopupRecords /\ expiry \in Int
      BY <2>1
    <3>. HIDE DEF expiry
    <3>. QED BY ONLY <3>1 DEF TopupRecords
  <2>2. topup' \in [Requests -> TopupRecords]
    BY <1>7, <2>4 DEF TopupReply
  <2>3. \A q \in Requests : topup'[q].pc # "none" => topup'[q].session \in Sessions
    BY <1>7 DEF TopupReply, TopupRecords
  <2>. QED BY <1>7, <2>2, <2>3 DEF TopupReply
<1> DEFINE TickTyped == /\ tick' \in [Ticks -> TickRecords]
                       /\ \A u \in Ticks :
                            tick'[u].pc \in {"clean", "debit", "evict", "publish"}
                              => tick'[u].cur \in Sessions
<1>8. ASSUME NEW t \in Ticks, TickStart(t) PROVE TypeOK'
  <2>. DEFINE new == [tick[t] EXCEPT !.pc = "scan", !.at = now]
  <2>3. tick[t] \in TickRecords /\ now \in Nat
    OBVIOUS
  <2>4. new \in TickRecords
    BY ONLY <2>3 DEF TickRecords
  <2>5. tick' = [tick EXCEPT ![t] = new]
    BY <1>8 DEF TickStart
  <2>6. new.pc \in {"clean", "debit", "evict", "publish"} => new.cur \in Sessions
    BY <1>8 DEF TickStart, TickRecords
  <2>1. TickTyped
    BY <2>4, <2>5, <2>6
  <2>. QED BY <1>8, <2>1 DEF TickStart
<1>9. ASSUME NEW t \in Ticks, TickScan(t) PROVE TypeOK'
  <2>. DEFINE new == [tick[t] EXCEPT !.pc = "loop", !.todo = activeSet]
  <2>3. tick[t] \in TickRecords /\ activeSet \in SUBSET Sessions
    OBVIOUS
  <2>4. new \in TickRecords
    BY ONLY <2>3 DEF TickRecords
  <2>5. tick' = [tick EXCEPT ![t] = new]
    BY <1>9 DEF TickScan
  <2>6. new.pc \in {"clean", "debit", "evict", "publish"} => new.cur \in Sessions
    BY <1>9 DEF TickScan, TickRecords
  <2>1. TickTyped
    BY <2>4, <2>5, <2>6
  <2>. QED BY <1>9, <2>1 DEF TickScan
<1>10. ASSUME NEW t \in Ticks, NEW s \in Sessions, TickMissing(t, s) PROVE TypeOK'
  <2>1. TickTyped
    BY <1>10 DEF TickMissing, TickRecords
  <2>. QED BY <1>10, <2>1 DEF TickMissing
<1>11. ASSUME NEW t \in Ticks, NEW s \in Sessions, TickSkip(t, s) PROVE TypeOK'
  <2>1. TickTyped
    BY <1>11 DEF TickSkip, TickRecords
  <2>. QED BY <1>11, <2>1 DEF TickSkip
<1>12. ASSUME NEW t \in Ticks, NEW s \in Sessions, TickDecide(t, s) PROVE TypeOK'
  <2>1. Remaining(s, tick[t].at) \in Int
    BY Max0Type DEF Remaining, Elapsed, TickRecords
  <2>2. TickTyped
    BY <1>12, <2>1 DEF TickDecide, TickRecords
  <2>. QED BY <1>12, <2>2 DEF TickDecide
<1>13. ASSUME NEW t \in Ticks, TickClean(t) PROVE TypeOK'
  <2>1. TickTyped
    BY <1>13 DEF TickClean, TickRecords
  <2>. QED BY <1>13, <2>1 DEF TickClean, Unlist
<1>14. ASSUME NEW t \in Ticks, TickDebit(t) PROVE TypeOK'
  <2>1. TickTyped
    BY <1>14 DEF TickDebit, TickRecords
  <2>2. tick[t].at \in Nat /\ tick[t].credit \in Int
    BY DEF TickRecords
  <2>. QED BY <1>14, <2>1, <2>2 DEF TickDebit, StatusKept, Debit
<1>15. ASSUME NEW t \in Ticks, TickEvict(t) PROVE TypeOK'
  <2>. DEFINE new == [tick[t] EXCEPT !.pc = "publish", !.credit = 0]
  <2>3. tick[t] \in TickRecords
    OBVIOUS
  <2>4. new \in TickRecords
    BY <2>3, EvictedTickIsTick
  <2>5. tick' = [tick EXCEPT ![t] = new]
    BY <1>15 DEF TickEvict
  <2>6. new.pc \in {"clean", "debit", "evict", "publish"} => new.cur \in Sessions
    BY <1>15 DEF TickEvict, TickRecords
  <2>1. TickTyped
    BY <2>4, <2>5, <2>6
  <2>2. tick[t].at \in Nat
    BY DEF TickRecords
  <2>. QED BY <1>15, <2>1, <2>2 DEF TickEvict, Debit, Unlist
<1>16. ASSUME NEW t \in Ticks, TickPublish(t) PROVE TypeOK'
  <2>1. TickTyped
    BY <1>16 DEF TickPublish, TickRecords
  <2>. QED BY <1>16, <2>1 DEF TickPublish, Announce
<1>17. ASSUME NEW t \in Ticks, TickDone(t) PROVE TypeOK'
  <2>1. TickTyped
    BY <1>17 DEF TickDone, TickRecords, IdleTick
  <2>. QED BY <1>17, <2>1 DEF TickDone
<1>18. ASSUME NEW t \in Ticks, TickAbort(t) PROVE TypeOK'
  <2>1. TickTyped
    BY <1>18 DEF TickAbort, TickRecords, IdleTick
  <2>. QED BY <1>18, <2>1 DEF TickAbort
<1>19. CASE UNCHANGED vars
  BY <1>19 DEF vars
<1>. QED
  BY <1>1, <1>2, <1>3, <1>4, <1>5, <1>6, <1>7, <1>8, <1>9, <1>10, <1>11, <1>12,
     <1>13, <1>14, <1>15, <1>16, <1>17, <1>18, <1>19
     DEF Next, CreateStep, TopupStep, TickStep

(* Every reachable state is well typed, whatever overlaps.                 *)
THEOREM TypeCorrect == Spec => []TypeOK
  BY TypeInit, TypeNext, PTL DEF Spec

-------------------------------------------------------------------------------
LEMMA CreditInit == Init => CreditInv
  BY CreditAssumption DEF Init, CreditInv, StoredOnly, MinutesRequested, NothingAhead,
     ReadingsBounded, CreditWithinPurchases, ActiveHasCredit, ActiveSetExact, Stored,
     Active, IdleTick, NoTopup

(* A step of tick t that touches nothing but the record of t preserves the *)
(* invariant when the new record x makes sense.                            *)
LEMMA TickOnly ==
  ASSUME TypeOK, CreditInv,
         UNCHANGED <<now, hashVars, create, topup, announced, historyVars>>,
         NEW t \in Ticks, NEW x, tick' = [tick EXCEPT ![t] = x],
         \A s \in x.todo : Stored(s),
         x.pc \in {"clean", "debit", "evict", "publish"} =>
           x.cur \in Sessions /\ Stored(x.cur),
         x.pc \in {"clean", "publish"} => ~Active(x.cur),
         x.at <= now,
         x.pc \in {"debit", "evict"} =>
           /\ sureUntil[x.cur] <= x.at + x.credit
           /\ x.at + x.credit <= boughtUntil[x.cur]
           /\ x.pc = "evict" <=> x.credit <= 0
  PROVE  CreditInv'
<1>1. /\ tick'[t] = x
      /\ \A u \in Ticks : u # t => tick'[u] = tick[u]
  BY DEF TypeOK
<1> USE DEF hashVars, historyVars, Stored, Active
<1>2. StoredOnly'
  BY <1>1 DEF CreditInv, StoredOnly
<1>3. MinutesRequested'
  BY DEF CreditInv, MinutesRequested
<1>4. NothingAhead'
  BY <1>1 DEF CreditInv, NothingAhead
<1>5. ReadingsBounded'
  BY <1>1 DEF CreditInv, ReadingsBounded, Reading
<1>6. CreditWithinPurchases' /\ ActiveHasCredit' /\ ActiveSetExact'
  BY DEF CreditInv, CreditWithinPurchases, ActiveHasCredit, ActiveSetExact, PaidUntil
<1>. QED BY <1>2, <1>3, <1>4, <1>5, <1>6 DEF CreditInv

(* The steps of runBillingTick that only read, decide, finish or give up.  *)
LEMMA TickReads ==
  ASSUME TypeOK, CreditInv, NEW t \in Ticks,
         \/ TickStart(t) \/ TickScan(t) \/ TickDone(t) \/ TickAbort(t)
         \/ \E s \in Sessions : TickMissing(t, s) \/ TickSkip(t, s) \/ TickDecide(t, s)
  PROVE  CreditInv'
<1>1. /\ tick[t] \in TickRecords /\ now \in Nat
      /\ \A s \in tick[t].todo : Stored(s)
      /\ tick[t].at <= now
  BY DEF TypeOK, CreditInv, StoredOnly, NothingAhead
<1>2. CASE TickStart(t)
  <2>. DEFINE x == [tick[t] EXCEPT !.pc = "scan", !.at = now]
  <2>1. x.pc = "scan" /\ x.at = now /\ x.todo = tick[t].todo
    BY <1>1 DEF TickRecords
  <2>2. tick' = [tick EXCEPT ![t] = x]
    BY <1>2 DEF TickStart
  <2>3. UNCHANGED <<now, hashVars, create, topup, announced, historyVars>>
    BY <1>2 DEF TickStart
  <2>4. x.at <= now
    BY <1>1, <2>1
  <2>. HIDE DEF x
  <2>. QED BY <1>1, <2>1, <2>2, <2>3, <2>4, TickOnly
<1>3. CASE TickScan(t)
  <2>. DEFINE x == [tick[t] EXCEPT !.pc = "loop", !.todo = activeSet]
  <2>1. x.pc = "loop" /\ x.at = tick[t].at /\ x.todo = activeSet
    BY <1>1 DEF TickRecords
  <2>2. tick' = [tick EXCEPT ![t] = x]
    BY <1>3 DEF TickScan
  <2>3. UNCHANGED <<now, hashVars, create, topup, announced, historyVars>>
    BY <1>3 DEF TickScan
  <2>4. \A s \in activeSet : Stored(s)
    BY DEF CreditInv, ActiveSetExact, StoredOnly, Active
  <2>. HIDE DEF x
  <2>. QED BY <1>1, <2>1, <2>2, <2>3, <2>4, TickOnly
<1>4. CASE TickDone(t) \/ TickAbort(t)
  <2>1. tick' = [tick EXCEPT ![t] = IdleTick]
    BY <1>4 DEF TickDone, TickAbort
  <2>2. UNCHANGED <<now, hashVars, create, topup, announced, historyVars>>
    BY <1>4 DEF TickDone, TickAbort
  <2>3. IdleTick.pc = "idle" /\ IdleTick.at = 0 /\ IdleTick.todo = {}
    BY DEF IdleTick
  <2>4. IdleTick.at <= now
    BY <1>1, <2>3
  <2>. QED BY <2>1, <2>2, <2>3, <2>4, TickOnly
<1>5. ASSUME NEW s \in Sessions, TickMissing(t, s) PROVE CreditInv'
  <2>. DEFINE x == [tick[t] EXCEPT !.pc = "clean", !.cur = s, !.todo = @ \ {s}]
  <2>1. x.pc = "clean" /\ x.cur = s /\ x.at = tick[t].at /\ x.todo = tick[t].todo \ {s}
    BY <1>1 DEF TickRecords
  <2>2. tick' = [tick EXCEPT ![t] = x]
    BY <1>5 DEF TickMissing
  <2>3. UNCHANGED <<now, hashVars, create, topup, announced, historyVars>>
    BY <1>5 DEF TickMissing
  <2>4. Stored(s) /\ ~Active(s)
    BY <1>1, <1>5 DEF TickMissing, Active
  <2>. HIDE DEF x
  <2>. QED BY <1>1, <2>1, <2>2, <2>3, <2>4, TickOnly
<1>6. ASSUME NEW s \in Sessions, TickSkip(t, s) PROVE CreditInv'
  <2>. DEFINE x == [tick[t] EXCEPT !.todo = @ \ {s}]
  <2>1. x.pc = "loop" /\ x.at = tick[t].at /\ x.todo = tick[t].todo \ {s}
    BY <1>1, <1>6 DEF TickRecords, TickSkip
  <2>2. tick' = [tick EXCEPT ![t] = x]
    BY <1>6 DEF TickSkip
  <2>3. UNCHANGED <<now, hashVars, create, topup, announced, historyVars>>
    BY <1>6 DEF TickSkip
  <2>. HIDE DEF x
  <2>. QED BY <1>1, <2>1, <2>2, <2>3, TickOnly
<1>7. ASSUME NEW s \in Sessions, TickDecide(t, s) PROVE CreditInv'
  <2>. DEFINE left == Remaining(s, tick[t].at)
              next == Verdict(left)
              x == [tick[t] EXCEPT !.pc = next, !.cur = s, !.credit = left,
                                   !.todo = @ \ {s}]
  <2>1. /\ x.pc = next /\ x.cur = s /\ x.at = tick[t].at
        /\ x.credit = left /\ x.todo = tick[t].todo \ {s}
    BY <1>1 DEF TickRecords
  <2>2. tick' = [tick EXCEPT ![t] = x]
    BY <1>7 DEF TickDecide
  <2>3. UNCHANGED <<now, hashVars, create, topup, announced, historyVars>>
    BY <1>7 DEF TickDecide
  <2>4. Stored(s) /\ Active(s)
    BY <1>1, <1>7 DEF TickDecide, Chargeable
  <2>5. tick[t].at + left = PaidUntil(s)
    <3>1. tick[t].at \in Nat /\ lastBilled[s] \in Nat /\ credit[s] \in Int
      BY <1>1 DEF TypeOK, TickRecords
    <3>2. Max0(tick[t].at - lastBilled[s]) > 0
      BY <1>7 DEF TickDecide, Chargeable, Elapsed
    <3>3. Max0(tick[t].at - lastBilled[s]) = tick[t].at - lastBilled[s]
      BY <3>1, <3>2 DEF Max0
    <3>4. left = credit[s] - (tick[t].at - lastBilled[s])
      BY <3>3 DEF Remaining, Elapsed
    <3>. QED BY <3>1, <3>4 DEF PaidUntil
  <2>6. /\ sureUntil[s] <= PaidUntil(s) /\ PaidUntil(s) <= boughtUntil[s]
    BY <2>4 DEF CreditInv, CreditWithinPurchases
  <2>7. next \in {"evict", "debit"} /\ (next = "evict" <=> left <= 0)
    BY DEF Verdict, Exhausted
  <2>. HIDE DEF x, next, left
  <2>. QED BY <1>1, <2>1, <2>2, <2>3, <2>4, <2>5, <2>6, <2>7, TickOnly
<1>. QED BY <1>2, <1>3, <1>4, <1>5, <1>6, <1>7

(* Time, the TTL and the steps of the two API handlers.                    *)
LEMMA HandlerSteps ==
  ASSUME TypeOK, CreditInv,
         \/ TimePasses
         \/ \E s \in Sessions : ExpireKey(s) \/ CreateStep(s)
         \/ \E r \in Requests : TopupStep(r)
  PROVE  CreditInv'
<1> USE CreditAssumption DEF hashVars, historyVars, Stored, Active
<1>1. CASE TimePasses
  <2>1. StoredOnly' /\ MinutesRequested' /\ ReadingsBounded' /\ ActiveSetExact'
    BY <1>1 DEF CreditInv, TimePasses, StoredOnly, MinutesRequested, ReadingsBounded,
                Reading, ActiveSetExact
  <2>2. now' = now + 1 /\ now \in Nat
    BY <1>1 DEF TimePasses, TypeOK
  <2>3. NothingAhead'
    <3>1. \A s \in Sessions : create[s].at \in Nat /\ lastBilled[s] \in Nat /\ sureUntil[s] \in Nat
      BY DEF TypeOK, CreateRecords
    <3>2. \A t \in Ticks : tick[t].at \in Nat
      BY DEF TypeOK, TickRecords
    <3>. QED BY <1>1, <2>2, <3>1, <3>2 DEF CreditInv, TimePasses, NothingAhead
  <2>4. CreditWithinPurchases'
    BY <1>1 DEF CreditInv, TimePasses, CreditWithinPurchases, PaidUntil
  <2>5. ActiveHasCredit'
    BY <1>1 DEF CreditInv, TimePasses, ActiveHasCredit
  <2>. QED BY <2>1, <2>3, <2>4, <2>5 DEF CreditInv
<1>2. ASSUME NEW s \in Sessions, ExpireKey(s) PROVE CreditInv'
  <2>1. /\ status[s] = "evicted" /\ status'[s] = "absent" /\ lastBilled'[s] = 0
        /\ \A q \in Sessions : q # s =>
             /\ status'[q] = status[q] /\ credit'[q] = credit[q]
             /\ lastBilled'[q] = lastBilled[q]
    BY <1>2 DEF ExpireKey, TypeOK
  <2>2. StoredOnly'
    BY <1>2, <2>1 DEF CreditInv, ExpireKey, StoredOnly, TypeOK
  <2>3. MinutesRequested' /\ ReadingsBounded'
    BY <1>2 DEF CreditInv, ExpireKey, MinutesRequested, ReadingsBounded, Reading
  <2>4. NothingAhead'
    BY <1>2, <2>1 DEF CreditInv, ExpireKey, NothingAhead, TypeOK
  <2>5. CreditWithinPurchases' /\ ActiveHasCredit' /\ ActiveSetExact'
    BY <1>2, <2>1 DEF CreditInv, ExpireKey, CreditWithinPurchases, ActiveHasCredit,
                      ActiveSetExact, PaidUntil
  <2>. QED BY <2>2, <2>3, <2>4, <2>5 DEF CreditInv
<1>3. ASSUME NEW s \in Sessions, NEW m \in Minutes, CreateBegin(s, m) PROVE CreditInv'
  <2>1. /\ create[s].pc = "none" /\ create'[s].pc = "begun"
        /\ create'[s].at = now /\ create'[s].minutes = m
        /\ \A q \in Sessions : q # s => create'[q] = create[q]
    BY <1>3 DEF CreateBegin, TypeOK
  <2>2. \A q \in Sessions : Stored(q)' = Stored(q)
    BY <2>1
  <2>3. StoredOnly'
    <3>1. \A r \in Requests : topup[r].pc # "none" => topup[r].session \in Sessions
      BY DEF TypeOK
    <3>2. \A t \in Ticks :
            /\ tick[t].todo \subseteq Sessions
            /\ tick[t].pc \in {"clean", "debit", "evict", "publish"} => tick[t].cur \in Sessions
      BY DEF TypeOK, TickRecords
    <3>3. announced \subseteq Sessions
      BY DEF TypeOK
    <3>. HIDE DEF Stored
    <3>. QED BY <1>3, <2>2, <3>1, <3>2, <3>3 DEF CreditInv, CreateBegin, StoredOnly
  <2>4. MinutesRequested'
    BY <1>3, <2>1 DEF CreditInv, CreateBegin, MinutesRequested
  <2>5. NothingAhead'
    BY <1>3, <2>1, <2>2 DEF CreditInv, CreateBegin, NothingAhead, TypeOK
  <2>6. ReadingsBounded' /\ CreditWithinPurchases' /\ ActiveHasCredit' /\ ActiveSetExact'
    BY <1>3 DEF CreditInv, CreateBegin, ReadingsBounded, Reading, CreditWithinPurchases,
                ActiveHasCredit, ActiveSetExact, PaidUntil
  <2>. QED BY <2>3, <2>4, <2>5, <2>6 DEF CreditInv
<1>4. ASSUME NEW s \in Sessions, CreateCommit(s) PROVE CreditInv'
  <2>. DEFINE bought == create[s].minutes * SecondsPerMinute
  <2>1. bought \in Nat \ {0} /\ create[s].at \in Nat
    BY <1>4, ProductIsPositive DEF CreateCommit, CreditInv, MinutesRequested, TypeOK, CreateRecords
  <2>2. /\ create[s].pc = "begun" /\ create'[s].pc = "done"
        /\ create'[s].at = create[s].at /\ create'[s].minutes = create[s].minutes
        /\ \A q \in Sessions : q # s => create'[q] = create[q]
    BY <1>4 DEF CreateCommit, TypeOK, CreateRecords
  <2>3. /\ status'[s] = "active" /\ credit'[s] = bought /\ lastBilled'[s] = create[s].at
        /\ sureUntil'[s] = create[s].at + bought /\ boughtUntil'[s] = create[s].at + bought
        /\ \A q \in Sessions : q # s =>
             /\ status'[q] = status[q] /\ credit'[q] = credit[q]
             /\ lastBilled'[q] = lastBilled[q]
             /\ sureUntil'[q] = sureUntil[q] /\ boughtUntil'[q] = boughtUntil[q]
    BY <1>4 DEF CreateCommit, TypeOK
  <2>4. UNCHANGED <<now, topup, tick, announced>>
    BY <1>4 DEF CreateCommit
  <2>. HIDE DEF bought
  <2>5. StoredOnly'
    <3>1. \A r \in Requests : topup[r].pc # "none" => topup[r].session \in Sessions
      BY DEF TypeOK
    <3>2. \A t \in Ticks :
            /\ tick[t].todo \subseteq Sessions
            /\ tick[t].pc \in {"clean", "debit", "evict", "publish"} => tick[t].cur \in Sessions
      BY DEF TypeOK, TickRecords
    <3>3. announced \subseteq Sessions
      BY DEF TypeOK
    <3>. QED BY <2>2, <2>3, <2>4, <3>1, <3>2, <3>3 DEF CreditInv, StoredOnly
  <2>6. MinutesRequested'
    BY <2>2, <2>4 DEF CreditInv, MinutesRequested
  <2>7. NothingAhead'
    BY <2>2, <2>3, <2>4 DEF CreditInv, NothingAhead
  <2>8. ReadingsBounded'
    <3>1. \A t \in Ticks : tick[t].pc \in {"debit", "evict"} =>
            tick[t].cur \in Sessions /\ tick[t].cur # s
      BY <2>2 DEF CreditInv, StoredOnly, TypeOK
    <3>. QED BY <2>3, <2>4, <3>1 DEF CreditInv, ReadingsBounded, Reading
  <2>9. CreditWithinPurchases' /\ ActiveHasCredit'
    BY <2>1, <2>3, <2>4 DEF CreditInv, CreditWithinPurchases, ActiveHasCredit, PaidUntil
  <2>10. ActiveSetExact'
    BY <1>4, <2>3 DEF CreditInv, ActiveSetExact, CreateCommit, List
  <2>. QED BY <2>5, <2>6, <2>7, <2>8, <2>9, <2>10 DEF CreditInv
<1>5. ASSUME NEW r \in Requests, NEW s \in Sessions, NEW m \in Minutes, TopupCheck(r, s, m)
      PROVE  CreditInv'
  <2>1. /\ topup'[r].session = s /\ topup'[r].minutes = m
        /\ \A q \in Requests : q # r => topup'[q] = topup[q]
    BY <1>5 DEF TopupCheck, TypeOK, TopupRecords
  <2>2. create[s].pc = "done"
    BY <1>5 DEF TopupCheck, CreditInv, StoredOnly
  <2>3. StoredOnly'
    BY <1>5, <2>1, <2>2 DEF CreditInv, TopupCheck, StoredOnly
  <2>4. MinutesRequested'
    BY <1>5, <2>1 DEF CreditInv, TopupCheck, MinutesRequested
  <2>5. NothingAhead' /\ ReadingsBounded' /\ CreditWithinPurchases' /\ ActiveHasCredit'
        /\ ActiveSetExact'
    BY <1>5 DEF CreditInv, TopupCheck, NothingAhead, ReadingsBounded, Reading,
                CreditWithinPurchases, ActiveHasCredit, ActiveSetExact, PaidUntil
  <2>. QED BY <2>3, <2>4, <2>5 DEF CreditInv
<1>6. ASSUME NEW r \in Requests, TopupCredit(r) PROVE CreditInv'
  <2>0. PICK s \in Sessions : s = topup[r].session
    BY <1>6 DEF TopupCredit, TypeOK
  <2>. DEFINE more == topup[r].minutes * SecondsPerMinute
  <2>1. s \in Sessions /\ topup[r].pc = "checked" /\ create[s].pc = "done"
    BY <1>6, <2>0 DEF TopupCredit, CreditInv, StoredOnly
  <2>2. PICK added \in Nat \ {0} : added = more
    BY <2>1, ProductIsPositive DEF CreditInv, MinutesRequested
  <2>3. /\ topup'[r].session = s /\ topup'[r].minutes = topup[r].minutes
        /\ \A q \in Requests : q # r => topup'[q] = topup[q]
    BY <1>6, <2>0 DEF TopupCredit, TypeOK, TopupRecords
  <2>4. /\ credit'[s] = credit[s] + added /\ boughtUntil'[s] = boughtUntil[s] + added
        /\ status'[s] = "active" <=> status[s] = "active"
        /\ status'[s] = "evicted" <=> status[s] = "evicted"
        /\ sureUntil'[s] = IF Unraced(s) THEN sureUntil[s] + added ELSE sureUntil[s]
        /\ \A q \in Sessions : q # s =>
             /\ status'[q] = status[q] /\ credit'[q] = credit[q]
             /\ boughtUntil'[q] = boughtUntil[q] /\ sureUntil'[q] = sureUntil[q]
    BY <1>6, <2>0, <2>1, <2>2 DEF TopupCredit, TypeOK, StatusKept
  <2>5. UNCHANGED <<now, lastBilled, activeSet, create, tick, announced>>
    BY <1>6 DEF TopupCredit
  <2>. HIDE DEF more
  <2>6. StoredOnly'
    <3>1. \A q \in Requests : topup'[q].pc # "none" => create[topup'[q].session].pc = "done"
      BY <2>1, <2>3 DEF CreditInv, StoredOnly
    <3>2. \A q \in Sessions : status'[q] = "active" <=> status[q] = "active"
      BY <2>4
    <3>3. \A q \in Sessions : status'[q] # "absent" => create[q].pc = "done"
      BY <2>1, <2>4 DEF CreditInv, StoredOnly
    <3>4. \A t \in Ticks : tick[t].pc \in {"clean", "publish"} => tick[t].cur \in Sessions
      BY DEF TypeOK
    <3>5. announced \subseteq Sessions
      BY DEF TypeOK
    <3>. QED BY <2>5, <3>1, <3>2, <3>3, <3>4, <3>5 DEF CreditInv, StoredOnly
  <2>7. MinutesRequested'
    BY <2>1, <2>3, <2>5 DEF CreditInv, MinutesRequested
  <2>8. NothingAhead'
    BY <2>4, <2>5 DEF CreditInv, NothingAhead, Unraced
  <2>9. ReadingsBounded'
    <3>1. \A t \in Ticks : tick[t].pc \in {"debit", "evict"} =>
            tick[t].cur \in Sessions /\ tick[t].at \in Nat /\ tick[t].credit \in Int
      BY DEF TypeOK, TickRecords
    <3>2. boughtUntil[s] \in Nat
      BY <2>1 DEF TypeOK
    <3>3. \A t \in Ticks :
            tick[t].pc \in {"debit", "evict"} /\ tick[t].cur = s => sureUntil'[s] = sureUntil[s]
      BY <2>4 DEF Unraced, HoldsReading
    <3>4. boughtUntil[s] <= boughtUntil'[s]
      BY <2>2, <2>4, <3>2
    <3>5. ASSUME NEW t \in Ticks, tick[t].pc \in {"debit", "evict"}, tick[t].cur = s
          PROVE  sureUntil[s] <= Reading(t) /\ Reading(t) <= boughtUntil'[s]
      <4>1. sureUntil[s] <= Reading(t) /\ Reading(t) <= boughtUntil[s]
        BY <3>5 DEF CreditInv, ReadingsBounded
      <4>2. Reading(t) \in Int /\ boughtUntil'[s] \in Int
        BY <2>2, <2>4, <3>1, <3>2, <3>5 DEF Reading
      <4>. QED BY <3>2, <3>4, <4>1, <4>2
    <3>. QED BY <2>4, <2>5, <3>1, <3>3, <3>5
             DEF CreditInv, ReadingsBounded, Reading
  <2>10. CreditWithinPurchases' /\ ActiveHasCredit'
    <3>1. /\ boughtUntil[s] \in Nat /\ sureUntil[s] \in Nat
          /\ lastBilled[s] \in Nat /\ credit[s] \in Int
      BY <2>1 DEF TypeOK
    <3>2. lastBilled[s] + (credit[s] + added) = PaidUntil(s) + added
          /\ PaidUntil(s) \in Int
      BY <2>2, <3>1 DEF PaidUntil
    <3>3. status'[s] = "active" => PaidUntil(s)' = PaidUntil(s) + added
      BY <2>4, <2>5, <3>2 DEF PaidUntil
    <3>4. \A q \in Sessions : q # s => PaidUntil(q)' = PaidUntil(q)
      BY <2>4, <2>5 DEF PaidUntil
    <3>5. sureUntil'[s] \in {sureUntil[s], sureUntil[s] + added}
      BY <2>4
    <3>6. status'[s] = "active" => sureUntil'[s] <= PaidUntil(s)' /\ PaidUntil(s)' <= boughtUntil'[s]
      BY <2>1, <2>2, <2>4, <3>1, <3>2, <3>3, <3>5 DEF CreditInv, CreditWithinPurchases
    <3>7. CreditWithinPurchases'
      BY <2>4, <2>5, <3>4, <3>6 DEF CreditInv, CreditWithinPurchases
    <3>8. status'[s] = "active" => credit'[s] > 0
      BY <2>1, <2>2, <2>4, <3>1 DEF CreditInv, ActiveHasCredit
    <3>9. ActiveHasCredit'
      BY <2>4, <3>8 DEF CreditInv, ActiveHasCredit
    <3>. QED BY <3>7, <3>9
  <2>11. ActiveSetExact'
    BY <2>4, <2>5 DEF CreditInv, ActiveSetExact
  <2>. QED BY <2>6, <2>7, <2>8, <2>9, <2>10, <2>11 DEF CreditInv
<1>7. ASSUME NEW r \in Requests, TopupReply(r) PROVE CreditInv'
  <2>1. /\ topup[r].pc # "none"
        /\ topup'[r].session = topup[r].session /\ topup'[r].minutes = topup[r].minutes
        /\ \A q \in Requests : q # r => topup'[q] = topup[q]
    BY <1>7 DEF TopupReply, TypeOK, TopupRecords
  <2>2. StoredOnly' /\ MinutesRequested'
    <3>1. UNCHANGED <<status, create, tick, announced>>
      BY <1>7 DEF TopupReply
    <3>2. \A q \in Requests : topup'[q].pc # "none" =>
            /\ topup[q].pc # "none"
            /\ topup'[q].session = topup[q].session /\ topup'[q].minutes = topup[q].minutes
      BY <2>1
    <3>. QED BY <3>1, <3>2 DEF CreditInv, StoredOnly, MinutesRequested
  <2>3. NothingAhead' /\ ReadingsBounded' /\ CreditWithinPurchases' /\ ActiveHasCredit'
        /\ ActiveSetExact'
    BY <1>7 DEF CreditInv, TopupReply, NothingAhead, ReadingsBounded, Reading,
                CreditWithinPurchases, ActiveHasCredit, ActiveSetExact, PaidUntil
  <2>. QED BY <2>2, <2>3 DEF CreditInv
<1>. QED BY <1>1, <1>2, <1>3, <1>4, <1>5, <1>6, <1>7 DEF CreateStep, TopupStep

(* The steps of runBillingTick that write: clean-up, debit, eviction, and  *)
(* the publication of the eviction.                                        *)
LEMMA TickWrites ==
  ASSUME TypeOK, CreditInv, NEW t \in Ticks,
         TickClean(t) \/ TickDebit(t) \/ TickEvict(t) \/ TickPublish(t)
  PROVE  CreditInv'
<1> USE DEF hashVars, historyVars, Stored, Active
<1>0. PICK s \in Sessions : s = tick[t].cur
  BY DEF TypeOK, TickClean, TickDebit, TickEvict, TickPublish
<1>1. /\ create[s].pc = "done"
      /\ tick[t].pc \in {"clean", "publish"} => status[s] # "active"
  BY <1>0 DEF CreditInv, StoredOnly, TickClean, TickDebit, TickEvict, TickPublish
<1>2. /\ tick'[t].pc \in {"loop", "publish"} /\ tick'[t].at = tick[t].at
      /\ tick'[t].todo = tick[t].todo
      /\ tick'[t].pc = "publish" => tick'[t].cur = s
      /\ \A u \in Ticks : u # t => tick'[u] = tick[u]
  BY <1>0 DEF TypeOK, TickRecords, TickClean, TickDebit, TickEvict, TickPublish
<1>3. UNCHANGED <<now, create, topup, historyVars>>
  BY DEF TickClean, TickDebit, TickEvict, TickPublish
<1>4. MinutesRequested'
  BY <1>3 DEF CreditInv, MinutesRequested
<1>5. ReadingsBounded'
  BY <1>2, <1>3 DEF CreditInv, ReadingsBounded, Reading
<1>6. CASE TickClean(t)
  <2>1. UNCHANGED <<status, credit, lastBilled, announced>> /\ activeSet' = activeSet \ {s}
        /\ tick'[t].pc = "loop" /\ status[s] # "active"
    BY <1>0, <1>1, <1>6 DEF TickClean, TypeOK, TickRecords, Unlist
  <2>2. StoredOnly'
    BY <1>2, <1>3, <2>1 DEF CreditInv, StoredOnly
  <2>3. NothingAhead'
    BY <1>2, <1>3, <2>1 DEF CreditInv, NothingAhead
  <2>4. CreditWithinPurchases' /\ ActiveHasCredit' /\ ActiveSetExact'
    BY <1>3, <2>1 DEF CreditInv, CreditWithinPurchases, ActiveHasCredit, ActiveSetExact,
                      PaidUntil
  <2>. QED BY <1>4, <1>5, <2>2, <2>3, <2>4 DEF CreditInv
<1>7. CASE TickDebit(t)
  <2>1. /\ credit'[s] = tick[t].credit /\ lastBilled'[s] = tick[t].at
        /\ status'[s] = (IF status[s] = "absent" THEN "nofield" ELSE status[s])
        /\ \A q \in Sessions : q # s =>
             /\ status'[q] = status[q] /\ credit'[q] = credit[q]
             /\ lastBilled'[q] = lastBilled[q]
        /\ UNCHANGED <<activeSet, announced>> /\ tick'[t].pc = "loop"
    BY <1>0, <1>7 DEF TickDebit, TypeOK, TickRecords, StatusKept, Debit
  <2>2. \A q \in Sessions : /\ status'[q] = "active" <=> status[q] = "active"
                            /\ status'[q] = "evicted" <=> status[q] = "evicted"
                            /\ status'[q] # "absent" => create[q].pc = "done"
    BY <1>1, <2>1 DEF CreditInv, StoredOnly
  <2>3. StoredOnly'
    <3>1. \A u \in Ticks : tick[u].pc \in {"clean", "publish"} => tick[u].cur \in Sessions
      BY DEF TypeOK
    <3>2. announced \subseteq Sessions
      BY DEF TypeOK
    <3>. QED BY <1>2, <1>3, <2>1, <2>2, <3>1, <3>2 DEF CreditInv, StoredOnly
  <2>4. NothingAhead'
    BY <1>2, <1>3, <2>1, <2>2 DEF CreditInv, NothingAhead
  <2>5. /\ sureUntil[s] <= tick[t].at + tick[t].credit
        /\ tick[t].at + tick[t].credit <= boughtUntil[s]
        /\ tick[t].credit \in Int /\ tick[t].credit > 0
    BY <1>0, <1>7 DEF TypeOK, TickRecords, CreditInv, ReadingsBounded, Reading, TickDebit
  <2>6. CreditWithinPurchases' /\ ActiveHasCredit'
    BY <1>3, <2>1, <2>2, <2>5
       DEF CreditInv, CreditWithinPurchases, ActiveHasCredit, PaidUntil
  <2>7. ActiveSetExact'
    BY <2>1, <2>2 DEF CreditInv, ActiveSetExact
  <2>. QED BY <1>4, <1>5, <2>3, <2>4, <2>6, <2>7 DEF CreditInv
<1>8. CASE TickEvict(t)
  <2>1. /\ status'[s] = "evicted" /\ lastBilled'[s] = tick[t].at
        /\ \A q \in Sessions : q # s =>
             /\ status'[q] = status[q] /\ credit'[q] = credit[q]
             /\ lastBilled'[q] = lastBilled[q]
        /\ activeSet' = activeSet \ {s} /\ UNCHANGED announced
    BY <1>0, <1>8 DEF TickEvict, TypeOK, Debit, Unlist
  <2>2. StoredOnly'
    <3>1. \A q \in Sessions : /\ status'[q] # "active" \/ status[q] = "active"
                              /\ status'[q] # "absent" => create[q].pc = "done"
      BY <1>1, <2>1 DEF CreditInv, StoredOnly
    <3>2. \A u \in Ticks : tick[u].pc \in {"clean", "publish"} => tick[u].cur \in Sessions
      BY DEF TypeOK
    <3>3. announced \subseteq Sessions
      BY DEF TypeOK
    <3>. QED BY <1>1, <1>2, <1>3, <2>1, <3>1, <3>2, <3>3 DEF CreditInv, StoredOnly
  <2>3. sureUntil[s] <= now
    <3>1. /\ sureUntil[s] <= tick[t].at + tick[t].credit
          /\ tick[t].credit <= 0 /\ tick[t].at <= now
      BY <1>0, <1>8 DEF CreditInv, ReadingsBounded, NothingAhead, Reading, TickEvict
    <3>2. /\ now \in Nat /\ sureUntil[s] \in Nat
          /\ tick[t].at \in Nat /\ tick[t].credit \in Int
      BY DEF TypeOK, TickRecords
    <3>. QED BY <3>1, <3>2
  <2>4. NothingAhead'
    BY <1>2, <1>3, <2>1, <2>3 DEF CreditInv, NothingAhead
  <2>5. CreditWithinPurchases'
    BY <1>3, <2>1 DEF CreditInv, CreditWithinPurchases, PaidUntil
  <2>6. ActiveHasCredit'
    BY <2>1 DEF CreditInv, ActiveHasCredit
  <2>7. ActiveSetExact'
    BY <2>1 DEF CreditInv, ActiveSetExact
  <2>. QED BY <1>4, <1>5, <2>2, <2>4, <2>5, <2>6, <2>7 DEF CreditInv
<1>9. CASE TickPublish(t)
  <2>1. /\ UNCHANGED hashVars /\ announced' = announced \cup {s}
        /\ tick'[t].pc = "loop" /\ status[s] # "active"
    BY <1>0, <1>1, <1>9 DEF TickPublish, TypeOK, TickRecords, Announce
  <2>2. StoredOnly'
    BY <1>1, <1>2, <1>3, <2>1 DEF CreditInv, StoredOnly
  <2>3. NothingAhead'
    BY <1>2, <1>3, <2>1 DEF CreditInv, NothingAhead
  <2>4. CreditWithinPurchases' /\ ActiveHasCredit' /\ ActiveSetExact'
    BY <1>3, <2>1 DEF CreditInv, CreditWithinPurchases, ActiveHasCredit, ActiveSetExact,
                      PaidUntil
  <2>. QED BY <1>4, <1>5, <2>2, <2>3, <2>4 DEF CreditInv
<1>. QED BY <1>6, <1>7, <1>8, <1>9

LEMMA CreditNext == TypeOK /\ CreditInv /\ [Next]_vars => CreditInv'
<1> SUFFICES ASSUME TypeOK, CreditInv, [Next]_vars PROVE CreditInv'
  OBVIOUS
<1>1. CASE TimePasses \/ (\E s \in Sessions : ExpireKey(s) \/ CreateStep(s))
           \/ (\E r \in Requests : TopupStep(r))
  BY <1>1, HandlerSteps
<1>2. ASSUME NEW t \in Ticks, TickStep(t) \/ TickAbort(t) PROVE CreditInv'
  BY <1>2, TickReads, TickWrites DEF TickStep
<1>3. CASE UNCHANGED vars
  BY <1>3 DEF vars, hashVars, historyVars, CreditInv, StoredOnly, MinutesRequested,
              NothingAhead, ReadingsBounded, CreditWithinPurchases, ActiveHasCredit,
              ActiveSetExact, Stored, Active, Reading, PaidUntil
<1>. QED BY <1>1, <1>2, <1>3 DEF Next

(* The inductive invariant holds in every reachable state.                 *)
THEOREM CreditInvariant == Spec => []CreditInv
<1>1. Init => TypeOK /\ CreditInv
  BY TypeInit, CreditInit
<1>2. TypeOK /\ CreditInv /\ [Next]_vars => (TypeOK /\ CreditInv)'
  BY TypeNext, CreditNext
<1>. QED BY <1>1, <1>2, PTL DEF Spec

(* However many ticks and topups overlap, an active session keeps what it  *)
(* was created and, unraced, topped up with, and never more than was       *)
(* bought for it.                                                          *)
THEOREM NeverDoubleCharged == Spec => []CreditWithinPurchases
<1>1. CreditInv => CreditWithinPurchases
  BY DEF CreditInv
<1>. QED BY <1>1, CreditInvariant, PTL

(* No mixture of debits and topups leaves a session active with nothing.   *)
THEOREM CreditWhileActive == Spec => []ActiveHasCredit
<1>1. CreditInv => ActiveHasCredit
  BY DEF CreditInv
<1>. QED BY <1>1, CreditInvariant, PTL

(* The billing worker's work list holds exactly the active sessions.       *)
THEOREM WorkListExact == Spec => []ActiveSetExact
<1>1. CreditInv => ActiveSetExact
  BY DEF CreditInv
<1>. QED BY <1>1, CreditInvariant, PTL

(* No eviction is announced for a session that is, or will be, active.     *)
THEOREM EvictionRecordedFirst == Spec => []MarkedBeforeAnnounced
<1>1. CreditInv => MarkedBeforeAnnounced
  BY DEF CreditInv, StoredOnly, MarkedBeforeAnnounced
<1>. QED BY <1>1, CreditInvariant, PTL

(* A stored session is served for all its sure time.                       *)
THEOREM SureTimeServed == Spec => []PaidTimeHonoured
<1>1. TypeOK /\ CreditInv => PaidTimeHonoured
  <2> SUFFICES ASSUME TypeOK, CreditInv, NEW s \in Sessions,
                      create[s].pc = "done", now < sureUntil[s]
               PROVE  Active(s) /\ \A at \in 0 .. now : EffectiveCredit(s, at) >= sureUntil[s] - now
    BY DEF PaidTimeHonoured
  <2>1. /\ now \in Nat /\ sureUntil[s] \in Nat /\ lastBilled[s] \in Nat
        /\ credit[s] \in Int
    BY DEF TypeOK
  <2>2. Active(s)
    <3>1. Stored(s) /\ ~Active(s) => sureUntil[s] <= now
      BY DEF CreditInv, NothingAhead
    <3>. QED BY <2>1, <3>1 DEF Stored
  <2>3. sureUntil[s] <= lastBilled[s] + credit[s] /\ lastBilled[s] <= now
    BY <2>2 DEF CreditInv, CreditWithinPurchases, PaidUntil, NothingAhead
  <2>4. ASSUME NEW at \in 0 .. now
        PROVE  EffectiveCredit(s, at) >= sureUntil[s] - now
    <3>1. PICK e \in Nat : e = Max0(at - lastBilled[s])
      BY <2>1, Max0Type
    <3>2. e <= now - lastBilled[s]
      BY <2>1, <2>3, <3>1 DEF Max0
    <3>3. credit[s] - e <= Max0(credit[s] - e) /\ Max0(credit[s] - e) \in Nat
      BY <2>1, Max0Type
    <3>4. EffectiveCredit(s, at) = Max0(credit[s] - e)
      BY <2>2, <3>1 DEF EffectiveCredit
    <3>. QED BY <2>1, <2>3, <3>2, <3>3, <3>4
  <2>. QED BY <2>2, <2>4
<1>. QED BY <1>1, TypeCorrect, CreditInvariant, PTL

-------------------------------------------------------------------------------
(* Evictions: whoever is stored and not active has been announced, or a    *)
(* tick is about to, or the tick that had marked it died before it could.  *)

LEMMA UnannouncedStep ==
  TypeOK /\ CreditInv /\ NoneUnannounced /\ [Next]_vars => NoneUnannounced'
<1> DEFINE Told(s) ==
      s \in announced \/ \E t \in Ticks : tick[t].pc = "publish" /\ tick[t].cur = s
<1> SUFFICES ASSUME TypeOK, CreditInv, NoneUnannounced, [Next]_vars,
                    NEW s \in Sessions, Stored(s)', ~Active(s)', s \notin orphaned'
             PROVE  Told(s)'
  BY DEF NoneUnannounced, Stored
<1> USE DEF hashVars, deathVars, historyVars, Stored, Active
<1>0. UNCHANGED orphaned /\ Stored(s) /\ ~Active(s) => Told(s)
  BY DEF NoneUnannounced
<1>1. ASSUME UNCHANGED <<tick, announced, orphaned>>, Stored(s), ~Active(s) PROVE Told(s)'
  BY <1>0, <1>1
<1>2. CASE TimePasses
  BY <1>1, <1>2 DEF TimePasses
<1>3. ASSUME NEW q \in Sessions, ExpireKey(q) PROVE Told(s)'
  BY <1>1, <1>3 DEF ExpireKey, TypeOK
<1>4. ASSUME NEW q \in Sessions, CreateStep(q) PROVE Told(s)'
  <2>1. ASSUME NEW m \in Minutes, CreateBegin(q, m) PROVE Told(s)'
    BY <1>1, <2>1 DEF CreateBegin, TypeOK
  <2>2. CASE CreateCommit(q)
    BY <1>1, <2>2 DEF CreateCommit, TypeOK, CreateRecords
  <2>. QED BY <1>4, <2>1, <2>2 DEF CreateStep
<1>5. ASSUME NEW r \in Requests, TopupStep(r) PROVE Told(s)'
  <2>1. ASSUME NEW q \in Sessions, NEW m \in Minutes, TopupCheck(r, q, m) PROVE Told(s)'
    BY <1>1, <2>1 DEF TopupCheck
  <2>2. CASE TopupCredit(r)
    BY <1>1, <2>2 DEF TopupCredit, TypeOK, StatusKept
  <2>3. CASE TopupReply(r)
    BY <1>1, <2>3 DEF TopupReply
  <2>. QED BY <1>5, <2>1, <2>2, <2>3 DEF TopupStep
<1>6. ASSUME NEW t \in Ticks, TickStep(t) PROVE Told(s)'
  <2>0. ASSUME UNCHANGED orphaned, Stored(s), ~Active(s), announced \subseteq announced', tick[t].pc # "publish",
               \A u \in Ticks : u # t => tick'[u] = tick[u]
        PROVE Told(s)'
    BY <1>0, <2>0
  <2>1. CASE TickStart(t) \/ TickScan(t) \/ TickDone(t) \/ TickClean(t)
    BY <2>0, <2>1 DEF TickStart, TickScan, TickDone, TickClean, TypeOK
  <2>2. ASSUME NEW q \in Sessions, TickMissing(t, q) \/ TickSkip(t, q) \/ TickDecide(t, q)
        PROVE Told(s)'
    BY <2>0, <2>2 DEF TickMissing, TickSkip, TickDecide, TypeOK
  <2>3. CASE TickDebit(t)
    <3>1. Stored(s) /\ ~Active(s)
      BY <2>3 DEF TickDebit, TypeOK, StatusKept
    <3>2. /\ UNCHANGED <<announced, orphaned>> /\ tick[t].pc # "publish"
          /\ \A u \in Ticks : u # t => tick'[u] = tick[u]
      BY <2>3 DEF TickDebit, TypeOK
    <3>. QED BY <2>0, <3>1, <3>2
  <2>4. CASE TickEvict(t)
    <3>1. /\ tick'[t].pc = "publish" /\ tick'[t].cur = tick[t].cur
          /\ UNCHANGED <<announced, orphaned>> /\ tick[t].pc # "publish"
          /\ \A u \in Ticks : u # t => tick'[u] = tick[u]
      BY <2>4 DEF TickEvict, TypeOK, TickRecords
    <3>2. tick[t].cur = s \/ (Stored(s) /\ ~Active(s))
      BY <2>4 DEF TickEvict, TypeOK
    <3>. QED BY <2>0, <3>1, <3>2
  <2>5. CASE TickPublish(t)
    <3>1. /\ orphaned' = orphaned /\ announced' = announced \cup {tick[t].cur} /\ Stored(s) /\ ~Active(s)
          /\ \A u \in Ticks : u # t => tick'[u] = tick[u]
      BY <2>5 DEF TickPublish, Announce, TypeOK
    <3>. QED BY <1>0, <3>1
  <2>. QED BY <1>6, <2>1, <2>2, <2>3, <2>4, <2>5 DEF TickStep
<1>7. ASSUME NEW t \in Ticks, TickAbort(t) PROVE Told(s)'
  <2>1. /\ Stored(s) /\ ~Active(s) /\ s \notin orphaned /\ announced' = announced
        /\ ~(tick[t].pc = "publish" /\ tick[t].cur = s)
        /\ \A u \in Ticks : u # t => tick'[u] = tick[u]
    BY <1>7 DEF TickAbort, TypeOK
  <2>. QED BY <2>1 DEF NoneUnannounced
<1>8. CASE UNCHANGED vars
  BY <1>1, <1>8 DEF vars
<1>. QED BY <1>2, <1>3, <1>4, <1>5, <1>6, <1>7, <1>8 DEF Next

(* An eviction that was recorded is announced or about to be, unless the   *)
(* tick that recorded it died before the publication.                      *)
THEOREM EvictionNotForgotten == Spec => []NoneUnannounced
<1>1. Init => NoneUnannounced
  BY DEF Init, NoneUnannounced
<1>2. TypeOK /\ CreditInv /\ NoneUnannounced /\ [Next]_vars => NoneUnannounced'
  BY UnannouncedStep
<1>. QED BY <1>1, <1>2, TypeCorrect, CreditInvariant, PTL DEF Spec

-------------------------------------------------------------------------------
(* The refinement: every step of the API and of the billing worker is a    *)
(* step of the prepaid-session contract, or changes nothing it speaks of.  *)

(* A step after which s alone may have changed is judged by s alone.       *)
LEMMA SameElsewhere ==
  ASSUME NEW s \in Sessions, NEW p, NEW u,
         \A q \in Sessions : q # s => Phase(q)' = Phase(q) /\ Until(q)' = Until(q),
         Phase(s)' = p, Until(s)' = u
  PROVE  /\ [q \in Sessions |-> Phase(q)]' = [[q \in Sessions |-> Phase(q)] EXCEPT ![s] = p]
         /\ [q \in Sessions |-> Until(q)]' = [[q \in Sessions |-> Until(q)] EXCEPT ![s] = u]
  OBVIOUS

LEMMA RefinesStep ==
  TypeOK /\ CreditInv /\ [Next]_vars => [Prepaid!Next]_(Prepaid!prepaidVars)
<1> SUFFICES ASSUME TypeOK, CreditInv, [Next]_vars
             PROVE  Prepaid!Next \/ UNCHANGED Prepaid!prepaidVars
  OBVIOUS
<1> USE CreditAssumption DEF hashVars, historyVars
<1>0. ASSUME UNCHANGED <<now, sureUntil, boughtUntil>>,
             \A q \in Sessions : Phase(q)' = Phase(q) /\ Until(q)' = Until(q)
      PROVE  UNCHANGED Prepaid!prepaidVars
  BY <1>0 DEF Prepaid!prepaidVars
<1>1. CASE TimePasses
  <2>1. \A q \in Sessions : Phase(q)' = Phase(q) /\ Until(q)' = Until(q)
    BY <1>1 DEF TimePasses, Phase, Until, PaidUntil, Active, Stored
  <2>2. Prepaid!Advance
    BY <1>1, <2>1 DEF TimePasses, Prepaid!Advance
  <2>. QED BY <2>2 DEF Prepaid!Next
<1>2. ASSUME NEW s \in Sessions, ExpireKey(s) PROVE UNCHANGED Prepaid!prepaidVars
  <2>1. \A q \in Sessions : Phase(q)' = Phase(q) /\ Until(q)' = Until(q)
    BY <1>2 DEF ExpireKey, TypeOK, Phase, Until, PaidUntil, Active, Stored
  <2>. QED BY <1>0, <1>2, <2>1 DEF ExpireKey
<1>3. ASSUME NEW s \in Sessions, NEW m \in Minutes, CreateBegin(s, m)
      PROVE  UNCHANGED Prepaid!prepaidVars
  <2>1. \A q \in Sessions : create'[q].pc = "done" <=> create[q].pc = "done"
    BY <1>3 DEF CreateBegin, TypeOK
  <2>2. \A q \in Sessions : Phase(q)' = Phase(q) /\ Until(q)' = Until(q)
    BY <1>3, <2>1 DEF CreateBegin, Phase, Until, PaidUntil, Active, Stored
  <2>. QED BY <1>0, <1>3, <2>2 DEF CreateBegin
<1>4. ASSUME NEW s \in Sessions, CreateCommit(s) PROVE Prepaid!Open(s)
  <2>1. PICK from \in Nat, m \in Minutes, bought \in Nat :
          from = create[s].at /\ m = create[s].minutes /\ bought = m * SecondsPerMinute
    BY <1>4, ProductIsNat DEF CreateCommit, CreditInv, MinutesRequested, TypeOK, CreateRecords
  <2>2. from \in 0..now
    BY <2>1 DEF CreditInv, NothingAhead, TypeOK
  <2>3. /\ create'[s].pc = "done" /\ \A q \in Sessions : q # s => create'[q] = create[q]
        /\ status'[s] = "active" /\ credit'[s] = bought /\ lastBilled'[s] = from
        /\ \A q \in Sessions : q # s =>
             /\ status'[q] = status[q] /\ credit'[q] = credit[q]
             /\ lastBilled'[q] = lastBilled[q]
        /\ sureUntil' = [sureUntil EXCEPT ![s] = from + bought]
        /\ boughtUntil' = [boughtUntil EXCEPT ![s] = from + bought]
        /\ UNCHANGED now
    BY <1>4, <2>1 DEF CreateCommit, TypeOK, CreateRecords
  <2>4. /\ Phase(s) = "none"
        /\ Phase(s)' = "active" /\ Until(s)' = from + bought
        /\ \A q \in Sessions : q # s => Phase(q)' = Phase(q) /\ Until(q)' = Until(q)
    BY <1>4, <2>3 DEF CreateCommit, Phase, Until, PaidUntil, Active, Stored
  <2>5. bought \in {k * SecondsPerMinute : k \in Minutes}
    BY <2>1
  <2>. QED BY <2>2, <2>3, <2>4, <2>5, SameElsewhere DEF Prepaid!Open
<1>5. ASSUME NEW r \in Requests, NEW s \in Sessions, NEW m \in Minutes, TopupCheck(r, s, m)
      PROVE  UNCHANGED Prepaid!prepaidVars
  <2>1. \A q \in Sessions : Phase(q)' = Phase(q) /\ Until(q)' = Until(q)
    BY <1>5 DEF TopupCheck, Phase, Until, PaidUntil, Active, Stored
  <2>. QED BY <1>0, <1>5, <2>1 DEF TopupCheck
<1>6. ASSUME NEW r \in Requests, TopupCredit(r) PROVE Prepaid!Next
  <2>1. PICK s \in Sessions, m \in Minutes, added \in Nat :
          s = topup[r].session /\ m = topup[r].minutes /\ added = m * SecondsPerMinute
    BY <1>6, ProductIsNat DEF TopupCredit, CreditInv, MinutesRequested, TypeOK, TopupRecords
  <2>2. Stored(s)
    BY <1>6, <2>1 DEF TopupCredit, CreditInv, StoredOnly
  <2>3. /\ credit'[s] = credit[s] + added
        /\ status'[s] = "active" <=> status[s] = "active"
        /\ \A q \in Sessions : q # s => status'[q] = status[q] /\ credit'[q] = credit[q]
        /\ boughtUntil' = [boughtUntil EXCEPT ![s] = @ + added]
        /\ UNCHANGED <<now, lastBilled, create>>
    BY <1>6, <2>1 DEF TopupCredit, TypeOK, StatusKept
  <2>9. sureUntil' = IF Unraced(s) THEN [sureUntil EXCEPT ![s] = @ + added] ELSE sureUntil
    BY <1>6, <2>1 DEF TopupCredit
  <2>4. added \in {k * SecondsPerMinute : k \in Minutes}
    BY <2>1
  <2>5. \A q \in Sessions : q # s => Phase(q)' = Phase(q) /\ Until(q)' = Until(q)
    BY <2>3 DEF Phase, Until, PaidUntil, Active, Stored
  <2>6. Phase(s)' = Phase(s)
    BY <2>2, <2>3 DEF Phase, Active, Stored
  <2>7. CASE Active(s)
    <3>1. PaidUntil(s)' = PaidUntil(s) + added
      <4>1. credit[s] \in Int /\ lastBilled[s] \in Nat
        BY DEF TypeOK
      <4>. QED BY <2>3, <4>1 DEF PaidUntil
    <3>2. Until(s) = PaidUntil(s) /\ Until(s)' = Until(s) + added /\ Phase(s) = "active"
      BY <2>2, <2>3, <2>7, <3>1 DEF Until, Phase, Active
    <3>3. UNCHANGED [q \in Sessions |-> Phase(q)]
      BY <2>5, <2>6
    <3>4. PICK sure \in {0, added} : sureUntil' = [sureUntil EXCEPT ![s] = @ + sure]
      <4>1. sureUntil = [sureUntil EXCEPT ![s] = @ + 0]
        BY DEF TypeOK
      <4>. QED BY <2>9, <4>1
    <3>5. [q \in Sessions |-> Until(q)]' = [[q \in Sessions |-> Until(q)] EXCEPT ![s] = @ + added]
      <4>1. [q \in Sessions |-> Until(q)]' =
              [[q \in Sessions |-> Until(q)] EXCEPT ![s] = Until(s) + added]
        BY <2>5, <3>2, SameElsewhere
      <4>. QED BY <4>1
    <3>6. Prepaid!TopUp(s)
      BY <2>3, <2>4, <3>2, <3>3, <3>4, <3>5 DEF Prepaid!TopUp
    <3>. QED BY <3>6 DEF Prepaid!Next
  <2>8. CASE ~Active(s)
    <3>1. Until(s)' = Until(s) /\ Phase(s) = "ended"
      BY <2>2, <2>3, <2>8 DEF Until, Phase, Active
    <3>2. UNCHANGED <<[q \in Sessions |-> Phase(q)], [q \in Sessions |-> Until(q)]>>
      BY <2>5, <2>6, <3>1
    <3>3. sureUntil' = sureUntil
      BY <2>8, <2>9 DEF Unraced
    <3>4. Prepaid!TopUpLate(s)
      BY <2>3, <2>4, <3>1, <3>2, <3>3 DEF Prepaid!TopUpLate
    <3>. QED BY <3>4 DEF Prepaid!Next
  <2>. QED BY <2>7, <2>8
<1>7. ASSUME NEW r \in Requests, TopupReply(r) PROVE UNCHANGED Prepaid!prepaidVars
  <2>1. \A q \in Sessions : Phase(q)' = Phase(q) /\ Until(q)' = Until(q)
    BY <1>7 DEF TopupReply, Phase, Until, PaidUntil, Active, Stored
  <2>. QED BY <1>0, <1>7, <2>1 DEF TopupReply
<1>8. ASSUME NEW t \in Ticks,
             \/ TickStart(t) \/ TickScan(t) \/ TickClean(t) \/ TickPublish(t)
             \/ TickDone(t) \/ TickAbort(t)
             \/ \E s \in Sessions : TickMissing(t, s) \/ TickSkip(t, s) \/ TickDecide(t, s)
      PROVE  UNCHANGED Prepaid!prepaidVars
  <2>1. UNCHANGED <<now, status, credit, lastBilled, create, sureUntil, boughtUntil>>
    BY <1>8 DEF TickStart, TickScan, TickClean, TickPublish, TickDone, TickAbort,
                TickMissing, TickSkip, TickDecide
  <2>2. \A q \in Sessions : Phase(q)' = Phase(q) /\ Until(q)' = Until(q)
    BY <2>1 DEF Phase, Until, PaidUntil, Active, Stored
  <2>. QED BY <1>0, <2>1, <2>2
<1>9. ASSUME NEW t \in Ticks, TickDebit(t)
      PROVE  Prepaid!Next \/ UNCHANGED Prepaid!prepaidVars
  <2>1. PICK s \in Sessions : s = tick[t].cur
    BY <1>9 DEF TypeOK, TickDebit
  <2>2. /\ credit'[s] = tick[t].credit /\ lastBilled'[s] = tick[t].at
        /\ status'[s] = "active" <=> status[s] = "active"
        /\ \A q \in Sessions : q # s =>
             /\ status'[q] = status[q] /\ credit'[q] = credit[q]
             /\ lastBilled'[q] = lastBilled[q]
        /\ UNCHANGED <<now, create, sureUntil, boughtUntil>>
    BY <1>9, <2>1 DEF TickDebit, TypeOK, StatusKept, Debit
  <2>3. /\ Stored(s) /\ sureUntil[s] <= Reading(t) /\ Reading(t) <= boughtUntil[s]
    BY <1>9, <2>1 DEF TickDebit, CreditInv, StoredOnly, ReadingsBounded
  <2>4. Reading(t) \in sureUntil[s] .. boughtUntil[s]
    BY <2>3 DEF Reading, TypeOK, TickRecords
  <2>5. \A q \in Sessions : q # s => Phase(q)' = Phase(q) /\ Until(q)' = Until(q)
    BY <2>2 DEF Phase, Until, PaidUntil, Active, Stored
  <2>6. Phase(s)' = Phase(s)
    BY <2>2 DEF Phase, Active, Stored
  <2>7. CASE Active(s)
    <3>1. Until(s)' = Reading(t) /\ Phase(s) = "active"
      BY <2>2, <2>3, <2>7 DEF Until, Phase, Active, PaidUntil, Reading
    <3>2. UNCHANGED [q \in Sessions |-> Phase(q)]
      BY <2>5, <2>6
    <3>3. Prepaid!Settle(s)
      BY <2>2, <2>4, <2>5, <3>1, <3>2, SameElsewhere DEF Prepaid!Settle
    <3>. QED BY <3>3 DEF Prepaid!Next
  <2>8. CASE ~Active(s)
    <3>1. Until(s)' = Until(s)
      BY <2>2, <2>8 DEF Until, Active
    <3>. QED BY <1>0, <2>2, <2>5, <2>6, <3>1
  <2>. QED BY <2>7, <2>8
<1>10. ASSUME NEW t \in Ticks, TickEvict(t)
       PROVE  Prepaid!Next \/ UNCHANGED Prepaid!prepaidVars
  <2>1. PICK s \in Sessions : s = tick[t].cur
    BY <1>10 DEF TypeOK, TickEvict
  <2>2. /\ status'[s] = "evicted"
        /\ \A q \in Sessions : q # s =>
             /\ status'[q] = status[q] /\ credit'[q] = credit[q]
             /\ lastBilled'[q] = lastBilled[q]
        /\ UNCHANGED <<now, create, sureUntil, boughtUntil>>
    BY <1>10, <2>1 DEF TickEvict, TypeOK, Debit, Unlist
  <2>3. Stored(s) /\ sureUntil[s] <= now
    <3>1. /\ Stored(s) /\ sureUntil[s] <= tick[t].at + tick[t].credit
          /\ tick[t].credit <= 0 /\ tick[t].at <= now
      BY <1>10, <2>1 DEF TickEvict, CreditInv, StoredOnly, ReadingsBounded, NothingAhead, Reading
    <3>2. /\ now \in Nat /\ sureUntil[s] \in Nat
          /\ tick[t].at \in Nat /\ tick[t].credit \in Int
      BY DEF TypeOK, TickRecords
    <3>. QED BY <3>1, <3>2
  <2>4. /\ \A q \in Sessions : q # s => Phase(q)' = Phase(q) /\ Until(q)' = Until(q)
        /\ Phase(s)' = "ended" /\ Until(s)' = 0
    BY <2>2, <2>3 DEF Phase, Until, PaidUntil, Active, Stored
  <2>5. CASE Active(s)
    <3>1. Phase(s) = "active"
      BY <2>3, <2>5 DEF Phase
    <3>2. Prepaid!Close(s)
      BY <2>2, <2>3, <2>4, <3>1, SameElsewhere DEF Prepaid!Close
    <3>. QED BY <3>2 DEF Prepaid!Next
  <2>6. CASE ~Active(s)
    <3>1. Phase(s) = "ended" /\ Until(s) = 0
      BY <2>3, <2>6 DEF Phase, Until
    <3>. QED BY <1>0, <2>2, <2>4, <3>1
  <2>. QED BY <2>5, <2>6
<1>11. CASE UNCHANGED vars
  <2>1. \A q \in Sessions : Phase(q)' = Phase(q) /\ Until(q)' = Until(q)
    BY <1>11 DEF vars, Phase, Until, PaidUntil, Active, Stored
  <2>. QED BY <1>0, <1>11, <2>1 DEF vars
<1>. QED
  BY <1>1, <1>2, <1>3, <1>4, <1>5, <1>6, <1>7, <1>8, <1>9, <1>10, <1>11
     DEF Next, CreateStep, TopupStep, TickStep, Prepaid!Next

(* The API's create and topup handlers together with the billing worker    *)
(* implement the prepaid-session contract.                                 *)
THEOREM RefinesPrepaid == Spec => ImplementsPrepaid
<1>1. Init => Prepaid!Init
  BY DEF Init, Prepaid!Init, Phase, Until, Stored, Active
<1>2. TypeOK /\ CreditInv /\ [Next]_vars => [Prepaid!Next]_(Prepaid!prepaidVars)
  BY RefinesStep
<1>. QED
  BY <1>1, <1>2, TypeCorrect, CreditInvariant, PTL DEF Spec, ImplementsPrepaid, Prepaid!Spec
===============================================================================
