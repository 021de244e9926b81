---------------------------- MODULE SessionCredit ----------------------------
(***************************************************************************)
(* The credit of a session, as the API and the billing worker keep it in   *)
(* the Redis hash session:{id}.  The API creates the hash and adds credit  *)
(* to it; billing ticks read it, debit the time that passed since the last *)
(* debit, and evict the session when nothing is left.  Every Redis command *)
(* (or MULTI block) is one step; the steps of different handlers and of    *)
(* different ticks interleave.  Ticks overlap: setInterval does not wait   *)
(* for the async callback, and nothing keeps a second worker from running. *)
(***************************************************************************)
EXTENDS Integers

CONSTANTS
  Sessions,          \* session ids (uuidv4: never reused)
  Requests,          \* topup requests, each made once
  Ticks,             \* billing ticks that may be in flight together
  Minutes,           \* the purchases a client may ask for, in minutes
  MinCreateMinutes,  \* config.minimumCreateMinutes
  SecondsPerMinute,  \* 60 in the code
  RecordTtl,         \* life of an evicted hash: 24 h in the code
  MaxTime,           \* bound: the clock stops here
  MaxAborts,         \* bound: how often a tick may die half way
  None               \* no session, no request

ASSUME CreditAssumption ==
  /\ Minutes \subseteq Nat \ {0}
  /\ MinCreateMinutes \in Nat
  /\ SecondsPerMinute \in Nat \ {0}
  /\ RecordTtl \in Nat
  /\ MaxTime \in Nat
  /\ MaxAborts \in Nat
  /\ None \notin Sessions

VARIABLES
  now,         \* nowUnixSeconds()
  status,      \* status[s]: the hash field; "absent" when there is no hash,
               \* "nofield" when the hash has no status field
  credit,      \* credit[s]: field credit_seconds, 0 when missing
  lastBilled,  \* lastBilled[s]: field last_billed_at, 0 when missing
  expireAt,    \* expireAt[s]: when Redis drops an evicted hash
  activeSet,   \* the set sessions:active
  create,      \* create[s]: the POST /session/create handler of s
  topup,       \* topup[r]: the POST /session/:id/topup handler of r
  tick,        \* tick[t]: a runBillingTick invocation
  announced,   \* sessions for which PEER_EVICT has been published
  aborts,      \* ticks that died half way
  orphaned,    \* history: sessions whose tick died between marking them
               \* evicted and publishing PEER_EVICT
  sureUntil,   \* history: end of the time s was created with and of the
               \* topups that raced with no tick and reached s active
  boughtUntil  \* history: end of all the time bought for s

hashVars    == <<status, credit, lastBilled, expireAt, activeSet>>
deathVars   == <<aborts, orphaned>>
historyVars == <<sureUntil, boughtUntil>>
vars == <<now, hashVars, create, topup, tick, announced, deathVars, historyVars>>

Statuses == {"absent", "active", "evicted", "nofield"}
NoTopup  == [pc |-> "none", session |-> None, minutes |-> 0, newCredit |-> 0,
             newExpiresAt |-> 0]
IdleTick == [pc |-> "idle", at |-> 0, todo |-> {}, cur |-> None, credit |-> 0]

Max0(n) == IF n > 0 THEN n ELSE 0

-------------------------------------------------------------------------------
(* What a hash says, as the readers compute it.                            *)

Active(s)    == status[s] = "active"
PaidUntil(s) == lastBilled[s] + credit[s]

(* computeEffectiveCreditSeconds, for a reader that took the time at `at`. *)
EffectiveCredit(s, at) ==
  IF Active(s) THEN Max0(credit[s] - Max0(at - lastBilled[s]))
               ELSE Max0(credit[s])

(* computeBillingUpdate, for a tick that started at `at`.                  *)
Elapsed(s, at)   == Max0(at - lastBilled[s])
Remaining(s, at) == credit[s] - Elapsed(s, at)

ChargeableAnyStatus(s, at) == Elapsed(s, at) > 0  \* mutant: status not looked at
Chargeable(s, at) == Active(s) /\ Elapsed(s, at) > 0

ExhaustedEarly(left) == left <= SecondsPerMinute  \* mutant: low credit is no credit
ExhaustedLate(left) == left < 0  \* mutant: nothing left is not yet exhausted
Exhausted(left) == left <= 0

VerdictUnmarked(left) ==  \* mutant: announced without being marked evicted
  IF Exhausted(left) THEN "publish" ELSE "debit"
Verdict(left) == IF Exhausted(left) THEN "evict" ELSE "debit"

(* What the writers do to it.                                              *)

(* Writing one field of a missing hash creates it without the others.      *)
StatusMadeActive(st) == "active"  \* mutant: the write carries the status it saw
StatusKept(st) == IF st = "absent" THEN "nofield" ELSE st

SetKept(s) == UNCHANGED activeSet  \* mutant of List and of Unlist
List(s) == activeSet' = activeSet \cup {s}
Unlist(s) == activeSet' = activeSet \ {s}

DebitRereadsClock(s, left, at) ==  \* mutant: dated with the time of the write
  credit' = [credit EXCEPT ![s] = left] /\ lastBilled' = [lastBilled EXCEPT ![s] = now]
Debit(s, left, at) ==
  credit' = [credit EXCEPT ![s] = left] /\ lastBilled' = [lastBilled EXCEPT ![s] = at]

AnnounceNothing(s) == UNCHANGED announced  \* mutant: the event is not published
Announce(s) == announced' = announced \cup {s}

-------------------------------------------------------------------------------
Init ==
  /\ now = 0
  /\ status = [s \in Sessions |-> "absent"]
  /\ credit = [s \in Sessions |-> 0]
  /\ lastBilled = [s \in Sessions |-> 0]
  /\ expireAt = [s \in Sessions |-> 0]
  /\ activeSet = {}
  /\ create = [s \in Sessions |-> [pc |-> "none", at |-> 0, minutes |-> 0]]
  /\ topup = [r \in Requests |-> NoTopup]
  /\ tick = [t \in Ticks |-> IdleTick]
  /\ announced = {}
  /\ aborts = 0
  /\ orphaned = {}
  /\ sureUntil = [s \in Sessions |-> 0]
  /\ boughtUntil = [s \in Sessions |-> 0]

TimePasses ==
  /\ now < MaxTime
  /\ now' = now + 1
  /\ UNCHANGED <<hashVars, create, topup, tick, announced, deathVars, historyVars>>

(* Redis drops the hash of an evicted session when its TTL runs out.       *)
ExpireKey(s) ==
  /\ status[s] = "evicted"
  /\ expireAt[s] <= now
  /\ expireAt' = [expireAt EXCEPT ![s] = 0]
  /\ status' = [status EXCEPT ![s] = "absent"]
  /\ credit' = [credit EXCEPT ![s] = 0]
  /\ lastBilled' = [lastBilled EXCEPT ![s] = 0]
  /\ UNCHANGED <<now, activeSet, create, topup, tick, announced, deathVars,
                 historyVars>>

-------------------------------------------------------------------------------
(* POST /session/create: the clock is read first, the session is stored in *)
(* one MULTI after several other round trips.                              *)

CreateBegin(s, m) ==
  /\ create[s].pc = "none"
  /\ m >= MinCreateMinutes
  /\ create' = [create EXCEPT ![s] = [pc |-> "begun", at |-> now, minutes |-> m]]
  /\ UNCHANGED <<now, hashVars, topup, tick, announced, deathVars, historyVars>>

CreateCommit(s) ==
  LET bought == create[s].minutes * SecondsPerMinute
      end    == create[s].at + bought
  IN  /\ create[s].pc = "begun"
      /\ create' = [create EXCEPT ![s].pc = "done"]
      /\ status' = [status EXCEPT ![s] = "active"]
      /\ credit' = [credit EXCEPT ![s] = bought]
      /\ lastBilled' = [lastBilled EXCEPT ![s] = create[s].at]
      /\ List(s)
      /\ sureUntil' = [sureUntil EXCEPT ![s] = end]
      /\ boughtUntil' = [boughtUntil EXCEPT ![s] = end]
      /\ UNCHANGED <<now, expireAt, topup, tick, announced, deathVars>>

-------------------------------------------------------------------------------
(* POST /session/:id/topup: read and check the session, HINCRBY its        *)
(* credit, then read the clock for the reply.                              *)

(* Mutant: the handler goes on without the session it looked up.           *)
TopupCheckForgets(r, s, m) ==
  /\ topup[r].pc = "none"
  /\ Active(s)
  /\ topup' = [topup EXCEPT ![r].pc = "checked", ![r].minutes = m]
  /\ UNCHANGED <<now, hashVars, create, tick, announced, deathVars, historyVars>>

TopupCheck(r, s, m) ==
  /\ topup[r].pc = "none"
  /\ Active(s)
  /\ topup' = [topup EXCEPT ![r].pc = "checked", ![r].session = s, ![r].minutes = m]
  /\ UNCHANGED <<now, hashVars, create, tick, announced, deathVars, historyVars>>

(* A tick holds a reading of s that it will act on. *)
HoldsReading(t, s) == tick[t].cur = s /\ tick[t].pc \in {"debit", "evict"}
Unraced(s) == Active(s) /\ \A t \in Ticks : ~HoldsReading(t, s)

(* HINCRBY creates the key, with this one field, when there is none.       *)
TopupCredit(r) ==
  LET s     == topup[r].session
      added == topup[r].minutes * SecondsPerMinute
  IN  /\ topup[r].pc = "checked"
      /\ topup' = [topup EXCEPT ![r].pc = "credited", ![r].newCredit = credit[s] + added]
      /\ credit' = [credit EXCEPT ![s] = @ + added]
      /\ status' = [status EXCEPT ![s] = StatusKept(@)]
      /\ boughtUntil' = [boughtUntil EXCEPT ![s] = @ + added]
      /\ sureUntil' = IF Unraced(s) THEN [sureUntil EXCEPT ![s] = @ + added]
                                    ELSE sureUntil
      /\ UNCHANGED <<now, lastBilled, expireAt, activeSet, create, tick, announced,
                     deathVars>>

TopupReply(r) ==
  /\ topup[r].pc = "credited"
  /\ topup' = [topup EXCEPT ![r].pc = "done",
                           ![r].newExpiresAt = now + Max0(topup[r].newCredit)]
  /\ UNCHANGED <<now, hashVars, create, tick, announced, deathVars, historyVars>>

-------------------------------------------------------------------------------
(* runBillingTick                                                          *)

TickStart(t) ==
  /\ tick[t].pc = "idle"
  /\ tick' = [tick EXCEPT ![t].pc = "scan", ![t].at = now]
  /\ UNCHANGED <<now, hashVars, create, topup, announced, deathVars, historyVars>>

TickScan(t) ==
  /\ tick[t].pc = "scan"
  /\ tick' = [tick EXCEPT ![t].pc = "loop", ![t].todo = activeSet]
  /\ UNCHANGED <<now, hashVars, create, topup, announced, deathVars, historyVars>>

(* getSession and computeBillingUpdate: three ways to go on with session s *)
TickMissing(t, s) ==
  /\ tick[t].pc = "loop" /\ s \in tick[t].todo
  /\ status[s] = "absent"
  /\ tick' = [tick EXCEPT ![t].pc = "clean", ![t].cur = s, ![t].todo = @ \ {s}]
  /\ UNCHANGED <<now, hashVars, create, topup, announced, deathVars, historyVars>>

TickSkip(t, s) ==
  /\ tick[t].pc = "loop" /\ s \in tick[t].todo
  /\ status[s] # "absent"
  /\ ~Chargeable(s, tick[t].at)
  /\ tick' = [tick EXCEPT ![t].todo = @ \ {s}]
  /\ UNCHANGED <<now, hashVars, create, topup, announced, deathVars, historyVars>>

TickDecide(t, s) ==
  LET left == Remaining(s, tick[t].at)
  IN  /\ tick[t].pc = "loop" /\ s \in tick[t].todo
      /\ Chargeable(s, tick[t].at)
      /\ tick' = [tick EXCEPT ![t].pc = Verdict(left), ![t].cur = s,
                              ![t].credit = left, ![t].todo = @ \ {s}]
      /\ UNCHANGED <<now, hashVars, create, topup, announced, deathVars, historyVars>>

TickClean(t) ==
  /\ tick[t].pc = "clean"
  /\ Unlist(tick[t].cur)
  /\ tick' = [tick EXCEPT ![t].pc = "loop", ![t].cur = None]
  /\ UNCHANGED <<now, status, credit, lastBilled, expireAt, create, topup,
                 announced, deathVars, historyVars>>

(* HSET of two fields; the status field is not rewritten.                  *)
TickDebit(t) ==
  LET s == tick[t].cur
  IN  /\ tick[t].pc = "debit"
      /\ Debit(s, tick[t].credit, tick[t].at)
      /\ status' = [status EXCEPT ![s] = StatusKept(@)]
      /\ tick' = [tick EXCEPT ![t].pc = "loop", ![t].cur = None, ![t].credit = 0]
      /\ UNCHANGED <<now, expireAt, activeSet, create, topup, announced, deathVars,
                     historyVars>>

(* markSessionEvicted, one MULTI: HSET, SREM and EXPIRE.                   *)
TickEvict(t) ==
  LET s == tick[t].cur
  IN  /\ tick[t].pc = "evict"
      /\ status' = [status EXCEPT ![s] = "evicted"]
      /\ Debit(s, 0, tick[t].at)
      /\ expireAt' = [expireAt EXCEPT ![s] = now + RecordTtl]
      /\ Unlist(s)
      /\ tick' = [tick EXCEPT ![t].pc = "publish", ![t].credit = 0]
      /\ UNCHANGED <<now, create, topup, announced, deathVars, historyVars>>

TickPublish(t) ==
  /\ tick[t].pc = "publish"
  /\ Announce(tick[t].cur)
  /\ tick' = [tick EXCEPT ![t].pc = "loop", ![t].cur = None]
  /\ UNCHANGED <<now, hashVars, create, topup, deathVars, historyVars>>

TickDone(t) ==
  /\ tick[t].pc = "loop" /\ tick[t].todo = {}
  /\ tick' = [tick EXCEPT ![t] = IdleTick]
  /\ UNCHANGED <<now, hashVars, create, topup, announced, deathVars, historyVars>>

(* A Redis call throws, or the process is stopped: the tick is abandoned.  *)
TickAbort(t) ==
  /\ tick[t].pc # "idle"
  /\ aborts < MaxAborts
  /\ aborts' = aborts + 1
  /\ orphaned' = orphaned \cup {s \in Sessions : tick[t].pc = "publish" /\ tick[t].cur = s}
  /\ tick' = [tick EXCEPT ![t] = IdleTick]
  /\ UNCHANGED <<now, hashVars, create, topup, announced, historyVars>>

-------------------------------------------------------------------------------
TickStep(t) ==
  \/ TickStart(t) \/ TickScan(t) \/ TickClean(t) \/ TickDebit(t)
  \/ TickEvict(t) \/ TickPublish(t) \/ TickDone(t)
  \/ \E s \in Sessions : TickMissing(t, s) \/ TickSkip(t, s) \/ TickDecide(t, s)

CreateStep(s) == (\E m \in Minutes : CreateBegin(s, m)) \/ CreateCommit(s)

TopupStep(r) ==
  \/ \E s \in Sessions, m \in Minutes : TopupCheck(r, s, m)
  \/ TopupCredit(r) \/ TopupReply(r)

Next ==
  \/ TimePasses
  \/ \E s \in Sessions : ExpireKey(s) \/ CreateStep(s)
  \/ \E r \in Requests : TopupStep(r)
  \/ \E t \in Ticks : TickStep(t) \/ TickAbort(t)

Spec == Init /\ [][Next]_vars

(* The interval timer keeps starting ticks and a tick in flight goes on.   *)
FairSpec == Spec /\ \A t \in Ticks : WF_vars(TickStep(t))

-------------------------------------------------------------------------------
CreateRecords == [pc : {"none", "begun", "done"}, at : Nat, minutes : Nat]
TopupRecords == [pc : {"none", "checked", "credited", "done"},
                 session : Sessions \cup {None}, minutes : Nat,
                 newCredit : Int, newExpiresAt : Int]
TickRecords == [pc : {"idle", "scan", "loop", "clean", "debit", "evict", "publish"},
                at : Nat, todo : SUBSET Sessions, cur : Sessions \cup {None},
                credit : Int]

(* Every variable has its type, and a tick that acts on a session has one. *)
TypeOK ==
  /\ now \in Nat
  /\ status \in [Sessions -> Statuses]
  /\ credit \in [Sessions -> Int]
  /\ lastBilled \in [Sessions -> Nat]
  /\ expireAt \in [Sessions -> Nat]
  /\ activeSet \in SUBSET Sessions
  /\ create \in [Sessions -> CreateRecords]
  /\ topup \in [Requests -> TopupRecords]
  /\ tick \in [Ticks -> TickRecords]
  /\ announced \in SUBSET Sessions
  /\ aborts \in Nat
  /\ orphaned \in SUBSET Sessions
  /\ sureUntil \in [Sessions -> Nat]
  /\ boughtUntil \in [Sessions -> Nat]
  /\ \A t \in Ticks :
       tick[t].pc \in {"clean", "debit", "evict", "publish"} => tick[t].cur \in Sessions
  /\ \A r \in Requests : topup[r].pc # "none" => topup[r].session \in Sessions

(* Whatever ticks and topups overlap, billing never takes a session below  *)
(* the time it was created and, outside the read-to-write windows of the   *)
(* ticks, topped up with, nor leaves it more than was bought: no second is *)
(* charged twice by two ticks (worker.js:52-58 writes absolute values),    *)
(* none is given away, and a topup that is lost takes no other with it.    *)
CreditWithinPurchases ==
  \A s \in Sessions :
    Active(s) => sureUntil[s] <= PaidUntil(s) /\ PaidUntil(s) <= boughtUntil[s]

(* Until its sure time is over a stored session is active, and the credit  *)
(* that /session/me and /fetch compute for it, with a clock read as long   *)
(* ago as it may be (server.js:123), covers at least the rest of it.       *)
PaidTimeHonoured ==
  \A s \in Sessions :
    create[s].pc = "done" /\ now < sureUntil[s] =>
      Active(s) /\ \A at \in 0 .. now : EffectiveCredit(s, at) >= sureUntil[s] - now

(* An active session has credit, however its last debit and topups mixed:  *)
(* /fetch, whose clock may be older than the debit, and then takes the     *)
(* credit as it stands, never refuses a session for a debit to nothing.    *)
ActiveHasCredit == \A s \in Sessions : Active(s) => credit[s] > 0

(* sessions:active lists exactly the sessions whose hash is active: every  *)
(* active session will be billed, and no dead entry is scanned forever.    *)
ActiveSetExact == activeSet = {s \in Sessions : Active(s)}

(* PEER_EVICT is published only for sessions already marked evicted, so an *)
(* agent that acts on the event, or a resync after it, finds no active     *)
(* session behind it (worker.js:61-62).                                    *)
MarkedBeforeAnnounced == \A s \in announced : ~Active(s)

(* A session that is no longer active is announced, or a tick is about to  *)
(* announce it, or the very tick that had marked it died before it         *)
(* published (worker.js:61-62): a tick that dies anywhere else, on another *)
(* session or before the mark, leaves no peer nobody will look at again.   *)
NoneUnannounced ==
  \A s \in Sessions : create[s].pc = "done" /\ ~Active(s) =>
    \/ s \in announced \/ s \in orphaned
    \/ \E t \in Ticks : tick[t].pc = "publish" /\ tick[t].cur = s

-------------------------------------------------------------------------------
(* Why the above holds: the invariant that every step preserves.           *)

Stored(s)   == create[s].pc = "done"
Reading(t)  == tick[t].at + tick[t].credit   \* paid-until, as tick t read it

(* Only stored sessions are in anybody's hands, and an announced or        *)
(* abandoned one never becomes active again.                               *)
StoredOnly ==
  /\ \A s \in Sessions : status[s] # "absent" => Stored(s)
  /\ \A r \in Requests : topup[r].pc # "none" => Stored(topup[r].session)
  /\ \A t \in Ticks :
       /\ \A s \in tick[t].todo : Stored(s)
       /\ tick[t].pc \in {"clean", "debit", "evict", "publish"} => Stored(tick[t].cur)
       /\ tick[t].pc \in {"clean", "publish"} => ~Active(tick[t].cur)
  /\ \A s \in announced : Stored(s) /\ ~Active(s)

(* The minutes a handler works with are those of a valid request.          *)
MinutesRequested ==
  /\ \A s \in Sessions : create[s].pc # "none" => create[s].minutes \in Minutes
  /\ \A r \in Requests : topup[r].pc # "none" => topup[r].minutes \in Minutes

(* Nothing is dated in the future, and a session that is stored but no     *)
(* longer active has used up what it was created with.                     *)
NothingAhead ==
  /\ \A s \in Sessions :
       /\ create[s].at <= now
       /\ lastBilled[s] <= now
       /\ Stored(s) /\ ~Active(s) => sureUntil[s] <= now
  /\ \A t \in Ticks : tick[t].at <= now

(* What a tick read obeys the same bounds as the hash; it evicts only on   *)
(* an empty reading, and debits to one that is not.                        *)
ReadingsBounded ==
  \A t \in Ticks :
    tick[t].pc \in {"debit", "evict"} =>
      LET s == tick[t].cur
      IN  /\ sureUntil[s] <= Reading(t) /\ Reading(t) <= boughtUntil[s]
          /\ tick[t].pc = "evict" <=> tick[t].credit <= 0

CreditInv ==
  /\ StoredOnly
  /\ MinutesRequested
  /\ NothingAhead
  /\ ReadingsBounded
  /\ CreditWithinPurchases
  /\ ActiveHasCredit
  /\ ActiveSetExact

-------------------------------------------------------------------------------
(* What a buyer sees of the hash.                                          *)
Phase(s) == IF ~Stored(s) THEN "none" ELSE IF Active(s) THEN "active" ELSE "ended"
Until(s) == IF Active(s) THEN PaidUntil(s) ELSE 0

Prepaid == INSTANCE PrepaidSession WITH
  Amounts <- {m * SecondsPerMinute : m \in Minutes},
  clock   <- now,
  phase   <- [s \in Sessions |-> Phase(s)],
  until   <- [s \in Sessions |-> Until(s)]

(* The API handlers and billing implement the prepaid-session contract: an *)
(* ended session never comes back, none ends before its sure time is over, *)
(* and nobody moves the paid-until moment outside what was bought.         *)
ImplementsPrepaid == Prepaid!Spec

(* Every session whose credit is used up is evicted or topped up; the      *)
(* 30-second interval gives each tick weak fairness (README.md:6).         *)
ExhaustedEvicted ==
  \A s \in Sessions :
    (Active(s) /\ PaidUntil(s) <= now) ~> (~Active(s) \/ PaidUntil(s) > now)

(* Carried through to the publication: an exhausted session is announced   *)
(* to its region's agent, unless a topup reached it or the tick that had   *)
(* marked it died before it published.                                     *)
ExhaustedAnnounced ==
  \A s \in Sessions :
    (Active(s) /\ PaidUntil(s) <= now)
      ~> (s \in announced \/ boughtUntil[s] > now \/ s \in orphaned)

(* A purchase is never lost: an active session keeps all the time bought.  *)
NoPurchaseLost ==
  \A s \in Sessions : Active(s) => PaidUntil(s) = boughtUntil[s]

(* When a topup is answered, the hash honours the expiry the answer tells. *)
PromiseKept ==
  [][\A r \in Requests :
       LET s == topup[r].session
       IN  topup[r].pc = "credited" /\ topup'[r].pc = "done" /\ Active(s) =>
             topup'[r].newExpiresAt <= PaidUntil(s)]_vars
===============================================================================
