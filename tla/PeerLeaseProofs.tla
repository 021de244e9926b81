---------------------------- MODULE PeerLeaseProofs ----------------------------
(***************************************************************************)
(* Who holds an address: theorems about PeerLifecycle for any number of    *)
(* sessions, addresses, keys and mishaps.                                  *)
(***************************************************************************)
EXTENDS PeerLifecycleProofs

-------------------------------------------------------------------------------
(* What a step may do to each variable the leases depend on.               *)

Over(s)     == create[s] \in {"done", "failed", "dead"}
Ended(s)    == status[s] = "evicted" /\ Over(s)
Cleaning(s) == agent.pc \in {"untrack", "release"} /\ agent.cur = s

LEMMA SeederFrame ==
  ASSUME TypeOK, Next
  PROVE  \/ UNCHANGED seeder
         \/ \E d \in Seeders : SeedStep(d)
<1>1. ASSUME NEW s \in Sessions, CreateStep(s) PROVE UNCHANGED seeder
  BY <1>1 DEF CreateStep, CreatePop, CreateNoAddress, CreateUnconfigured, CreateStore,
              CreatePublish, CreateFailsUnstored, CreateFailsStored, CreateDies
<1>2. ASSUME NEW t \in Ticks, TickStep(t) PROVE UNCHANGED seeder
  BY <1>2 DEF TickStep, TickFindsExhausted, TickEvict, TickPublish, TickDies
<1>3. ASSUME AgentHandles \/ AgentCallFails \/ EventLost \/ AgentDies PROVE UNCHANGED seeder
  BY <1>3 DEF AgentHandles, AgentStart, ResyncRead, ResyncApply, AgentSubscribe, HandleAdd,
              TrackPeer, HandleEvict, UntrackPeer, ReleaseAddress, AgentCallFails,
              EventLost, AgentDies
<1>. QED BY <1>1, <1>2, <1>3 DEF Next

CreationFails(s) ==
  /\ \/ create[s] = "popped"
     \/ create[s] = "stored" /\ "create fails stored" \in Mishaps
  /\ create' = [create EXCEPT ![s] = "failed"]

LEMMA PoolFrame ==
  ASSUME TypeOK, Next
  PROVE  \/ UNCHANGED <<pool, returned, ip>>
         \/ (\E d \in Seeders : SeedFill(d)) /\ UNCHANGED <<returned, ip>>
         \/ \E s \in Sessions, k \in Keys : CreatePop(s, k)
         \/ \E s \in Sessions : GiveBack(s) /\ UNCHANGED ip
              /\ \/ ReleaseAddress /\ s = agent.cur /\ UNCHANGED create
                 \/ CreationFails(s)
<1>1. ASSUME NEW d \in Seeders, SeedStep(d)
      PROVE  UNCHANGED <<pool, returned, ip>> \/ (SeedFill(d) /\ UNCHANGED <<returned, ip>>)
  BY <1>1 DEF SeedStep, SeedCount, SeedFill
<1>2. ASSUME NEW s \in Sessions, CreateStep(s)
      PROVE  \/ UNCHANGED <<pool, returned, ip>>
             \/ \E k \in Keys : CreatePop(s, k)
             \/ GiveBack(s) /\ UNCHANGED ip /\ CreationFails(s)
  BY <1>2 DEF CreationFails, CreateStep, CreateNoAddress, CreateUnconfigured, CreateStore,
              CreatePublish, CreateFailsUnstored, CreateFailsStored, CreateDies, Mishap
<1>3. ASSUME NEW t \in Ticks, TickStep(t) PROVE UNCHANGED <<pool, returned, ip>>
  BY <1>3 DEF TickStep, TickFindsExhausted, TickEvict, TickPublish, TickDies
<1>4. CASE AgentHandles
  <2>1. ASSUME ~ReleaseAddress PROVE UNCHANGED <<pool, returned, ip>>
    BY <1>4, <2>1 DEF AgentHandles, AgentStart, ResyncRead, ResyncApply, AgentSubscribe,
                      HandleAdd, TrackPeer, HandleEvict, UntrackPeer
  <2>2. ASSUME ReleaseAddress
        PROVE  /\ agent.cur \in Sessions /\ GiveBack(agent.cur)
               /\ UNCHANGED <<ip, create>>
    BY <2>2 DEF ReleaseAddress, TypeOK
  <2>. QED BY <2>1, <2>2
<1>5. CASE AgentCallFails \/ EventLost \/ AgentDies
  BY <1>5 DEF AgentCallFails, EventLost, AgentDies
<1>. QED BY <1>1, <1>2, <1>3, <1>4, <1>5 DEF Next

LEMMA CreateFrame ==
  ASSUME TypeOK, Next, NEW s \in Sessions
  PROVE  \/ create'[s] = create[s]
         \/ /\ create[s] \in {"none", "popped"} /\ create'[s] \in {"popped", "failed", "dead"}
            /\ status'[s] = status[s]
         \/ CreateStore(s)
         \/ create[s] = "stored" /\ create'[s] \in {"done", "failed", "dead"}
<1>1. ASSUME NEW d \in Seeders, SeedStep(d) PROVE UNCHANGED create
  BY <1>1 DEF SeedStep, SeedCount, SeedFill
<1>2. ASSUME NEW q \in Sessions, CreateStep(q)
      PROVE  \/ create'[s] = create[s]
             \/ /\ create[s] \in {"none", "popped"} /\ create'[s] \in {"popped", "failed", "dead"}
                /\ status'[s] = status[s]
             \/ CreateStore(s)
             \/ create[s] = "stored" /\ create'[s] \in {"done", "failed", "dead"}
  <2>1. create \in [Sessions -> {"none", "popped", "stored", "done", "failed", "dead"}]
    BY DEF TypeOK
  <2>2. ASSUME NEW k \in Keys, CreatePop(q, k)
        PROVE create[q] = "none" /\ create' = [create EXCEPT ![q] = "popped"] /\ status' = status
    BY <2>2 DEF CreatePop
  <2>3. CASE CreateNoAddress(q) \/ CreateUnconfigured(q) \/ CreateFailsUnstored(q)
    BY <2>1, <2>3 DEF CreateNoAddress, CreateUnconfigured, CreateFailsUnstored
  <2>4. CASE CreateStore(q)
    BY <2>1, <2>4 DEF CreateStore
  <2>5. CASE CreatePublish(q) \/ CreateFailsStored(q)
    BY <2>1, <2>5 DEF CreatePublish, CreateFailsStored
  <2>6. CASE CreateDies(q)
    BY <2>1, <2>6 DEF CreateDies
  <2>. QED BY <1>2, <2>1, <2>2, <2>3, <2>4, <2>5, <2>6 DEF CreateStep
<1>3. ASSUME NEW t \in Ticks, TickStep(t) PROVE UNCHANGED create
  BY <1>3 DEF TickStep, TickFindsExhausted, TickEvict, TickPublish, TickDies
<1>4. ASSUME AgentHandles \/ AgentCallFails \/ EventLost \/ AgentDies PROVE UNCHANGED create
  BY <1>4 DEF AgentHandles, AgentStart, ResyncRead, ResyncApply, AgentSubscribe, HandleAdd,
              TrackPeer, HandleEvict, UntrackPeer, ReleaseAddress, AgentCallFails,
              EventLost, AgentDies
<1>. QED BY <1>1, <1>2, <1>3, <1>4 DEF Next

LEMMA StatusFrame ==
  ASSUME TypeOK, KnownInv, Next, NEW s \in Sessions
  PROVE  \/ status'[s] = status[s]
         \/ CreateStore(s)
         \/ \E t \in Ticks : TickEvict(t) /\ s = tick[t].cur /\ status'[s] = "evicted"
<1>1. status \in [Sessions -> {"absent", "active", "evicted"}]
  BY DEF TypeOK
<1>2. ASSUME NEW d \in Seeders, SeedStep(d) PROVE UNCHANGED status
  BY <1>2 DEF SeedStep, SeedCount, SeedFill
<1>3. ASSUME NEW q \in Sessions, CreateStep(q)
      PROVE  status'[s] = status[s] \/ CreateStore(s)
  <2>1. CASE CreateStore(q)
    BY <1>1, <2>1 DEF CreateStore
  <2>. QED
    BY <1>3, <2>1 DEF CreateStep, CreatePop, CreateNoAddress, CreateUnconfigured,
                      CreatePublish, CreateFailsUnstored, CreateFailsStored, CreateDies
<1>4. ASSUME NEW t \in Ticks, TickStep(t)
      PROVE  \/ status'[s] = status[s]
             \/ TickEvict(t) /\ s = tick[t].cur /\ status'[s] = "evicted"
  <2>1. CASE TickEvict(t)
    BY <1>1, <2>1 DEF TickEvict
  <2>. QED BY <1>4, <2>1 DEF TickStep, TickFindsExhausted, TickPublish, TickDies
<1>5. ASSUME AgentHandles \/ AgentCallFails \/ EventLost \/ AgentDies PROVE UNCHANGED status
  BY <1>5 DEF AgentHandles, AgentStart, ResyncRead, ResyncApply, AgentSubscribe, HandleAdd,
              TrackPeer, HandleEvict, UntrackPeer, ReleaseAddress, AgentCallFails,
              EventLost, AgentDies
<1>. QED BY <1>2, <1>3, <1>4, <1>5 DEF Next

LEMMA TickFrame ==
  ASSUME TypeOK, Next, NEW t \in Ticks
  PROVE  \/ tick'[t] = tick[t]
         \/ tick'[t].pc = "idle"
         \/ \E s \in Sessions : TickFindsExhausted(t, s)
                                /\ tick'[t].pc = "evict" /\ tick'[t].cur = s
         \/ TickEvict(t) /\ tick'[t].pc = "publish" /\ tick'[t].cur = tick[t].cur
<1>. DEFINE P == \/ tick'[t] = tick[t]
                 \/ tick'[t].pc = "idle"
                 \/ \E s \in Sessions : TickFindsExhausted(t, s)
                                        /\ tick'[t].pc = "evict" /\ tick'[t].cur = s
                 \/ TickEvict(t) /\ tick'[t].pc = "publish" /\ tick'[t].cur = tick[t].cur
<1>1. tick \in [Ticks -> [pc : {"idle", "evict", "publish"}, cur : Sessions \cup {None}]]
  BY DEF TypeOK
<1>2. ASSUME NEW d \in Seeders, SeedStep(d) PROVE UNCHANGED tick
  BY <1>2 DEF SeedStep, SeedCount, SeedFill
<1>3. ASSUME NEW s \in Sessions, CreateStep(s) PROVE UNCHANGED tick
  BY <1>3 DEF CreateStep, CreatePop, CreateNoAddress, CreateUnconfigured, CreateStore,
              CreatePublish, CreateFailsUnstored, CreateFailsStored, CreateDies
<1>4. ASSUME NEW u \in Ticks, TickStep(u) PROVE P
  <2>1. ASSUME NEW s \in Sessions, TickFindsExhausted(u, s) PROVE P
    BY <1>1, <2>1 DEF TickFindsExhausted
  <2>2. CASE TickEvict(u)
    <3>1. tick'[t] = IF t = u THEN [tick[u] EXCEPT !.pc = "publish"] ELSE tick[t]
      BY <1>1, <2>2 DEF TickEvict
    <3>2. tick[u] \in [pc : {"idle", "evict", "publish"}, cur : Sessions \cup {None}]
      BY <1>1
    <3>. QED BY <2>2, <3>1, <3>2
  <2>3. CASE TickPublish(u) \/ TickDies(u)
    <3>1. tick' = [tick EXCEPT ![u] = IdleTick]
      BY <2>3 DEF TickPublish, TickDies
    <3>. QED BY <1>1, <3>1 DEF IdleTick
  <2>. QED BY <1>4, <2>1, <2>2, <2>3 DEF TickStep
<1>5. ASSUME AgentHandles \/ AgentCallFails \/ EventLost \/ AgentDies PROVE UNCHANGED tick
  BY <1>5 DEF AgentHandles, AgentStart, ResyncRead, ResyncApply, AgentSubscribe, HandleAdd,
              TrackPeer, HandleEvict, UntrackPeer, ReleaseAddress, AgentCallFails,
              EventLost, AgentDies
<1>. QED BY <1>2, <1>3, <1>4, <1>5 DEF Next

LEMMA ChannelFrame ==
  ASSUME TypeOK, Next
  PROVE  \/ UNCHANGED channel
         \/ Len(channel') = 0 /\ UNCHANGED status
         \/ channel # <<>> /\ channel' = Tail(channel)
            /\ UNCHANGED <<tick, create, status, returned>>
         \/ \E s \in Sessions : CreatePublish(s)
         \/ \E t \in Ticks : TickPublish(t)
<1>1. ASSUME NEW d \in Seeders, SeedStep(d) PROVE UNCHANGED channel
  BY <1>1 DEF SeedStep, SeedCount, SeedFill
<1>2. ASSUME NEW s \in Sessions, CreateStep(s) PROVE UNCHANGED channel \/ CreatePublish(s)
  BY <1>2 DEF CreateStep, CreatePop, CreateNoAddress, CreateUnconfigured, CreateStore,
              CreateFailsUnstored, CreateFailsStored, CreateDies
<1>3. ASSUME NEW t \in Ticks, TickStep(t) PROVE UNCHANGED channel \/ TickPublish(t)
  BY <1>3 DEF TickStep, TickFindsExhausted, TickEvict, TickDies
<1>4. CASE AgentHandles
  <2>1. ASSUME HandleAdd \/ HandleEvict
        PROVE  channel # <<>> /\ channel' = Tail(channel)
               /\ UNCHANGED <<tick, create, status, returned>>
    BY <2>1 DEF HandleAdd, HandleEvict, Take
  <2>. QED
    BY <1>4, <2>1 DEF AgentHandles, AgentStart, ResyncRead, ResyncApply, AgentSubscribe,
                      TrackPeer, UntrackPeer, ReleaseAddress
<1>5. CASE AgentCallFails \/ EventLost
  BY <1>5 DEF AgentCallFails, EventLost
<1>6. CASE AgentDies
  <2>1. channel' = <<>> /\ UNCHANGED status
    BY <1>6 DEF AgentDies
  <2>. QED BY <2>1
<1>. QED BY <1>1, <1>2, <1>3, <1>4, <1>5, <1>6 DEF Next

LEMMA CleaningFrame ==
  ASSUME TypeOK, Next, NEW s \in Sessions, Cleaning(s)'
  PROVE  Cleaning(s) \/ (HandleEvict /\ s = Head(channel).session)
<1>1. ASSUME NEW d \in Seeders, SeedStep(d) PROVE UNCHANGED agent
  BY <1>1 DEF SeedStep, SeedCount, SeedFill
<1>2. ASSUME NEW q \in Sessions, CreateStep(q) PROVE UNCHANGED agent
  BY <1>2 DEF CreateStep, CreatePop, CreateNoAddress, CreateUnconfigured, CreateStore,
              CreatePublish, CreateFailsUnstored, CreateFailsStored, CreateDies
<1>3. ASSUME NEW t \in Ticks, TickStep(t) PROVE UNCHANGED agent
  BY <1>3 DEF TickStep, TickFindsExhausted, TickEvict, TickPublish, TickDies
<1>4. agent \in [pc : AgentStates, cur : Sessions \cup {None}, todo : SUBSET Sessions]
  BY DEF TypeOK
<1>5. CASE AgentHandles
  <2>1. CASE HandleEvict
    <3>1. agent' = [pc |-> "untrack", cur |-> Head(channel).session, todo |-> {}]
      BY <2>1 DEF HandleEvict, Take, Ready
    <3>. QED BY <2>1, <3>1 DEF Cleaning
  <2>2. CASE HandleAdd
    <3>1. agent' = [pc |-> "track", cur |-> Head(channel).session, todo |-> {}]
      BY <2>2 DEF HandleAdd, Take, Ready
    <3>. QED BY <3>1 DEF Cleaning
  <2>3. ASSUME AgentStart \/ AgentSubscribe \/ TrackPeer \/ ReleaseAddress
        PROVE  agent'.pc \in {"resync", "ready"}
    BY <2>3 DEF AgentStart, AgentSubscribe, TrackPeer, ReleaseAddress, Ready
  <2>4. ASSUME (\E q \in Sessions : ResyncRead(q)) \/ ResyncApply
        PROVE  agent'.pc \in {"resync", "apply"}
    <3>1. CASE ResyncApply
      BY <1>4, <3>1 DEF ResyncApply
    <3>2. ASSUME NEW q \in Sessions, ResyncRead(q) PROVE agent'.pc \in {"resync", "apply"}
      <4>1. \/ agent' = [pc |-> "apply", cur |-> q, todo |-> agent.todo \ {q}]
            \/ agent' = [agent EXCEPT !.todo = @ \ {q}]
        BY <3>2 DEF ResyncRead
      <4>. QED BY <1>4, <3>2, <4>1 DEF ResyncRead
    <3>. QED BY <2>4, <3>1, <3>2
  <2>5. CASE UntrackPeer
    BY <1>4, <2>5 DEF UntrackPeer, Cleaning
  <2>. QED BY <1>5, <2>1, <2>2, <2>3, <2>4, <2>5 DEF AgentHandles, Cleaning
<1>6. CASE AgentCallFails
  <2>1. \/ UNCHANGED agent
        \/ agent' = Ready
        \/ agent.pc = "untrack" /\ agent' = [agent EXCEPT !.pc = "release"]
        \/ agent' = [agent EXCEPT !.pc = "resync", !.cur = None]
    BY <1>6 DEF AgentCallFails
  <2>2. ASSUME agent' = Ready \/ agent' = [agent EXCEPT !.pc = "resync", !.cur = None]
        PROVE  agent'.pc \in {"ready", "resync"}
    <3>1. CASE agent' = Ready
      BY <3>1 DEF Ready
    <3>2. CASE agent' = [agent EXCEPT !.pc = "resync", !.cur = None]
      BY <1>4, <3>2
    <3>. QED BY <2>2, <3>1, <3>2
  <2>3. ASSUME agent' = [agent EXCEPT !.pc = "release"] PROVE agent'.cur = agent.cur
    BY <1>4, <2>3
  <2>. QED BY <2>1, <2>2, <2>3 DEF Cleaning
<1>7. CASE EventLost
  BY <1>7 DEF EventLost, Cleaning
<1>8. CASE AgentDies
  <2>1. agent'.pc = "down"
    BY <1>8 DEF AgentDies, Down
  <2>. QED BY <2>1 DEF Cleaning
<1>. QED BY <1>1, <1>2, <1>3, <1>5, <1>6, <1>7, <1>8 DEF Next, Cleaning

-------------------------------------------------------------------------------
(* A session is evicted, announced as evicted and cleaned up after only    *)
(* once its creation is over, and what was stored keeps its address until  *)
(* then: unless its creation failed after that.                            *)

FailedStored(s) == "create fails stored" \in Mishaps /\ create[s] = "failed"

EvictInv ==
  /\ \A t \in Ticks : tick[t].pc # "idle" => Over(tick[t].cur)
  /\ \A t \in Ticks : tick[t].pc = "publish" => Ended(tick[t].cur)
  /\ \A i \in 1 .. Len(channel) : channel[i].type = "PEER_EVICT" => Ended(channel[i].session)
  /\ \A s \in Sessions : Cleaning(s) => Ended(s)
  /\ \A s \in Sessions : create[s] = "stored" => Active(s)
  /\ \A s \in Sessions : Active(s) /\ ~FailedStored(s) => returned[s] = 0

LEMMA EvictInit == Init => EvictInv
  BY DEF Init, EvictInv, IdleTick, Ready, Down, Cleaning, Active

LEMMA OverStays ==
  ASSUME TypeOK, Next, NEW s \in Sessions, Over(s)
  PROVE  create'[s] = create[s] /\ Over(s)'
<1>1. ~CreateStore(s)
  BY DEF CreateStore, Over
<1>. QED BY <1>1, CreateFrame DEF Over

LEMMA EndedStays ==
  ASSUME TypeOK, KnownInv, Next, NEW s \in Sessions, Ended(s)
  PROVE  Ended(s)'
<1>1. Over(s)' /\ ~CreateStore(s)
  BY OverStays DEF Ended, CreateStore, Over
<1>. QED BY <1>1, StatusFrame DEF Ended

LEMMA EvictNext ==
  ASSUME TypeOK, TypeOK', KnownInv, EvictInv, Next
  PROVE  EvictInv'
<1>1. ASSUME NEW t \in Ticks, tick'[t].pc # "idle" PROVE Over(tick[t].cur)'
  <2>1. CASE tick'[t] = tick[t]
    <3>1. tick[t].cur \in Sessions /\ Over(tick[t].cur)
      BY <1>1, <2>1 DEF TypeOK, EvictInv
    <3>. QED BY <2>1, <3>1, OverStays DEF Over
  <2>2. ASSUME NEW s \in Sessions, TickFindsExhausted(t, s), tick'[t].cur = s
        PROVE  Over(tick[t].cur)'
    <3>1. create'[s] = create[s] /\ create[s] # "stored" /\ status[s] = "active"
      BY <2>2 DEF TickFindsExhausted, CreditOutlastsHandler
    <3>2. create[s] \in {"done", "failed", "dead"}
      BY <3>1 DEF TypeOK, KnownInv
    <3>. QED BY <2>2, <3>1, <3>2 DEF Over
  <2>3. CASE TickEvict(t) /\ tick'[t].cur = tick[t].cur
    BY <2>3 DEF TickEvict, EvictInv, Over
  <2>. QED BY <1>1, <2>1, <2>2, <2>3, TickFrame
<1>2. ASSUME NEW t \in Ticks, tick'[t].pc = "publish" PROVE Ended(tick[t].cur)'
  <2>1. CASE tick'[t] = tick[t]
    <3>1. tick[t].cur \in Sessions /\ Ended(tick[t].cur)
      BY <1>2, <2>1 DEF TypeOK, EvictInv
    <3>. QED BY <2>1, <3>1, EndedStays DEF Ended, Over
  <2>2. CASE TickEvict(t) /\ tick'[t].cur = tick[t].cur
    <3>1. tick[t].cur \in Sessions /\ status' = [status EXCEPT ![tick[t].cur] = "evicted"]
      BY <2>2 DEF TickEvict, TypeOK
    <3>. QED BY <1>1, <1>2, <2>2, <3>1 DEF TypeOK, Ended
  <2>. QED BY <1>2, <2>1, <2>2, TickFrame
<1>3. ASSUME NEW i \in 1 .. Len(channel'), channel'[i].type = "PEER_EVICT"
      PROVE  Ended(channel[i].session)'
  <2>1. ASSUME NEW j \in 1 .. Len(channel), channel'[i] = channel[j]
        PROVE  Ended(channel[i].session)'
    <3>1. channel \in Seq(Events)
      BY DEF TypeOK
    <3>2. channel[j] \in Events
      BY <3>1
    <3>3. channel[j].session \in Sessions /\ Ended(channel[j].session)
      BY <1>3, <2>1, <3>2 DEF Events, EvictInv
    <3>. QED BY <2>1, <3>3, EndedStays DEF Ended, Over
  <2>2. CASE UNCHANGED channel
    BY <2>1, <2>2
  <2>3. CASE Len(channel') = 0
    BY <2>3
  <2>4. CASE channel # <<>> /\ channel' = Tail(channel)
    <3>1. i + 1 \in 1 .. Len(channel) /\ channel'[i] = channel[i + 1]
      BY <1>3, <2>4, Taken
    <3>. QED BY <2>1, <3>1
  <2>5. ASSUME NEW s \in Sessions, CreatePublish(s) PROVE Ended(channel[i].session)'
    <3>1. Event("PEER_ADD", s) \in Events /\ Event("PEER_ADD", s).type # "PEER_EVICT"
      BY DEF Event, Events
    <3>2. i \in 1 .. Len(channel) /\ channel'[i] = channel[i]
      BY <1>3, <2>5, <3>1, Published DEF CreatePublish
    <3>. QED BY <2>1, <3>2
  <2>6. ASSUME NEW t \in Ticks, TickPublish(t) PROVE Ended(channel[i].session)'
    <3>. DEFINE s == tick[t].cur
    <3>1. s \in Sessions /\ Ended(s)
      BY <2>6 DEF TickPublish, TypeOK, EvictInv
    <3>2. Event("PEER_EVICT", s) \in Events /\ Event("PEER_EVICT", s).session = s
      BY <3>1 DEF Event, Events
    <3>3. \/ i \in 1 .. Len(channel) /\ channel'[i] = channel[i]
          \/ channel'[i] = Event("PEER_EVICT", s)
      BY <1>3, <2>6, <3>2, Published DEF TickPublish
    <3>. QED BY <2>1, <3>1, <3>2, <3>3, EndedStays DEF Ended, Over
  <2>. QED BY <2>2, <2>3, <2>4, <2>5, <2>6, ChannelFrame
<1>4. ASSUME NEW s \in Sessions, Cleaning(s)' PROVE Ended(s)'
  <2>1. CASE Cleaning(s)
    BY <2>1, EndedStays DEF EvictInv
  <2>2. CASE HandleEvict /\ s = Head(channel).session
    <3>1. channel # <<>> /\ Head(channel).type = "PEER_EVICT" /\ channel' = Tail(channel)
      BY <2>2 DEF HandleEvict, Take
    <3>2. Head(channel) = channel[1] /\ 1 \in 1 .. Len(channel)
      BY <3>1, Taken
    <3>. QED BY <2>2, <3>1, <3>2, EndedStays DEF EvictInv
  <2>. QED BY <1>4, <2>1, <2>2, CleaningFrame
<1>5. ASSUME NEW s \in Sessions, create'[s] = "stored" PROVE Active(s)'
  <2>1. CASE CreateStore(s)
    BY <2>1 DEF CreateStore, TypeOK, Active
  <2>2. CASE create'[s] = create[s] /\ ~CreateStore(s)
    <3>1. ASSUME NEW t \in Ticks, TickEvict(t), s = tick[t].cur PROVE FALSE
      BY <1>5, <2>2, <3>1 DEF TickEvict, EvictInv, Over
    <3>. QED BY <1>5, <2>2, <3>1, StatusFrame DEF EvictInv, Active
  <2>. QED BY <1>5, <2>1, <2>2, CreateFrame
<1>6. ASSUME NEW s \in Sessions, Active(s)', ~FailedStored(s)' PROVE returned'[s] = 0
  <2>1. CASE CreateStore(s)
    BY <2>1 DEF CreateStore, KnownInv
  <2>2. CASE ~CreateStore(s)
    <3>1. Active(s)
      BY <1>6, <2>2, StatusFrame DEF Active
    <3>2. ~FailedStored(s) /\ returned[s] = 0
      BY <1>6, <3>1, OverStays DEF FailedStored, EvictInv, Over
    <3>3. ASSUME NEW q \in Sessions, GiveBack(q), UNCHANGED ip PROVE q # s => returned'[s] = returned[s]
      BY <3>3 DEF GiveBack, TypeOK
    <3>4. ASSUME GiveBack(s) PROVE ~(ReleaseAddress /\ s = agent.cur)
      BY <3>1 DEF ReleaseAddress, Cleaning, EvictInv, Ended, Active
    <3>5. ~CreationFails(s)
      <4>1. create[s] # "popped"
        BY <3>1 DEF KnownInv, Active
      <4>. QED BY <1>6, <4>1 DEF CreationFails, FailedStored, TypeOK
    <3>6. ASSUME NEW k \in Keys, NEW q \in Sessions, CreatePop(q, k) PROVE UNCHANGED returned
      BY <3>6 DEF CreatePop
    <3>. QED BY <3>2, <3>3, <3>4, <3>5, <3>6, PoolFrame
  <2>. QED BY <2>1, <2>2
<1>. QED BY <1>1, <1>2, <1>3, <1>4, <1>5, <1>6 DEF EvictInv

-------------------------------------------------------------------------------
(* With one process that seeds the region, an address is in the pool or    *)
(* held by one session, until it is given back twice or a session stored   *)
(* with it is answered with an error.                                      *)

OneSeeding == \A d, e \in Seeders : d = e

Holder(s) == ip[s] # None /\ returned[s] = 0

Repeated(a) ==
  \E s \in Sessions : ip[s] = a /\ (returned[s] > 1 \/ (FailedStored(s) /\ Known(s)))

Alone(s) == ip[s] \notin pool /\ \A q \in Sessions : Holder(q) /\ q # s => ip[q] # ip[s]

Exclusive == \A s \in Sessions : Holder(s) => Alone(s)

SeededFirst ==
  \A d \in Seeders : seeder[d] # "done" => pool = {} /\ \A s \in Sessions : ip[s] = None

LeaseInv ==
  SeededFirst /\ \A s \in Sessions : Holder(s) => Alone(s) \/ Repeated(ip[s])

LEMMA LeaseInit == Init => LeaseInv
  BY DEF Init, LeaseInv, SeededFirst, Holder

LEMMA GiverKnown ==
  ASSUME TypeOK, KnownInv, NEW s \in Sessions,
         (ReleaseAddress /\ s = agent.cur) \/ CreationFails(s)
  PROVE  ip[s] \in Addresses /\ ip[s] # None
<1>1. ip[s] \in Addresses
  BY DEF ReleaseAddress, CreationFails, KnownInv
<1>. QED BY <1>1, PeerAssumption DEF PeerAssumption

LEMMA SeededFirstKeeps ==
  ASSUME TypeOK, KnownInv, SeededFirst, OneSeeding, Next
  PROVE  SeededFirst'
<1>. SUFFICES ASSUME NEW d \in Seeders, seeder'[d] # "done"
              PROVE  pool' = {} /\ \A s \in Sessions : ip'[s] = None
  BY DEF SeededFirst
<1>1. seeder[d] # "done" /\ ~SeedFill(d)
  <2>1. ASSUME NEW e \in Seeders, SeedStep(e) PROVE seeder[d] # "done" /\ ~SeedFill(d)
    BY <2>1 DEF OneSeeding, SeedStep, SeedCount, SeedFill, TypeOK
  <2>. QED BY <2>1, SeederFrame DEF SeedFill, TypeOK
<1>2. pool = {} /\ \A s \in Sessions : ip[s] = None
  BY <1>1 DEF SeededFirst
<1>3. ASSUME NEW e \in Seeders PROVE ~SeedFill(e)
  BY <1>1 DEF OneSeeding
<1>4. ASSUME NEW s \in Sessions, NEW k \in Keys PROVE ~CreatePop(s, k)
  BY <1>2 DEF CreatePop
<1>. QED BY <1>2, <1>3, <1>4, PoolFrame, GiverKnown

LEMMA ReturnedGrows ==
  ASSUME TypeOK, Next, NEW s \in Sessions
  PROVE  returned'[s] \in Nat /\ returned[s] \in Nat /\ returned'[s] >= returned[s]
<1>1. returned \in [Sessions -> Nat]
  BY DEF TypeOK
<1>2. ASSUME NEW q \in Sessions, GiveBack(q) PROVE returned' = [returned EXCEPT ![q] = @ + 1]
  BY <1>2 DEF GiveBack
<1>3. ASSUME NEW q \in Sessions, NEW k \in Keys, CreatePop(q, k) PROVE UNCHANGED returned
  BY <1>3 DEF CreatePop
<1>. QED BY <1>1, <1>2, <1>3, PoolFrame

LEMMA AddressStays ==
  ASSUME TypeOK, KnownInv, Next, NEW s \in Sessions, ip[s] # None
  PROVE  ip'[s] = ip[s]
<1>1. ASSUME NEW q \in Sessions, NEW k \in Keys, CreatePop(q, k) PROVE ip'[s] = ip[s]
  <2>1. q # s /\ \E a \in pool : ip' = [ip EXCEPT ![q] = a]
    BY <1>1 DEF CreatePop, Pop, KnownInv
  <2>. QED BY <2>1 DEF TypeOK
<1>. QED BY <1>1, PoolFrame

(* An address that went back wrongly stays suspect.                        *)
LEMMA RepeatedStays ==
  ASSUME TypeOK, KnownInv, Next, NEW s \in Sessions, ip[s] # None, Repeated(ip[s])
  PROVE  ip'[s] = ip[s] /\ Repeated(ip[s])'
<1>1. PICK q \in Sessions :
        ip[q] = ip[s] /\ (returned[q] > 1 \/ (FailedStored(q) /\ Known(q)))
  BY DEF Repeated
<1>2. returned[q] > 1 => returned'[q] > 1
  BY ReturnedGrows
<1>3. FailedStored(q) => FailedStored(q)'
  BY OverStays DEF FailedStored, Over
<1>4. Known(q) => Known(q)'
  BY StatusFrame DEF Known, CreateStore, TypeOK
<1>5. ip'[s] = ip[s] /\ ip'[q] = ip[q]
  BY <1>1, AddressStays
<1>. QED BY <1>1, <1>2, <1>3, <1>4, <1>5 DEF Repeated

LEMMA AloneKeeps ==
  ASSUME TypeOK, KnownInv, LeaseInv, Next,
         NEW h \in Sessions, Holder(h)', ~Repeated(ip[h])'
  PROVE  Alone(h)'
<1>1. ASSUME Holder(h) PROVE ip'[h] = ip[h] /\ Alone(h)
  BY <1>1, AddressStays, RepeatedStays DEF LeaseInv, Holder
<1>2. CASE UNCHANGED <<pool, returned, ip>>
  BY <1>1, <1>2 DEF Alone, Holder
<1>3. ASSUME NEW d \in Seeders, SeedFill(d), UNCHANGED <<returned, ip>> PROVE FALSE
  BY <1>3 DEF SeedFill, LeaseInv, SeededFirst, Holder
<1>4. ASSUME NEW s \in Sessions, NEW k \in Keys, CreatePop(s, k) PROVE Alone(h)'
  <2>1. PICK a \in pool : ip' = [ip EXCEPT ![s] = a] /\ pool' = pool \ {a}
    BY <1>4 DEF CreatePop, Pop
  <2>2. UNCHANGED returned /\ ip'[s] = a /\ \A q \in Sessions : q # s => ip'[q] = ip[q]
    BY <1>4, <2>1 DEF CreatePop, TypeOK
  <2>3. CASE h = s
    <3>1. ASSUME NEW q \in Sessions, Holder(q), q # s, ip[q] = a PROVE FALSE
      <4>1. Repeated(ip[q])
        BY <2>1, <3>1 DEF LeaseInv, Alone
      <4>2. Repeated(ip[q])' /\ ip'[q] = ip'[h]
        BY <2>2, <2>3, <3>1, <4>1, RepeatedStays DEF Holder
      <4>. QED BY <4>2 DEF Repeated
    <3>. QED BY <2>1, <2>2, <2>3, <3>1 DEF Alone, Holder
  <2>4. CASE h # s
    <3>1. Holder(h)
      BY <2>2, <2>4 DEF Holder
    <3>. QED BY <1>1, <2>1, <2>2, <2>4, <3>1 DEF Alone, Holder
  <2>. QED BY <2>3, <2>4
<1>5. ASSUME NEW s \in Sessions, GiveBack(s), UNCHANGED ip,
             (ReleaseAddress /\ s = agent.cur) \/ CreationFails(s)
      PROVE  Alone(h)'
  <2>1. /\ pool' = pool \cup {ip[s]} /\ returned'[s] = returned[s] + 1 /\ returned[s] \in Nat
        /\ \A q \in Sessions : q # s => returned'[q] = returned[q]
    BY <1>5 DEF GiveBack, TypeOK
  <2>2. h # s /\ Holder(h)
    BY <1>5, <2>1 DEF Holder
  <2>3. ip[h] # ip[s]
    <3>1. SUFFICES ASSUME ip[h] = ip[s] PROVE FALSE
      OBVIOUS
    <3>2. ~(returned'[s] > 1)
      BY <1>5, <3>1 DEF Repeated
    <3>3. Holder(s)
      BY <1>5, <2>1, <3>2, GiverKnown DEF Holder
    <3>. QED BY <1>1, <2>2, <3>1, <3>3 DEF Alone
  <2>4. \A q \in Sessions : Holder(q)' => Holder(q)
    BY <1>5, <2>1 DEF Holder
  <2>. QED BY <1>1, <1>5, <2>1, <2>2, <2>3, <2>4 DEF Alone
<1>. QED BY <1>2, <1>3, <1>4, <1>5, PoolFrame

LEMMA LeaseInvariant ==
  ASSUME OneSeeding
  PROVE  Spec => [](TypeOK /\ KnownInv /\ EvictInv /\ LeaseInv)
<1>. DEFINE Inv == TypeOK /\ KnownInv /\ EvictInv /\ LeaseInv
<1>1. Init => Inv
  BY TypeInit, KnownInit, EvictInit, LeaseInit
<1>2. Inv /\ [Next]_vars => Inv'
  <2>. SUFFICES ASSUME Inv, [Next]_vars PROVE Inv'
    OBVIOUS
  <2>1. CASE UNCHANGED vars
    <3>1. TypeOK' /\ KnownInv'
      BY KnownNext
    <3>2. EvictInv'
      BY <2>1 DEF vars, EvictInv, Ended, Over, Cleaning, FailedStored, Active
    <3>3. LeaseInv'
      BY <2>1 DEF vars, LeaseInv, SeededFirst, Repeated, FailedStored, Known, Alone, Holder
    <3>. QED BY <3>1, <3>2, <3>3
  <2>2. CASE Next
    <3>1. TypeOK' /\ KnownInv'
      BY KnownNext
    <3>2. EvictInv'
      BY <2>2, <3>1, EvictNext
    <3>3. SeededFirst'
      BY <2>2, SeededFirstKeeps DEF LeaseInv
    <3>4. \A s \in Sessions : Holder(s)' => Alone(s)' \/ Repeated(ip[s])'
      BY <2>2, AloneKeeps
    <3>. QED BY <3>1, <3>2, <3>3, <3>4 DEF LeaseInv
  <2>. QED BY <2>1, <2>2
<1>. QED BY <1>1, <1>2, PTL DEF Spec

LEMMA HeldByActive ==
  ASSUME TypeOK, KnownInv, EvictInv, LeaseInv, NEW s \in Sessions, Active(s),
         ~Repeated(ip[s])
  PROVE  SoleHolder(s)
<1>1. ASSUME NEW q \in Sessions, Active(q), ip[q] = ip[s] PROVE Holder(q)
  <2>1. Known(q) /\ ip[q] # None
    BY <1>1, PeerAssumption DEF Active, Known, KnownInv, PeerAssumption
  <2>2. ~FailedStored(q)
    BY <1>1, <2>1 DEF Repeated
  <2>. QED BY <1>1, <2>1, <2>2 DEF EvictInv, Holder
<1>2. Alone(s)
  BY <1>1 DEF LeaseInv
<1>. QED BY <1>1, <1>2 DEF Alone, SoleHolder

(* Whatever goes wrong, and however many ticks overlap, an active session  *)
(* shares its address, or has it in the pool, only once a session that was *)
(* stored with this address was answered with an error or the address went *)
(* back twice, as long as one process seeds the region                     *)
(* (server.js:241-270, main.go:232).                                       *)
THEOREM SharedOnlyByRepeat ==
  ASSUME OneSeeding
  PROVE  Spec => []LeaseSharedOnlyByRepeat
<1>1. ASSUME TypeOK, KnownInv, EvictInv, LeaseInv, NEW s \in Sessions, Active(s)
      PROVE  SoleHolder(s) \/ GivenBackWrongly(ip[s])
  <2>1. Repeated(ip[s]) => GivenBackWrongly(ip[s])
    BY DEF Repeated, FailedStored, Known, GivenBackWrongly
  <2>. QED BY <1>1, <2>1, HeldByActive
<1>2. TypeOK /\ KnownInv /\ EvictInv /\ LeaseInv => LeaseSharedOnlyByRepeat
  BY <1>1 DEF LeaseSharedOnlyByRepeat
<1>. QED BY <1>2, LeaseInvariant, PTL

-------------------------------------------------------------------------------
(* Without overlapping ticks or failures after the MULTI an eviction is    *)
(* way in one place at a time: with the tick, in the channel or with the   *)
(* agent, and its address goes back once.                                  *)

OneTick         == \A t, u \in Ticks : t = u
NoFailureStored == "create fails stored" \notin Mishaps

Evicts(e) == e.type = "PEER_EVICT"

OnceInv ==
  /\ \A t \in Ticks : tick[t].pc = "evict" => Active(tick[t].cur)
  /\ \A t \in Ticks : tick[t].pc = "publish" =>
       /\ returned[tick[t].cur] = 0 /\ ~Cleaning(tick[t].cur)
       /\ \A i \in 1 .. Len(channel) : Evicts(channel[i]) => channel[i].session # tick[t].cur
  /\ \A i \in 1 .. Len(channel) : Evicts(channel[i]) =>
       returned[channel[i].session] = 0 /\ ~Cleaning(channel[i].session)
  /\ \A i, j \in 1 .. Len(channel) :
       Evicts(channel[i]) /\ Evicts(channel[j]) /\ i # j => channel[i].session # channel[j].session
  /\ \A s \in Sessions : Cleaning(s) => returned[s] = 0
  /\ \A s \in Sessions : returned[s] <= 1

LEMMA OnceInit == Init => OnceInv
  BY DEF Init, OnceInv, IdleTick, Ready, Down, Cleaning

LEMMA SessionsNamed ==
  ASSUME TypeOK
  PROVE  /\ \A i \in 1 .. Len(channel) : channel[i].session \in Sessions
         /\ \A t \in Ticks : tick[t].pc # "idle" => tick[t].cur \in Sessions
<1>1. channel \in Seq(Events)
  BY DEF TypeOK
<1>2. \A i \in 1 .. Len(channel) : channel[i] \in Events
  BY <1>1
<1>. QED BY <1>2 DEF Events, TypeOK

(* A step that moves no eviction.                                          *)
LEMMA OnceQuiet ==
  ASSUME OnceInv, UNCHANGED <<tick, returned>>,
         UNCHANGED channel \/ Len(channel') = 0,
         \A s \in Sessions : Cleaning(s)' => Cleaning(s),
         \A t \in Ticks : tick[t].pc \in {"evict", "publish"} => tick[t].cur \in Sessions,
         \A i \in 1 .. Len(channel) : channel[i].session \in Sessions,
         \A t \in Ticks : tick[t].pc = "evict" => Active(tick[t].cur)'
  PROVE  OnceInv'
<1>1. \A t \in Ticks : tick'[t].pc = "evict" => Active(tick[t].cur)'
  OBVIOUS
<1>2. \A t \in Ticks : tick'[t].pc = "publish" =>
        returned'[tick'[t].cur] = 0 /\ ~Cleaning(tick[t].cur)'
  BY DEF OnceInv, Cleaning
<1>3. \A i \in 1 .. Len(channel') : i \in 1 .. Len(channel) /\ channel'[i] = channel[i]
  OBVIOUS
<1>4. \A t \in Ticks : tick'[t].pc = "publish" =>
        \A i \in 1 .. Len(channel') : Evicts(channel'[i]) => channel'[i].session # tick'[t].cur
  BY <1>3 DEF OnceInv
<1>5. \A i \in 1 .. Len(channel') : Evicts(channel'[i]) =>
        returned'[channel'[i].session] = 0 /\ ~Cleaning(channel[i].session)'
  BY <1>3 DEF OnceInv, Cleaning
<1>6. \A i, j \in 1 .. Len(channel') :
       Evicts(channel'[i]) /\ Evicts(channel'[j]) /\ i # j => channel'[i].session # channel'[j].session
  BY <1>3 DEF OnceInv
<1>. QED BY <1>1, <1>2, <1>4, <1>5, <1>6 DEF OnceInv, Evicts

(* The agent, or a connection that breaks, takes the oldest event.         *)
LEMMA OnceTaken ==
  ASSUME TypeOK, OnceInv, channel # <<>>, channel' = Tail(channel),
         UNCHANGED <<tick, status, returned>>,
         \A s \in Sessions : Cleaning(s)' => \/ Cleaning(s)
                                             \/ Evicts(Head(channel)) /\ s = Head(channel).session
  PROVE  OnceInv'
<1>1. /\ Len(channel) \in Nat \ {0} /\ Head(channel) = channel[1] /\ 1 \in 1 .. Len(channel)
      /\ \A i \in 1 .. Len(channel') :
           i + 1 \in 1 .. Len(channel) /\ i + 1 # 1 /\ channel'[i] = channel[i + 1]
  BY Taken
<1>2. /\ \A i \in 1 .. Len(channel) : channel[i].session \in Sessions
      /\ \A t \in Ticks : tick[t].pc # "idle" => tick[t].cur \in Sessions
  BY SessionsNamed
<1>3. \A t \in Ticks : tick'[t].pc = "evict" => Active(tick[t].cur)'
  BY DEF OnceInv, Active
<1>4. ASSUME NEW t \in Ticks, tick'[t].pc = "publish"
      PROVE  /\ returned'[tick'[t].cur] = 0 /\ ~Cleaning(tick[t].cur)'
             /\ \A i \in 1 .. Len(channel') : Evicts(channel'[i]) => channel'[i].session # tick'[t].cur
  <2>1. returned[tick[t].cur] = 0 /\ ~Cleaning(tick[t].cur) /\ tick[t].cur \in Sessions /\ tick'[t].cur = tick[t].cur
    BY <1>2, <1>4 DEF OnceInv
  <2>2. \A i \in 1 .. Len(channel) : Evicts(channel[i]) => channel[i].session # tick[t].cur
    BY <1>4 DEF OnceInv
  <2>3. ~Cleaning(tick[t].cur)'
    BY <1>1, <2>1, <2>2 DEF Cleaning
  <2>. QED BY <1>1, <2>1, <2>2, <2>3
<1>5. ASSUME NEW i \in 1 .. Len(channel'), Evicts(channel'[i])
      PROVE  returned'[channel'[i].session] = 0 /\ ~Cleaning(channel[i].session)'
  <2>0. PICK s \in Sessions : s = channel[i + 1].session
    BY <1>1, <1>2
  <2>1. i + 1 \in 1 .. Len(channel) /\ i + 1 # 1 /\ channel'[i] = channel[i + 1] /\ Evicts(channel[i + 1])
    BY <1>1, <1>5
  <2>2. returned[s] = 0 /\ ~Cleaning(s) /\ s \in Sessions
    BY <2>0, <2>1 DEF OnceInv
  <2>3. Evicts(channel[1]) => channel[1].session # s
    BY <1>1, <2>0, <2>1 DEF OnceInv
  <2>4. ~Cleaning(s)'
    BY <1>1, <2>2, <2>3 DEF Cleaning
  <2>. QED BY <2>0, <2>1, <2>2, <2>4 DEF Cleaning
<1>6. ASSUME NEW i \in 1 .. Len(channel'), NEW j \in 1 .. Len(channel'),
             Evicts(channel'[i]), Evicts(channel'[j]), i # j
      PROVE  channel'[i].session # channel'[j].session
  <2>1. i + 1 # j + 1
    BY <1>6
  <2>. QED BY <1>1, <1>6, <2>1 DEF OnceInv
<1>7. ASSUME NEW s \in Sessions, Cleaning(s)' PROVE returned'[s] = 0
  BY <1>1, <1>7 DEF OnceInv
<1>. QED BY <1>3, <1>4, <1>5, <1>6, <1>7 DEF OnceInv, Evicts

(* An address goes back.                                                   *)
LEMMA OnceGivenBack ==
  ASSUME TypeOK, OnceInv, NEW s \in Sessions, GiveBack(s), UNCHANGED <<tick, channel, status>>,
         returned[s] = 0, ~Cleaning(s)',
         \A q \in Sessions : Cleaning(q)' => Cleaning(q),
         \A t \in Ticks : tick[t].pc = "publish" => tick[t].cur # s,
         \A i \in 1 .. Len(channel) : Evicts(channel[i]) => channel[i].session # s
  PROVE  OnceInv'
<1>1. returned'[s] = 1 /\ \A q \in Sessions : q # s => returned'[q] = returned[q]
  BY DEF GiveBack, TypeOK
<1>2. /\ \A i \in 1 .. Len(channel) : channel[i].session \in Sessions
      /\ \A t \in Ticks : tick[t].pc # "idle" => tick[t].cur \in Sessions
  BY SessionsNamed
<1>3. \A t \in Ticks : tick'[t].pc = "evict" => Active(tick[t].cur)'
  BY DEF OnceInv, Active
<1>4. \A t \in Ticks : tick'[t].pc = "publish" =>
       /\ returned'[tick'[t].cur] = 0 /\ ~Cleaning(tick[t].cur)'
       /\ \A i \in 1 .. Len(channel') : Evicts(channel'[i]) => channel'[i].session # tick'[t].cur
  BY <1>1, <1>2 DEF OnceInv, Cleaning
<1>5. \A i \in 1 .. Len(channel') : Evicts(channel'[i]) =>
        returned'[channel'[i].session] = 0 /\ ~Cleaning(channel[i].session)'
  BY <1>1, <1>2 DEF OnceInv, Cleaning
<1>6. \A i, j \in 1 .. Len(channel') :
       Evicts(channel'[i]) /\ Evicts(channel'[j]) /\ i # j => channel'[i].session # channel'[j].session
  BY DEF OnceInv
<1>7. \A q \in Sessions : (Cleaning(q)' => returned'[q] = 0) /\ returned'[q] <= 1
  BY <1>1 DEF OnceInv
<1>. QED BY <1>3, <1>4, <1>5, <1>6, <1>7 DEF OnceInv, Evicts

(* An event goes out.                                                      *)
LEMMA OnceAnnounced ==
  ASSUME TypeOK, OnceInv, NEW e \in Events, Publish(e), UNCHANGED <<agent, status, returned>>,
         \/ e.type = "PEER_ADD" /\ UNCHANGED tick
         \/ \E t \in Ticks : /\ tick[t].pc = "publish" /\ e = Event("PEER_EVICT", tick[t].cur)
                             /\ tick' = [tick EXCEPT ![t] = IdleTick],
         OneTick
  PROVE  OnceInv'
<1>1. /\ channel' \in Seq(Events) /\ Len(channel) \in Nat
      /\ \/ channel' = channel
         \/ /\ Len(channel') = Len(channel) + 1 /\ channel'[Len(channel) + 1] = e
            /\ \A i \in 1 .. Len(channel) : channel'[i] = channel[i]
  BY Published
<1>2. \A i \in 1 .. Len(channel') :
        \/ i \in 1 .. Len(channel) /\ channel'[i] = channel[i]
        \/ i = Len(channel) + 1 /\ channel'[i] = e
  BY <1>1
<1>3. ASSUME Evicts(e)
      PROVE  /\ returned[e.session] = 0 /\ ~Cleaning(e.session)
             /\ \A i \in 1 .. Len(channel) : Evicts(channel[i]) => channel[i].session # e.session
             /\ \A t \in Ticks : tick'[t].pc = "idle"
  <2>1. PICK t \in Ticks : /\ tick[t].pc = "publish" /\ e = Event("PEER_EVICT", tick[t].cur)
                           /\ tick' = [tick EXCEPT ![t] = IdleTick]
    BY <1>3 DEF Evicts
  <2>2. e.session = tick[t].cur
    BY <2>1 DEF Event
  <2>3. \A u \in Ticks : u = t
    BY DEF OneTick
  <2>. QED BY <2>1, <2>2, <2>3 DEF OnceInv, TypeOK, IdleTick
<1>4. \A t \in Ticks : tick'[t].pc # "idle" => tick'[t] = tick[t] /\ ~Evicts(e)
  <2>1. CASE ~Evicts(e)
    <3>1. UNCHANGED tick
      BY <2>1 DEF Evicts, Event
    <3>. QED BY <2>1, <3>1
  <2>. QED BY <1>3, <2>1
<1>5. \A t \in Ticks : tick'[t].pc = "evict" => Active(tick[t].cur)'
  BY <1>4 DEF OnceInv, Active
<1>6. \A t \in Ticks : tick'[t].pc = "publish" =>
       /\ returned'[tick'[t].cur] = 0 /\ ~Cleaning(tick[t].cur)'
       /\ \A i \in 1 .. Len(channel') : Evicts(channel'[i]) => channel'[i].session # tick'[t].cur
  BY <1>2, <1>4 DEF OnceInv, Cleaning
<1>7. \A i \in 1 .. Len(channel') : Evicts(channel'[i]) =>
        returned'[channel'[i].session] = 0 /\ ~Cleaning(channel[i].session)'
  BY <1>2, <1>3 DEF OnceInv, Cleaning
<1>8. \A i, j \in 1 .. Len(channel') :
       Evicts(channel'[i]) /\ Evicts(channel'[j]) /\ i # j => channel'[i].session # channel'[j].session
  BY <1>2, <1>3 DEF OnceInv
<1>9. \A s \in Sessions : (Cleaning(s)' => returned'[s] = 0) /\ returned'[s] <= 1
  BY DEF OnceInv, Cleaning
<1>. QED BY <1>5, <1>6, <1>7, <1>8, <1>9 DEF OnceInv, Evicts

(* A tick finds a session exhausted, or evicts it.                         *)
LEMMA OnceTicked ==
  ASSUME TypeOK, KnownInv, EvictInv, OnceInv, OneTick, NoFailureStored,
         NEW t \in Ticks, (\E s \in Sessions : TickFindsExhausted(t, s)) \/ TickEvict(t) \/ TickDies(t)
  PROVE  OnceInv'
<1>1. UNCHANGED <<channel, agent, returned>>
  BY DEF TickFindsExhausted, TickEvict, TickDies
<1>2. \A u \in Ticks : u = t
  BY DEF OneTick
<1>3. tick \in [Ticks -> [pc : {"idle", "evict", "publish"}, cur : Sessions \cup {None}]]
  BY DEF TypeOK
<1>4. tick'[t].pc = "evict" => Active(tick[t].cur)'
  <2>1. ASSUME NEW s \in Sessions, TickFindsExhausted(t, s) PROVE Active(tick[t].cur)'
    BY <1>3, <2>1 DEF TickFindsExhausted, Active
  <2>2. CASE TickEvict(t)
    BY <1>3, <2>2 DEF TickEvict
  <2>3. CASE TickDies(t)
    BY <1>3, <2>3 DEF TickDies, IdleTick
  <2>. QED BY <2>1, <2>2, <2>3
<1>5. ASSUME tick'[t].pc = "publish"
      PROVE  /\ returned'[tick'[t].cur] = 0 /\ ~Cleaning(tick[t].cur)'
             /\ \A i \in 1 .. Len(channel') : Evicts(channel'[i]) => channel'[i].session # tick'[t].cur
  <2>1. TickEvict(t)
    <3>1. ASSUME NEW s \in Sessions, TickFindsExhausted(t, s) PROVE tick'[t].pc = "evict"
      BY <1>3, <3>1 DEF TickFindsExhausted
    <3>2. ASSUME TickDies(t) PROVE tick'[t].pc = "idle"
      BY <1>3, <3>2 DEF TickDies, IdleTick
    <3>. QED BY <1>5, <3>1, <3>2
  <2>2. PICK s \in Sessions : s = tick[t].cur
    BY <2>1 DEF TickEvict, TypeOK
  <2>3. tick'[t].cur = s
    BY <1>3, <2>1, <2>2 DEF TickEvict
  <2>4. Active(s) /\ tick[t].pc = "evict"
    BY <2>1, <2>2 DEF TickEvict, OnceInv
  <2>5. returned[s] = 0 /\ ~Cleaning(s)
    BY <2>4 DEF NoFailureStored, EvictInv, FailedStored, Ended, Active
  <2>6. \A i \in 1 .. Len(channel) : Evicts(channel[i]) => channel[i].session # s
    BY <2>4 DEF EvictInv, Evicts, Ended, Active
  <2>. QED BY <1>1, <2>3, <2>5, <2>6 DEF Cleaning
<1>6. /\ \A i \in 1 .. Len(channel') : Evicts(channel'[i]) =>
           returned'[channel'[i].session] = 0 /\ ~Cleaning(channel[i].session)'
      /\ \A i, j \in 1 .. Len(channel') :
           Evicts(channel'[i]) /\ Evicts(channel'[j]) /\ i # j => channel'[i].session # channel'[j].session
      /\ \A s \in Sessions : (Cleaning(s)' => returned'[s] = 0) /\ returned'[s] <= 1
  BY <1>1 DEF OnceInv, Cleaning
<1>. QED BY <1>2, <1>4, <1>5, <1>6 DEF OnceInv, Evicts

LEMMA TailMoves ==
  ASSUME TypeOK, channel # <<>>, channel' = Tail(channel)
  PROVE  channel' # channel
<1>1. Len(channel) \in Nat /\ Len(channel') = Len(channel) - 1
  BY Taken
<1>2. \A n \in Nat : n - 1 # n
  OBVIOUS
<1>3. Len(channel') # Len(channel)
  BY <1>1, <1>2
<1>. QED BY <1>3

LEMMA OnceNext ==
  ASSUME TypeOK, KnownInv, EvictInv, OnceInv, OneTick, NoFailureStored, Next
  PROVE  OnceInv'
<1>1. /\ \A i \in 1 .. Len(channel) : channel[i].session \in Sessions
      /\ \A t \in Ticks : tick[t].pc \in {"evict", "publish"} => tick[t].cur \in Sessions
  BY SessionsNamed
<1>2. ASSUME UNCHANGED <<tick, returned>>,
             UNCHANGED channel \/ (Len(channel') = 0 /\ agent'.pc = "down")
      PROVE  OnceInv'
  <2>1. ASSUME NEW s \in Sessions, Cleaning(s)' PROVE Cleaning(s)
    <3>1. agent'.pc # "down"
      BY <2>1 DEF Cleaning
    <3>2. ~HandleEvict
      <4>1. UNCHANGED channel
        BY <1>2, <3>1
      <4>2. ~(channel # <<>> /\ channel' = Tail(channel))
        BY <4>1, TailMoves
      <4>. QED BY <4>2 DEF HandleEvict, Take
    <3>. QED BY <2>1, <3>2, CleaningFrame
  <2>2. ASSUME NEW t \in Ticks, tick[t].pc = "evict" PROVE Active(tick[t].cur)'
    <3>1. PICK s \in Sessions : s = tick[t].cur /\ Active(s)
      BY <1>1, <2>2 DEF OnceInv
    <3>2. ASSUME NEW u \in Ticks, TickEvict(u) PROVE FALSE
      <4>1. tick[u] \in [pc : {"idle", "evict", "publish"}, cur : Sessions \cup {None}]
        BY DEF TypeOK
      <4>2. tick'[u].pc = "publish" /\ tick[u].pc = "evict"
        BY <3>2, <4>1 DEF TickEvict, TypeOK
      <4>. QED BY <1>2, <4>2
    <3>3. status'[s] = status[s] \/ CreateStore(s)
      BY <3>2, StatusFrame
    <3>. QED BY <1>2, <3>1, <3>3 DEF Active, CreateStore, TypeOK
  <2>. QED BY <1>1, <1>2, <2>1, <2>2, OnceQuiet
<1>3. ASSUME NEW d \in Seeders, SeedStep(d) PROVE OnceInv'
  BY <1>2, <1>3 DEF SeedStep, SeedCount, SeedFill
<1>4. ASSUME NEW s \in Sessions, CreateStep(s) PROVE OnceInv'
  <2>1. ASSUME CreationFails(s), GiveBack(s), UNCHANGED <<tick, channel, status, agent>>
        PROVE  OnceInv'
    <3>1. create[s] = "popped" /\ returned[s] = 0 /\ ~Ended(s)
      BY <2>1 DEF NoFailureStored, CreationFails, KnownInv, Ended, Over
    <3>. QED BY <2>1, <3>1, OnceGivenBack DEF EvictInv, Evicts, Cleaning
  <2>2. CASE CreateUnconfigured(s) \/ CreateFailsUnstored(s)
    BY <2>1, <2>2 DEF CreateUnconfigured, CreateFailsUnstored, CreationFails
  <2>3. CASE CreatePublish(s)
    <3>1. Event("PEER_ADD", s) \in Events /\ Event("PEER_ADD", s).type = "PEER_ADD"
      BY DEF Event, Events
    <3>. QED BY <2>3, <3>1, OnceAnnounced DEF CreatePublish
  <2>4. CASE CreateFailsStored(s)
    BY <2>4 DEF NoFailureStored, CreateFailsStored, Mishap
  <2>5. CASE \/ \E k \in Keys : CreatePop(s, k)
             \/ CreateNoAddress(s) \/ CreateStore(s) \/ CreateDies(s)
    BY <1>2, <2>5 DEF CreatePop, CreateNoAddress, CreateStore, CreateDies
  <2>. QED BY <1>4, <2>2, <2>3, <2>4, <2>5 DEF CreateStep
<1>5. ASSUME NEW t \in Ticks, TickStep(t) PROVE OnceInv'
  <2>1. CASE TickPublish(t)
    <3>1. Event("PEER_EVICT", tick[t].cur) \in Events
      BY <1>1, <2>1 DEF TickPublish, Event, Events
    <3>. QED BY <2>1, <3>1, OnceAnnounced DEF TickPublish
  <2>. QED BY <1>5, <2>1, OnceTicked DEF TickStep
<1>6. ASSUME channel # <<>>, channel' = Tail(channel), UNCHANGED <<tick, status, returned>>,
             HandleEvict \/ ~HandleEvict
      PROVE  OnceInv'
  <2>1. \A s \in Sessions : Cleaning(s)' => \/ Cleaning(s)
                                            \/ Evicts(Head(channel)) /\ s = Head(channel).session
    BY CleaningFrame DEF HandleEvict, Take, Evicts
  <2>. QED BY <1>6, <2>1, OnceTaken
<1>7. CASE AgentHandles
  <2>1. CASE HandleAdd \/ HandleEvict
    BY <1>6, <2>1 DEF HandleAdd, HandleEvict, Take
  <2>2. CASE ReleaseAddress
    <3>1. PICK s \in Sessions : s = agent.cur
      BY <2>2 DEF ReleaseAddress, TypeOK
    <3>2. Cleaning(s) /\ GiveBack(s) /\ agent'.pc = "ready" /\ UNCHANGED <<tick, channel, status>>
      BY <2>2, <3>1 DEF ReleaseAddress, Cleaning, Ready
    <3>3. returned[s] = 0 /\ \A q \in Sessions : ~Cleaning(q)'
      BY <3>2 DEF OnceInv, Cleaning
    <3>4. /\ \A t \in Ticks : tick[t].pc = "publish" => tick[t].cur # s
          /\ \A i \in 1 .. Len(channel) : Evicts(channel[i]) => channel[i].session # s
      BY <3>2 DEF OnceInv
    <3>. QED BY <3>2, <3>3, <3>4, OnceGivenBack
  <2>3. CASE \/ AgentStart \/ ResyncApply \/ AgentSubscribe \/ TrackPeer \/ UntrackPeer
             \/ \E s \in Sessions : ResyncRead(s)
    BY <1>2, <2>3 DEF AgentStart, ResyncApply, AgentSubscribe, TrackPeer, UntrackPeer, ResyncRead
  <2>. QED BY <1>7, <2>1, <2>2, <2>3 DEF AgentHandles
<1>8. CASE AgentCallFails
  <2>1. \/ channel # <<>> /\ channel' = Tail(channel)
        \/ UNCHANGED channel
    BY <1>8 DEF AgentCallFails
  <2>. QED BY <1>2, <1>6, <1>8, <2>1 DEF AgentCallFails
<1>9. CASE EventLost
  BY <1>6, <1>9 DEF EventLost
<1>10. CASE AgentDies
  <2>1. channel' = <<>> /\ UNCHANGED <<tick, returned>> /\ agent' = Down
    BY <1>10 DEF AgentDies
  <2>. QED BY <1>2, <2>1 DEF Down
<1>. QED BY <1>3, <1>4, <1>5, <1>7, <1>8, <1>9, <1>10 DEF Next

LEMMA ReturnedOnce ==
  ASSUME TypeOK, OnceInv, NEW s \in Sessions
  PROVE  ~(returned[s] > 1)
  BY DEF TypeOK, OnceInv

LEMMA OnceInvariant ==
  ASSUME OneSeeding, OneTick, NoFailureStored
  PROVE  Spec => [](TypeOK /\ KnownInv /\ EvictInv /\ LeaseInv /\ OnceInv)
<1>. DEFINE Inv == TypeOK /\ KnownInv /\ EvictInv /\ LeaseInv
<1>1. Init => OnceInv
  BY OnceInit
<1>2. Inv /\ OnceInv /\ [Next]_vars => OnceInv'
  <2>1. ASSUME OnceInv, UNCHANGED vars PROVE OnceInv'
    BY <2>1 DEF vars, OnceInv, Active, Cleaning, Evicts
  <2>. QED BY <2>1, OnceNext
<1>3. Spec => []Inv
  BY LeaseInvariant
<1>. QED BY <1>1, <1>2, <1>3, PTL DEF Spec

LEMMA ExclusiveHolds ==
  ASSUME TypeOK, LeaseInv, OnceInv, NoFailureStored
  PROVE  Exclusive /\ \A s \in Sessions : ~Repeated(ip[s])
<1>1. \A s \in Sessions : ~Repeated(ip[s])
  BY ReturnedOnce DEF Repeated, FailedStored, NoFailureStored
<1>. QED BY <1>1 DEF LeaseInv, Exclusive

(* One worker whose ticks do not overlap and one seeding process: as long  *)
(* as no creation fails after its session was stored, no two active        *)
(* sessions share an address and no active session has its address in the  *)
(* pool, whatever else of MishapKinds happens: a creation that fails       *)
(* before, an API process, tick or agent that dies at any point, a call of *)
(* the agent that fails, an event that is lost (server.js:242-270,         *)
(* main.go:232-252).                                                       *)
THEOREM OneHolder ==
  ASSUME OneSeeding, OneTick, NoFailureStored
  PROVE  Spec => []LeaseExclusive
<1>1. TypeOK /\ KnownInv /\ EvictInv /\ LeaseInv /\ OnceInv => LeaseExclusive
  BY ExclusiveHolds, HeldByActive DEF LeaseExclusive
<1>. QED BY <1>1, OnceInvariant, PTL

-------------------------------------------------------------------------------
(* Under the same conditions the pool keeps AddressLease's promise: each   *)
(* step of the API, billing and the agent is a step of the lease or none.  *)

LEMMA ChosenHolder ==
  ASSUME NEW p, NEW r, NEW a, NEW s \in Sessions, p[s] = a /\ r[s] = 0,
         \A q \in Sessions : p[q] = a /\ r[q] = 0 => q = s
  PROVE  (CHOOSE q \in Sessions : p[q] = a /\ r[q] = 0) = s
  OBVIOUS

(* The owner of an address is its one holder.                              *)
OwnedBy(f, p, r) ==
  \A a \in Addresses :
    /\ \A s \in Sessions : p[s] = a /\ r[s] = 0 => f[a] = s
    /\ (\A s \in Sessions : ~(p[s] = a /\ r[s] = 0)) => f[a] = None

Owners == [a \in Addresses |-> Owner(a)]

LEMMA OwnersNow ==
  ASSUME Exclusive
  PROVE  OwnedBy(Owners, ip, returned)
<1>1. ASSUME NEW a \in Addresses, NEW s \in Sessions, ip[s] = a /\ returned[s] = 0
      PROVE  Owner(a) = s
  <2>1. \A q \in Sessions : ip[q] = a /\ returned[q] = 0 => q = s
    BY <1>1, PeerAssumption DEF PeerAssumption, Exclusive, Alone, Holder
  <2>2. (CHOOSE q \in Sessions : ip[q] = a /\ returned[q] = 0) = s
    BY <1>1, <2>1, ChosenHolder
  <2>. QED BY <1>1, <2>2 DEF Owner, Holds
<1>2. ASSUME NEW a \in Addresses, \A s \in Sessions : ~(ip[s] = a /\ returned[s] = 0)
      PROVE  Owner(a) = None
  BY <1>2 DEF Owner, Holds
<1>. QED BY <1>1, <1>2 DEF OwnedBy, Owners

LEMMA OwnersNext ==
  ASSUME Exclusive'
  PROVE  OwnedBy(Owners', ip', returned')
<1>1. ASSUME NEW a \in Addresses, NEW s \in Sessions, ip'[s] = a /\ returned'[s] = 0
      PROVE  Owner(a)' = s
  <2>1. \A q \in Sessions : ip'[q] = a /\ returned'[q] = 0 => q = s
    BY <1>1, PeerAssumption DEF PeerAssumption, Exclusive, Alone, Holder
  <2>2. (CHOOSE q \in Sessions : ip'[q] = a /\ returned'[q] = 0) = s
    BY <1>1, <2>1, ChosenHolder
  <2>. QED BY <1>1, <2>2 DEF Owner, Holds
<1>2. ASSUME NEW a \in Addresses, \A s \in Sessions : ~(ip'[s] = a /\ returned'[s] = 0)
      PROVE  Owner(a)' = None
  BY <1>2 DEF Owner, Holds
<1>. QED BY <1>1, <1>2 DEF OwnedBy, Owners

LEMMA InitLeased ==
  ASSUME Init
  PROVE  Lease!Init
<1>1. \A a \in Addresses : Owner(a) = None
  BY PeerAssumption DEF PeerAssumption, Init, Owner, Holds
<1>. QED BY <1>1 DEF Init, Lease!Init

LEMMA StepLeases ==
  ASSUME TypeOK, KnownInv, SeededFirst, Exclusive, Exclusive', OnceInv', Next
  PROVE  Lease!Next \/ UNCHANGED Lease!leaseVars
<1>. DEFINE served == {s \in Sessions : ip[s] # None}
<1>1. OwnedBy(Owners, ip, returned) /\ OwnedBy(Owners', ip', returned')
  BY OwnersNow, OwnersNext
<1>2. CASE UNCHANGED <<pool, returned, ip>>
  <2>1. Owners' = Owners
    BY <1>2 DEF Owners, Owner, Holds
  <2>. QED BY <1>2, <2>1 DEF Owners, Lease!leaseVars
<1>3. ASSUME NEW d \in Seeders, SeedFill(d), UNCHANGED <<returned, ip>> PROVE Lease!Next
  <2>1. pool = {} /\ pool' = Addresses /\ \A s \in Sessions : ip[s] = None
    BY <1>3 DEF SeedFill, SeededFirst
  <2>2. \A a \in Addresses : Owner(a) = None
    BY <2>1, PeerAssumption DEF PeerAssumption, Owner, Holds
  <2>3. Owners' = Owners /\ served' = served
    BY <1>3 DEF Owners, Owner, Holds
  <2>4. Lease!Seed
    BY <2>1, <2>2, <2>3 DEF Owners, Lease!Seed
  <2>. QED BY <2>4 DEF Lease!Next
<1>4. ASSUME NEW s \in Sessions, NEW k \in Keys, CreatePop(s, k) PROVE Lease!Next
  <2>1. PICK a \in pool : ip' = [ip EXCEPT ![s] = a] /\ pool' = pool \ {a}
    BY <1>4 DEF CreatePop, Pop
  <2>2. /\ a \in Addresses /\ a # None /\ ip[s] = None /\ returned[s] = 0 /\ UNCHANGED returned
        /\ ip'[s] = a /\ \A q \in Sessions : q # s => ip'[q] = ip[q]
    BY <1>4, <2>1, PeerAssumption DEF PeerAssumption, CreatePop, KnownInv, TypeOK
  <2>3. \A b \in Addresses : Owner(b)' = IF b = a THEN s ELSE Owner(b)
    <3>1. Owner(a)' = s
      BY <1>1, <2>2 DEF OwnedBy, Owners
    <3>2. ASSUME NEW b \in Addresses, b # a PROVE Owner(b)' = Owner(b)
      <4>1. \A q \in Sessions : (ip'[q] = b /\ returned'[q] = 0) <=> (ip[q] = b /\ returned[q] = 0)
        BY <2>2, <3>2, PeerAssumption DEF PeerAssumption
      <4>. QED BY <1>1, <4>1 DEF OwnedBy, Owners
    <3>. QED BY <3>1, <3>2
  <2>4. Owners' = [Owners EXCEPT ![a] = s]
    BY <2>2, <2>3 DEF Owners
  <2>5. s \notin served /\ served' = served \cup {s}
    BY <2>2
  <2>6. Lease!Lease(s, a)
    BY <2>1, <2>2, <2>4, <2>5 DEF Owners, Lease!Lease
  <2>. QED BY <2>2, <2>6 DEF Lease!Next
<1>5. ASSUME NEW s \in Sessions, GiveBack(s), UNCHANGED ip,
             (ReleaseAddress /\ s = agent.cur) \/ CreationFails(s)
      PROVE  Lease!Next
  <2>. DEFINE a == ip[s]
  <2>1. a \in Addresses /\ a # None /\ s # None
    BY <1>5, GiverKnown, PeerAssumption DEF PeerAssumption
  <2>2. /\ pool' = pool \cup {a} /\ returned'[s] = returned[s] + 1 /\ returned[s] \in Nat
        /\ \A q \in Sessions : q # s => returned'[q] = returned[q]
    BY <1>5 DEF GiveBack, TypeOK
  <2>3. returned[s] = 0 /\ returned'[s] # 0
    BY <2>2 DEF OnceInv
  <2>4. \A q \in Sessions : ip[q] = a /\ returned[q] = 0 => q = s
    BY <2>1, <2>3 DEF Exclusive, Alone, Holder
  <2>5. Owner(a) = s
    BY <1>1, <2>1, <2>3 DEF OwnedBy, Owners
  <2>. HIDE DEF a
  <2>6. \A b \in Addresses : Owner(b)' = IF b = a THEN None ELSE Owner(b)
    <3>1. \A q \in Sessions : ~(ip'[q] = a /\ returned'[q] = 0)
      BY <1>5, <2>2, <2>3, <2>4
    <3>2. ASSUME NEW b \in Addresses, b = a PROVE Owner(b)' = None
      BY <1>1, <3>1, <3>2 DEF OwnedBy, Owners
    <3>3. ASSUME NEW b \in Addresses, b # a PROVE Owner(b)' = Owner(b)
      <4>1. \A q \in Sessions : (ip'[q] = b /\ returned'[q] = 0) <=> (ip[q] = b /\ returned[q] = 0)
        BY <1>5, <2>2, <3>3 DEF a
      <4>. QED BY <1>1, <4>1 DEF OwnedBy, Owners
    <3>. QED BY <3>2, <3>3
  <2>7. Owners' = [Owners EXCEPT ![a] = None]
    BY <2>1, <2>6 DEF Owners
  <2>8. served' = served
    BY <1>5
  <2>9. Lease!Release(a)
    BY <2>1, <2>2, <2>5, <2>7, <2>8 DEF Owners, Lease!Release
  <2>. QED BY <2>1, <2>9 DEF Lease!Next
<1>. QED BY <1>2, <1>3, <1>4, <1>5, PoolFrame

(* The pool, the API, billing and the agent implement AddressLease: an     *)
(* address is leased to one session at a time, a session leases once, and  *)
(* only the holder's address goes back (server.js:241-284, main.go:232).   *)
THEOREM LeaseImplemented ==
  ASSUME OneSeeding, OneTick, NoFailureStored
  PROVE  Spec => ImplementsLease
<1>. DEFINE Inv == TypeOK /\ KnownInv /\ EvictInv /\ LeaseInv /\ OnceInv
<1>1. Init => Lease!Init
  BY InitLeased
<1>2. Inv /\ Inv' /\ [Next]_vars => [Lease!Next]_(Lease!leaseVars)
  <2>. SUFFICES ASSUME Inv, Inv', [Next]_vars
                PROVE  Lease!Next \/ UNCHANGED Lease!leaseVars
    OBVIOUS
  <2>1. Exclusive /\ Exclusive'
    <3>1. Exclusive
      BY ExclusiveHolds
    <3>2. Exclusive'
      <4>1. \A s \in Sessions : ~Repeated(ip[s])'
        <5>1. \A s \in Sessions : returned'[s] \in Nat /\ returned'[s] <= 1
          BY DEF OnceInv, TypeOK
        <5>2. \A n \in Nat : n <= 1 => ~(n > 1)
          OBVIOUS
        <5>. QED BY <5>1, <5>2 DEF Repeated, FailedStored, NoFailureStored
      <4>. QED BY <4>1 DEF LeaseInv, Exclusive
    <3>. QED BY <3>1, <3>2
  <2>2. CASE UNCHANGED vars
    BY <2>2 DEF vars, Lease!leaseVars, Owner, Holds
  <2>3. CASE Next
    BY <2>1, <2>3, StepLeases DEF LeaseInv
  <2>. QED BY <2>2, <2>3
<1>3. Spec => []Inv
  BY OnceInvariant
<1>. QED BY <1>1, <1>2, <1>3, PTL DEF Spec, ImplementsLease, Lease!Spec
===============================================================================
