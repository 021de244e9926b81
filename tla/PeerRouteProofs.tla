---------------------------- MODULE PeerRouteProofs ----------------------------
(***************************************************************************)
(* What WireGuard routes: no address is in the pool while a peer still has *)
(* it, and no peer waits for news that nobody carries, for any number of   *)
(* sessions, addresses, keys and mishaps.                                  *)
(***************************************************************************)
EXTENDS PeerLeaseProofs

Adds(e) == e.type = "PEER_ADD"

(* A PEER_ADD is heard before the PEER_EVICT.                              *)
AddsFirst ==
  \A i, j \in 1 .. Len(channel) :
    Adds(channel[i]) /\ Evicts(channel[j]) /\ channel[i].session = channel[j].session => i < j

(* A route belongs to a session that holds the address; whoever is about   *)
(* to install one is, too, and a session whose peer is being cleaned up    *)
(* has no route left.                                                      *)
RouteInv ==
  /\ \A k \in Keys : wg[k] # None =>
       \E s \in Sessions : Known(s) /\ returned[s] = 0 /\ key[s] = k /\ ip[s] = wg[k]
  /\ \A i \in 1 .. Len(channel) : Adds(channel[i]) =>
       returned[channel[i].session] = 0 /\ ~Cleaning(channel[i].session)
  /\ AddsFirst
  /\ agent.pc = "apply" => returned[agent.cur] = 0
  /\ \A s \in Sessions : Cleaning(s) => \A k \in Keys : wg[k] # ip[s]

LEMMA RouteInit == Init => RouteInv
  BY DEF Init, RouteInv, AddsFirst, Ready, Down, Cleaning

LEMMA WgFrame ==
  ASSUME Next
  PROVE  \/ UNCHANGED wg
         \/ ResyncApply \/ HandleAdd \/ HandleEvict
<1>1. ASSUME NEW d \in Seeders, SeedStep(d) PROVE UNCHANGED wg
  BY <1>1 DEF SeedStep, SeedCount, SeedFill
<1>2. ASSUME NEW s \in Sessions, CreateStep(s) PROVE UNCHANGED wg
  BY <1>2 DEF CreateStep, CreatePop, CreateNoAddress, CreateUnconfigured, CreateStore,
              CreatePublish, CreateFailsUnstored, CreateFailsStored, CreateDies
<1>3. ASSUME NEW t \in Ticks, TickStep(t) PROVE UNCHANGED wg
  BY <1>3 DEF TickStep, TickFindsExhausted, TickEvict, TickPublish, TickDies
<1>4. ASSUME AgentHandles PROVE UNCHANGED wg \/ ResyncApply \/ HandleAdd \/ HandleEvict
  BY <1>4 DEF AgentHandles, AgentStart, ResyncRead, AgentSubscribe, TrackPeer, UntrackPeer,
              ReleaseAddress
<1>5. ASSUME AgentCallFails \/ EventLost \/ AgentDies PROVE UNCHANGED wg
  BY <1>5 DEF AgentCallFails, EventLost, AgentDies
<1>. QED BY <1>1, <1>2, <1>3, <1>4, <1>5 DEF Next

LEMMA KeyFrame ==
  ASSUME TypeOK, Next
  PROVE  \/ UNCHANGED key
         \/ \E s \in Sessions, k \in Keys : CreatePop(s, k)
<1>1. ASSUME NEW d \in Seeders, SeedStep(d) PROVE UNCHANGED key
  BY <1>1 DEF SeedStep, SeedCount, SeedFill
<1>2. ASSUME NEW s \in Sessions, CreateStep(s)
      PROVE  UNCHANGED key \/ \E k \in Keys : CreatePop(s, k)
  BY <1>2 DEF CreateStep, CreateNoAddress, CreateUnconfigured, CreateStore,
              CreatePublish, CreateFailsUnstored, CreateFailsStored, CreateDies
<1>3. ASSUME NEW t \in Ticks, TickStep(t) PROVE UNCHANGED key
  BY <1>3 DEF TickStep, TickFindsExhausted, TickEvict, TickPublish, TickDies
<1>4. ASSUME AgentHandles \/ AgentCallFails \/ EventLost \/ AgentDies PROVE UNCHANGED key
  BY <1>4 DEF AgentHandles, AgentStart, ResyncRead, ResyncApply, AgentSubscribe, HandleAdd,
              TrackPeer, HandleEvict, UntrackPeer, ReleaseAddress, AgentCallFails,
              EventLost, AgentDies
<1>. QED BY <1>1, <1>2, <1>3, <1>4 DEF Next

LEMMA NotGivenBack ==
  ASSUME TypeOK, KnownInv, Next, NoFailureStored,
         NEW s \in Sessions, Known(s), returned[s] = 0, ~ReleaseAddress \/ s # agent.cur
  PROVE  returned'[s] = 0 /\ ip'[s] = ip[s] /\ key'[s] = key[s] /\ Known(s)'
<1>1. create[s] \notin {"none", "popped"}
  BY DEF KnownInv, Known
<1>2. ASSUME NEW q \in Sessions, NEW k \in Keys, CreatePop(q, k)
      PROVE  returned'[s] = 0 /\ ip'[s] = ip[s] /\ key'[s] = key[s]
  BY <1>1, <1>2 DEF CreatePop, Pop, TypeOK
<1>3. ~CreationFails(s)
  BY <1>1 DEF NoFailureStored, CreationFails
<1>4. ASSUME NEW q \in Sessions, GiveBack(q), q # s PROVE returned'[s] = 0
  BY <1>4 DEF GiveBack, TypeOK
<1>5. returned'[s] = 0 /\ ip'[s] = ip[s]
  BY <1>2, <1>3, <1>4, PoolFrame
<1>6. key'[s] = key[s]
  BY <1>2, KeyFrame
<1>7. Known(s)'
  BY StatusFrame DEF Known, CreateStore, TypeOK
<1>. QED BY <1>5, <1>6, <1>7

(* The session whose PEER_ADD arrives, or that a resync installs, holds    *)
(* its address.                                                            *)
LEMMA InstallerHolds ==
  ASSUME TypeOK, KnownInv, RouteInv, Next, ResyncApply \/ HandleAdd
  PROVE  \E s \in Sessions : /\ Known(s) /\ returned[s] = 0 /\ ~Cleaning(s)
                             /\ WgSet(key[s], ip[s]) /\ UNCHANGED <<returned, ip, key, status>>
<1>1. CASE ResyncApply
  <2>1. PICK s \in Sessions : s = agent.cur /\ Known(s) /\ returned[s] = 0
    BY <1>1 DEF ResyncApply, TypeOK, KnownInv, RouteInv
  <2>. QED BY <1>1, <2>1 DEF ResyncApply, Cleaning
<1>2. CASE HandleAdd
  <2>1. channel # <<>> /\ channel' = Tail(channel) /\ Adds(Head(channel)) /\ agent.pc = "ready"
    BY <1>2 DEF HandleAdd, Take, Adds
  <2>2. Head(channel) = channel[1] /\ 1 \in 1 .. Len(channel)
    BY <2>1, Taken
  <2>3. PICK s \in Sessions : s = Head(channel).session
    BY <2>2, SessionsNamed
  <2>4. Known(s) /\ returned[s] = 0
    BY <2>1, <2>2, <2>3 DEF KnownInv, RouteInv
  <2>. QED BY <1>2, <2>1, <2>3, <2>4 DEF HandleAdd, Cleaning
<1>. QED BY <1>1, <1>2

LEMMA RoutesHeld ==
  ASSUME TypeOK, KnownInv, RouteInv, Next, NoFailureStored,
         NEW k \in Keys, wg'[k] # None
  PROVE  \E s \in Sessions : Known(s)' /\ returned'[s] = 0 /\ key'[s] = k /\ ip'[s] = wg'[k]
<1>1. ASSUME wg'[k] = wg[k]
      PROVE  \E s \in Sessions : Known(s)' /\ returned'[s] = 0 /\ key'[s] = k /\ ip'[s] = wg'[k]
  <2>1. PICK s \in Sessions : Known(s) /\ returned[s] = 0 /\ key[s] = k /\ ip[s] = wg[k]
    BY <1>1 DEF RouteInv
  <2>2. ~ReleaseAddress \/ s # agent.cur
    BY <2>1 DEF RouteInv, Cleaning, ReleaseAddress
  <2>. QED BY <1>1, <2>1, <2>2, NotGivenBack
<1>2. CASE ResyncApply \/ HandleAdd
  <2>1. PICK s \in Sessions : /\ Known(s) /\ returned[s] = 0 /\ ~Cleaning(s)
                              /\ WgSet(key[s], ip[s]) /\ UNCHANGED <<returned, ip, key, status>>
    BY <1>2, InstallerHolds
  <2>2. CASE k = key[s]
    <3>1. wg'[k] = ip[s]
      BY <2>1, <2>2 DEF WgSet
    <3>. QED BY <2>1, <2>2, <3>1 DEF Known
  <2>3. CASE k # key[s]
    <3>1. wg'[k] = wg[k]
      BY <2>1, <2>3 DEF WgSet
    <3>. QED BY <1>1, <3>1
  <2>. QED BY <2>2, <2>3
<1>3. CASE HandleEvict
  <2>1. wg' = [wg EXCEPT ![key[Head(channel).session]] = None]
    BY <1>3 DEF HandleEvict, WgRemove
  <2>2. wg'[k] = wg[k]
    BY <2>1 DEF TypeOK
  <2>. QED BY <1>1, <2>2
<1>. QED BY <1>1, <1>2, <1>3, WgFrame

(* What is added has its address while the news is on its way.             *)
LEMMA AddedHeld ==
  ASSUME TypeOK, KnownInv, EvictInv, OnceInv, RouteInv, Next, NoFailureStored,
         NEW i \in 1 .. Len(channel'), Adds(channel'[i])
  PROVE  returned'[channel'[i].session] = 0 /\ ~Cleaning(channel[i].session)'
<1>. DEFINE Held(q) == returned'[q] = 0 /\ ~Cleaning(q)'
<1>1. ASSUME NEW s \in Sessions, Known(s), returned[s] = 0, ~Cleaning(s),
             ~HandleEvict \/ Head(channel).session # s
      PROVE  returned'[s] = 0 /\ ~Cleaning(s)'
  <2>1. ~ReleaseAddress \/ s # agent.cur
    BY <1>1 DEF ReleaseAddress, Cleaning
  <2>. QED BY <1>1, <2>1, NotGivenBack, CleaningFrame
<1>2. ASSUME NEW j \in 1 .. Len(channel), channel'[i] = channel[j],
             j # 1 \/ ~HandleEvict
      PROVE  returned'[channel'[i].session] = 0 /\ ~Cleaning(channel[i].session)'
  <2>1. PICK s \in Sessions : s = channel[j].session
    BY SessionsNamed
  <2>2. Known(s) /\ returned[s] = 0 /\ ~Cleaning(s) /\ Adds(channel[j])
    BY <1>2, <2>1 DEF KnownInv, RouteInv
  <2>3. ~HandleEvict \/ Head(channel).session # s
    <3>1. ASSUME HandleEvict, Head(channel).session = s PROVE FALSE
      <4>1. channel # <<>> /\ channel' = Tail(channel) /\ Evicts(Head(channel))
        BY <3>1 DEF HandleEvict, Take, Evicts
      <4>2. Head(channel) = channel[1] /\ 1 \in 1 .. Len(channel) /\ j # 1 /\ j \in Nat
        BY <1>2, <3>1, <4>1, Taken
      <4>3. j < 1
        BY <2>1, <2>2, <3>1, <4>1, <4>2 DEF RouteInv, AddsFirst
      <4>. QED BY <4>2, <4>3
    <3>. QED BY <3>1
  <2>4. returned'[s] = 0 /\ ~Cleaning(s)'
    BY <1>1, <2>2, <2>3
  <2>5. channel'[i].session = s
    BY <1>2, <2>1
  <2>. QED BY <2>4, <2>5 DEF Cleaning
<1>3. CASE UNCHANGED channel
  <2>1. ~HandleEvict
    BY <1>3, TailMoves DEF HandleEvict, Take
  <2>. QED BY <1>2, <1>3, <2>1
<1>4. CASE Len(channel') = 0
  BY <1>4
<1>5. CASE channel # <<>> /\ channel' = Tail(channel)
  <2>1. i + 1 \in 1 .. Len(channel) /\ channel'[i] = channel[i + 1] /\ i + 1 # 1
    BY <1>5, Taken
  <2>. QED BY <1>2, <2>1
<1>6. ASSUME NEW s \in Sessions, CreatePublish(s)
      PROVE  returned'[channel'[i].session] = 0 /\ ~Cleaning(channel[i].session)'
  <2>1. Event("PEER_ADD", s) \in Events /\ Event("PEER_ADD", s).session = s
    BY DEF Event, Events
  <2>2. /\ UNCHANGED <<agent, returned>>
        /\ \/ i \in 1 .. Len(channel) /\ channel'[i] = channel[i]
           \/ channel'[i] = Event("PEER_ADD", s)
    BY <1>6, <2>1, Published DEF CreatePublish
  <2>3. create[s] = "stored"
    BY <1>6 DEF CreatePublish
  <2>4. returned[s] = 0 /\ ~Cleaning(s)
    BY <2>3 DEF EvictInv, FailedStored, Ended, Over
  <2>. QED BY <2>1, <2>2, <2>4 DEF RouteInv, Cleaning
<1>7. ASSUME NEW t \in Ticks, TickPublish(t)
      PROVE  returned'[channel'[i].session] = 0 /\ ~Cleaning(channel[i].session)'
  <2>1. Event("PEER_EVICT", tick[t].cur) \in Events /\ ~Adds(Event("PEER_EVICT", tick[t].cur))
    BY <1>7, SessionsNamed DEF TickPublish, Event, Events, Adds
  <2>2. /\ UNCHANGED <<agent, returned>>
        /\ i \in 1 .. Len(channel) /\ channel'[i] = channel[i]
    BY <1>7, <2>1, Published DEF TickPublish
  <2>. QED BY <2>2 DEF RouteInv, Cleaning
<1>. QED BY <1>3, <1>4, <1>5, <1>6, <1>7, ChannelFrame

LEMMA AddedFirst ==
  ASSUME TypeOK, KnownInv, EvictInv, AddsFirst, Next,
         NEW i \in 1 .. Len(channel'), NEW j \in 1 .. Len(channel'),
         Adds(channel'[i]), Evicts(channel'[j]), channel'[i].session = channel'[j].session
  PROVE  i < j
<1>1. CASE UNCHANGED channel
  BY <1>1 DEF AddsFirst
<1>2. CASE Len(channel') = 0
  BY <1>2
<1>3. CASE channel # <<>> /\ channel' = Tail(channel)
  <2>1. /\ i + 1 \in 1 .. Len(channel) /\ channel'[i] = channel[i + 1]
        /\ j + 1 \in 1 .. Len(channel) /\ channel'[j] = channel[j + 1]
    BY <1>3, Taken
  <2>2. i + 1 < j + 1
    BY <2>1 DEF AddsFirst
  <2>. QED BY <2>2
<1>4. ASSUME NEW e \in Events, Publish(e),
             \/ Evicts(e) /\ ~Adds(e)
             \/ ~Evicts(e) /\ \A n \in 1 .. Len(channel) : Evicts(channel[n]) => channel[n].session # e.session
      PROVE  i < j
  <2>1. /\ Len(channel) \in Nat
        /\ \/ i \in 1 .. Len(channel) /\ channel'[i] = channel[i]
           \/ i = Len(channel) + 1 /\ channel'[i] = e
        /\ \/ j \in 1 .. Len(channel) /\ channel'[j] = channel[j]
           \/ j = Len(channel) + 1 /\ channel'[j] = e
    BY <1>4, Published
  <2>. QED BY <1>4, <2>1 DEF AddsFirst
<1>5. ASSUME NEW s \in Sessions, CreatePublish(s) PROVE i < j
  <2>1. /\ Event("PEER_ADD", s) \in Events /\ Event("PEER_ADD", s).session = s
        /\ ~Evicts(Event("PEER_ADD", s))
    BY DEF Event, Events, Evicts
  <2>2. \A n \in 1 .. Len(channel) : Evicts(channel[n]) => channel[n].session # s
    BY <1>5 DEF CreatePublish, EvictInv, Evicts, Ended, Over
  <2>. QED BY <1>4, <1>5, <2>1, <2>2 DEF CreatePublish
<1>6. ASSUME NEW t \in Ticks, TickPublish(t) PROVE i < j
  <2>1. /\ Event("PEER_EVICT", tick[t].cur) \in Events
        /\ Evicts(Event("PEER_EVICT", tick[t].cur)) /\ ~Adds(Event("PEER_EVICT", tick[t].cur))
    BY <1>6, SessionsNamed DEF TickPublish, Event, Events, Evicts, Adds
  <2>. QED BY <1>4, <1>6, <2>1 DEF TickPublish
<1>. QED BY <1>1, <1>2, <1>3, <1>5, <1>6, ChannelFrame

(* Who cleans up a peer has just removed the only route to its address.    *)
LEMMA CleanedUnrouted ==
  ASSUME TypeOK, KnownInv, Exclusive, OnceInv, RouteInv, Next,
         NEW s \in Sessions, Cleaning(s)', NEW k \in Keys
  PROVE  wg'[k] # ip'[s]
<1>1. CASE Cleaning(s)
  <2>1. UNCHANGED wg
    BY <1>1, WgFrame DEF ResyncApply, HandleAdd, HandleEvict, Take, Cleaning
  <2>2. Known(s) /\ wg[k] # ip[s]
    BY <1>1 DEF KnownInv, RouteInv, Cleaning
  <2>3. ip'[s] = ip[s]
    <3>1. ASSUME NEW q \in Sessions, NEW n \in Keys, CreatePop(q, n) PROVE ip'[s] = ip[s]
      BY <2>2, <3>1 DEF CreatePop, Pop, KnownInv, Known, TypeOK
    <3>. QED BY <3>1, PoolFrame
  <2>. QED BY <2>1, <2>2, <2>3
<1>2. CASE HandleEvict /\ s = Head(channel).session
  <2>1. channel # <<>> /\ channel' = Tail(channel) /\ Evicts(Head(channel))
        /\ UNCHANGED <<ip, returned>> /\ wg' = [wg EXCEPT ![key[s]] = None]
    BY <1>2 DEF HandleEvict, Take, Evicts, WgRemove
  <2>2. Head(channel) = channel[1] /\ 1 \in 1 .. Len(channel)
    BY <2>1, Taken
  <2>3. returned[s] = 0 /\ Known(s)
    BY <1>2, <2>1, <2>2 DEF OnceInv, KnownInv
  <2>4. ip[s] \in Addresses /\ ip[s] # None
    BY <2>3, PeerAssumption DEF KnownInv, PeerAssumption
  <2>5. ASSUME wg[k] = ip[s] PROVE k = key[s]
    <3>1. PICK q \in Sessions : Known(q) /\ returned[q] = 0 /\ key[q] = k /\ ip[q] = wg[k]
      BY <2>4, <2>5 DEF RouteInv
    <3>2. Holder(q) /\ Holder(s) /\ ip[q] = ip[s]
      BY <2>3, <2>4, <2>5, <3>1 DEF Holder
    <3>. QED BY <3>1, <3>2 DEF Exclusive, Alone
  <2>6. wg'[k] = IF k = key[s] THEN None ELSE wg[k]
    BY <2>1 DEF TypeOK
  <2>. QED BY <2>1, <2>4, <2>5, <2>6
<1>. QED BY <1>1, <1>2, CleaningFrame

(* A resync installs only what was active when it looked.                  *)
LEMMA AppliedHeld ==
  ASSUME TypeOK, KnownInv, EvictInv, RouteInv, Next, NoFailureStored, agent'.pc = "apply"
  PROVE  returned'[agent'.cur] = 0
<1>1. agent \in [pc : AgentStates, cur : Sessions \cup {None}, todo : SUBSET Sessions]
  BY DEF TypeOK
<1>2. ASSUME UNCHANGED agent PROVE returned'[agent'.cur] = 0
  <2>1. agent.pc = "apply" /\ agent.cur \in Sessions /\ Known(agent.cur) /\ returned[agent.cur] = 0
    BY <1>2 DEF TypeOK, KnownInv, RouteInv
  <2>2. ~ReleaseAddress
    BY <2>1 DEF ReleaseAddress
  <2>. QED BY <1>2, <2>1, <2>2, NotGivenBack
<1>3. ASSUME NEW s \in Sessions, ResyncRead(s) PROVE returned'[agent'.cur] = 0
  <2>1. status[s] = "active" /\ agent'.cur = s /\ UNCHANGED returned
    <3>1. agent' = [agent EXCEPT !.todo = @ \ {s}] => agent'.pc = agent.pc
      BY <1>1
    <3>. QED BY <1>3, <3>1 DEF ResyncRead
  <2>2. ~FailedStored(s)
    BY DEF FailedStored, NoFailureStored
  <2>. QED BY <2>1, <2>2 DEF EvictInv, Active
<1>4. ASSUME NEW d \in Seeders, SeedStep(d) PROVE UNCHANGED agent
  BY <1>4 DEF SeedStep, SeedCount, SeedFill
<1>5. ASSUME NEW s \in Sessions, CreateStep(s) PROVE UNCHANGED agent
  BY <1>5 DEF CreateStep, CreatePop, CreateNoAddress, CreateUnconfigured, CreateStore,
              CreatePublish, CreateFailsUnstored, CreateFailsStored, CreateDies
<1>6. ASSUME NEW t \in Ticks, TickStep(t) PROVE UNCHANGED agent
  BY <1>6 DEF TickStep, TickFindsExhausted, TickEvict, TickPublish, TickDies
<1>7. ASSUME HandleAdd \/ HandleEvict PROVE FALSE
  <2>1. PICK s, pc \in {"track", "untrack"} : agent' = [pc |-> pc, cur |-> s, todo |-> {}]
    BY <1>7 DEF HandleAdd, HandleEvict, Take, Ready
  <2>. QED BY <2>1
<1>8. ASSUME AgentStart \/ AgentSubscribe \/ TrackPeer \/ ReleaseAddress \/ AgentDies PROVE FALSE
  <2>1. \/ agent' = [pc |-> "resync", cur |-> None, todo |-> activePeers]
        \/ agent' = [pc |-> "ready", cur |-> None, todo |-> {}]
        \/ agent' = [pc |-> "down", cur |-> None, todo |-> {}]
    BY <1>8 DEF AgentStart, AgentSubscribe, TrackPeer, ReleaseAddress, AgentDies, Ready, Down
  <2>2. agent'.pc \in {"resync", "ready", "down"}
    BY <2>1
  <2>. QED BY <2>2
<1>9. ASSUME ResyncApply \/ UntrackPeer PROVE FALSE
  BY <1>1, <1>9 DEF ResyncApply, UntrackPeer
<1>10. ASSUME AgentCallFails PROVE UNCHANGED agent
  <2>1. \/ UNCHANGED agent
        \/ agent' = Ready
        \/ agent' = [agent EXCEPT !.pc = "release"]
        \/ agent' = [agent EXCEPT !.pc = "resync", !.cur = None]
    BY <1>10 DEF AgentCallFails
  <2>2. agent' # Ready
    BY DEF Ready
  <2>3. agent' # [agent EXCEPT !.pc = "release"]
    BY <1>1
  <2>4. agent' # [agent EXCEPT !.pc = "resync", !.cur = None]
    BY <1>1
  <2>. QED BY <2>1, <2>2, <2>3, <2>4
<1>11. ASSUME EventLost PROVE UNCHANGED agent
  BY <1>11 DEF EventLost
<1>. QED
  BY <1>2, <1>3, <1>4, <1>5, <1>6, <1>7, <1>8, <1>9, <1>10, <1>11 DEF Next, AgentHandles

LEMMA RouteNext ==
  ASSUME TypeOK, KnownInv, EvictInv, Exclusive, OnceInv, RouteInv, NoFailureStored, Next
  PROVE  RouteInv'
<1>1. \A k \in Keys : wg'[k] # None =>
        \E s \in Sessions : Known(s)' /\ returned'[s] = 0 /\ key'[s] = k /\ ip'[s] = wg'[k]
  BY RoutesHeld
<1>2. \A i \in 1 .. Len(channel') : Adds(channel'[i]) =>
        returned'[channel'[i].session] = 0 /\ ~Cleaning(channel[i].session)'
  BY AddedHeld
<1>3. \A i, j \in 1 .. Len(channel') :
        Adds(channel'[i]) /\ Evicts(channel'[j]) /\ channel'[i].session = channel'[j].session => i < j
  BY AddedFirst DEF RouteInv
<1>4. agent'.pc = "apply" => returned'[agent'.cur] = 0
  BY AppliedHeld
<1>5. \A s \in Sessions : Cleaning(s)' => \A k \in Keys : wg'[k] # ip'[s]
  BY CleanedUnrouted
<1>. QED BY <1>1, <1>2, <1>3, <1>4, <1>5 DEF RouteInv, AddsFirst, Adds, Evicts

LEMMA RouteInvariant ==
  ASSUME OneSeeding, OneTick, NoFailureStored
  PROVE  Spec => [](TypeOK /\ KnownInv /\ EvictInv /\ LeaseInv /\ OnceInv /\ RouteInv)
<1>. DEFINE Inv == TypeOK /\ KnownInv /\ EvictInv /\ LeaseInv /\ OnceInv
<1>1. Init => RouteInv
  BY RouteInit
<1>2. Inv /\ RouteInv /\ [Next]_vars => RouteInv'
  <2>1. ASSUME RouteInv, UNCHANGED vars PROVE RouteInv'
    BY <2>1 DEF vars, RouteInv, AddsFirst, Known, Cleaning, Adds, Evicts
  <2>. QED BY <2>1, RouteNext, ExclusiveHolds
<1>3. Spec => []Inv
  BY OnceInvariant
<1>. QED BY <1>1, <1>2, <1>3, PTL DEF Spec

(* One worker whose ticks do not overlap and one seeding process: as long  *)
(* as no creation fails after its session was stored, an address in the    *)
(* pool is routed to no peer, whichever of the other mishaps happen        *)
(* (main.go:140-252).                                                      *)
THEOREM PoolIsUnrouted ==
  ASSUME OneSeeding, OneTick, NoFailureStored
  PROVE  Spec => []PoolUnrouted
<1>1. ASSUME TypeOK, KnownInv, LeaseInv, OnceInv, RouteInv PROVE PoolUnrouted
  <2>. SUFFICES ASSUME NEW a \in pool, NEW k \in Keys, wg[k] = a PROVE FALSE
    BY DEF PoolUnrouted
  <2>1. a # None
    BY <1>1, PeerAssumption DEF PeerAssumption, TypeOK
  <2>2. PICK s \in Sessions : Known(s) /\ returned[s] = 0 /\ key[s] = k /\ ip[s] = wg[k]
    BY <1>1, <2>1 DEF RouteInv
  <2>3. Holder(s) /\ ip[s] \in pool
    BY <2>1, <2>2 DEF Holder
  <2>. QED BY <1>1, <2>3, ExclusiveHolds DEF Exclusive, Alone
<1>. QED BY <1>1, RouteInvariant, PTL

(* Under the same conditions no event for another session, no late event,  *)
(* no restart and no resync of the agent cuts off the client of an active  *)
(* session: only the end of a second session with its key does.            *)
LEMMA KeptByStep ==
  ASSUME TypeOK, KnownInv, EvictInv, Exclusive, RouteInv, NoFailureStored, Next,
         NEW s \in Sessions, Active(s), Routed(s), Active(s)'
  PROVE  \E q \in Sessions :
           /\ key[q] = key[s]
           /\ \/ Active(q)' /\ Routed(q)'
              \/ q # s /\ status[q] = "evicted"
<1>. DEFINE Kept == \E q \in Sessions :
                      /\ key[q] = key[s]
                      /\ \/ Active(q)' /\ Routed(q)'
                         \/ q # s /\ status[q] = "evicted"
<1>1. Known(s) /\ key[s] \in Keys /\ wg[key[s]] = ip[s]
  BY DEF Active, Known, Routed, TypeOK
<1>2. returned[s] = 0 /\ Holder(s)
  <2>1. ip[s] # None
    BY <1>1, PeerAssumption DEF KnownInv, PeerAssumption
  <2>. QED BY <2>1 DEF EvictInv, FailedStored, NoFailureStored, Holder
<1>3. ip'[s] = ip[s] /\ key'[s] = key[s]
  <2>1. ~ReleaseAddress \/ s # agent.cur
    BY DEF ReleaseAddress, EvictInv, Cleaning, Ended, Active
  <2>. QED BY <1>1, <1>2, <2>1, NotGivenBack
<1>4. ASSUME wg'[key[s]] = wg[key[s]] PROVE Kept
  BY <1>1, <1>3, <1>4 DEF Routed
<1>5. CASE ResyncApply \/ HandleAdd
  <2>1. PICK q \in Sessions : /\ Known(q) /\ returned[q] = 0
                              /\ WgSet(key[q], ip[q]) /\ UNCHANGED <<returned, ip, key, status>>
    BY <1>5, InstallerHolds
  <2>2. CASE key[q] = key[s]
    <3>1. wg'[key[q]] = ip[q]
      BY <1>1, <2>1, <2>2 DEF WgSet
    <3>2. Routed(q)'
      BY <1>1, <2>1, <2>2, <3>1 DEF Routed
    <3>3. status[q] = "active" \/ status[q] = "evicted"
      BY <2>1 DEF Known, TypeOK
    <3>. QED BY <2>1, <2>2, <3>2, <3>3 DEF Active
  <2>3. CASE key[q] # key[s]
    <3>1. ip[q] # ip[s]
      <4>1. ip[q] = ip[s] => Holder(q) /\ q # s
        BY <1>2, <2>1, <2>3 DEF Holder
      <4>. QED BY <1>2, <4>1 DEF Exclusive, Alone
    <3>2. wg'[key[s]] = wg[key[s]]
      BY <1>1, <2>1, <2>3, <3>1 DEF WgSet
    <3>. QED BY <1>4, <3>2
  <2>. QED BY <2>2, <2>3
<1>6. CASE HandleEvict
  <2>1. channel # <<>> /\ channel' = Tail(channel) /\ Head(channel).type = "PEER_EVICT"
        /\ wg' = [wg EXCEPT ![key[Head(channel).session]] = None]
    BY <1>6 DEF HandleEvict, Take, WgRemove
  <2>2. Head(channel) = channel[1] /\ 1 \in 1 .. Len(channel)
    BY <2>1, Taken
  <2>3. PICK q \in Sessions : q = Head(channel).session /\ status[q] = "evicted"
    BY <2>1, <2>2, SessionsNamed DEF EvictInv, Ended
  <2>4. CASE key[q] = key[s]
    BY <2>3, <2>4 DEF Active
  <2>5. CASE key[q] # key[s]
    <3>1. wg'[key[s]] = wg[key[s]]
      BY <1>1, <2>1, <2>3, <2>5 DEF TypeOK
    <3>. QED BY <1>4, <3>1
  <2>. QED BY <2>4, <2>5
<1>. QED BY <1>4, <1>5, <1>6, WgFrame

(* A client keeps the route of an active session (main.go:140-300).        *)
THEOREM RouteIsKept ==
  ASSUME OneSeeding, OneTick, NoFailureStored
  PROVE  Spec => RouteKeptWhileActive
<1>. DEFINE Inv  == TypeOK /\ KnownInv /\ EvictInv /\ LeaseInv /\ OnceInv /\ RouteInv
            Step == \A s \in Sessions :
                      Active(s) /\ Routed(s) /\ Active(s)' =>
                        \E q \in Sessions :
                          /\ key[q] = key[s]
                          /\ \/ Active(q)' /\ Routed(q)'
                             \/ q # s /\ status[q] = "evicted"
<1>1. Inv /\ [Next]_vars => [Step]_vars
  <2>1. Inv /\ Next => Step
    BY KeptByStep, ExclusiveHolds
  <2>. QED BY <2>1
<1>2. Spec => []Inv
  BY RouteInvariant
<1>3. Spec => [][Step]_vars
  BY <1>1, <1>2, PTL DEF Spec
<1>. QED BY <1>3 DEF RouteKeptWhileActive
-------------------------------------------------------------------------------
(* What peers_live assumes: the agent was there first and stays, no tick   *)
(* dies and no event is lost; creations may still fail in every way.       *)

Reliable ==
  AgentFirst /\ Mishaps \subseteq {"api dies", "create fails unstored", "create fails stored"}

LEMMA ReliableStep ==
  ASSUME TypeOK, Next, Reliable, Listening
  PROVE  /\ Listening'
         /\ UNCHANGED wg \/ HandleAdd \/ HandleEvict
         /\ \/ UNCHANGED channel
            \/ HandleAdd \/ HandleEvict
            \/ \E s \in Sessions : CreatePublish(s)
            \/ \E t \in Ticks : TickPublish(t)
<1>1. ~AgentCallFails /\ ~EventLost /\ ~AgentDies
  BY DEF Reliable, AgentCallFails, EventLost, AgentDies, Mishap
<1>2. ASSUME NEW d \in Seeders, SeedStep(d) PROVE UNCHANGED <<agent, channel, wg>>
  BY <1>2 DEF SeedStep, SeedCount, SeedFill
<1>3. ASSUME NEW s \in Sessions, CreateStep(s)
      PROVE  UNCHANGED <<agent, wg>> /\ (UNCHANGED channel \/ CreatePublish(s))
  BY <1>3 DEF CreateStep, CreatePop, CreateNoAddress, CreateUnconfigured, CreateStore,
              CreatePublish, CreateFailsUnstored, CreateFailsStored, CreateDies
<1>4. ASSUME NEW t \in Ticks, TickStep(t)
      PROVE  UNCHANGED <<agent, wg>> /\ (UNCHANGED channel \/ TickPublish(t))
  BY <1>4 DEF TickStep, TickFindsExhausted, TickEvict, TickPublish, TickDies
<1>5. ASSUME AgentHandles
      PROVE  /\ Listening'
             /\ UNCHANGED wg \/ HandleAdd \/ HandleEvict
             /\ UNCHANGED channel \/ HandleAdd \/ HandleEvict
  <2>1. agent \in [pc : AgentStates, cur : Sessions \cup {None}, todo : SUBSET Sessions]
    BY DEF TypeOK
  <2>2. ASSUME HandleAdd \/ HandleEvict PROVE Listening'
    <3>. DEFINE s == Head(channel).session
    <3>1. \/ agent' = [pc |-> "track", cur |-> s, todo |-> {}]
          \/ agent' = [pc |-> "untrack", cur |-> s, todo |-> {}]
      BY <2>2 DEF HandleAdd, HandleEvict, Take, Ready
    <3>. QED BY <3>1 DEF Listening
  <2>3. ASSUME TrackPeer \/ ReleaseAddress PROVE Listening' /\ UNCHANGED <<channel, wg>>
    BY <2>3 DEF TrackPeer, ReleaseAddress, Ready, Listening
  <2>4. ASSUME UntrackPeer PROVE Listening' /\ UNCHANGED <<channel, wg>>
    BY <2>1, <2>4 DEF UntrackPeer, Listening
  <2>. QED
    BY <1>5, <2>2, <2>3, <2>4
    DEF AgentHandles, AgentStart, ResyncApply, AgentSubscribe, ResyncRead, Listening
<1>. QED BY <1>1, <1>2, <1>3, <1>4, <1>5 DEF Next, Listening

(* News comes up where it is published and is lost only to its handler.    *)
LEMMA NewsComes ==
  ASSUME TypeOK, Next, Reliable, Listening, NEW type, NEW s \in Sessions, Waiting(type, s)'
  PROVE  \/ Waiting(type, s)
         \/ type = "PEER_ADD" /\ CreatePublish(s)
         \/ type = "PEER_EVICT" /\ \E t \in Ticks : TickPublish(t) /\ tick[t].cur = s
<1>1. PICK i \in 1 .. Len(channel') : channel'[i] = Event(type, s)
  BY DEF Waiting, Event
<1>2. ASSUME UNCHANGED channel PROVE Waiting(type, s)
  BY <1>1, <1>2 DEF Waiting
<1>3. ASSUME HandleAdd \/ HandleEvict PROVE Waiting(type, s)
  <2>1. channel # <<>> /\ channel' = Tail(channel)
    BY <1>3 DEF HandleAdd, HandleEvict, Take
  <2>2. i + 1 \in 1 .. Len(channel) /\ channel'[i] = channel[i + 1]
    BY <1>1, <2>1, Taken
  <2>. QED BY <1>1, <2>2 DEF Waiting
<1>4. ASSUME NEW q \in Sessions, CreatePublish(q)
      PROVE  Waiting(type, s) \/ (type = "PEER_ADD" /\ q = s)
  <2>1. Event("PEER_ADD", q) \in Events
    BY DEF Event, Events
  <2>2. \/ i \in 1 .. Len(channel) /\ channel'[i] = channel[i]
        \/ channel'[i] = Event("PEER_ADD", q)
    BY <1>1, <1>4, <2>1, Published DEF CreatePublish
  <2>. QED BY <1>1, <2>2 DEF Waiting, Event
<1>5. ASSUME NEW t \in Ticks, TickPublish(t)
      PROVE  Waiting(type, s) \/ (type = "PEER_EVICT" /\ tick[t].cur = s)
  <2>1. Event("PEER_EVICT", tick[t].cur) \in Events
    BY <1>5, SessionsNamed DEF TickPublish, Event, Events
  <2>2. \/ i \in 1 .. Len(channel) /\ channel'[i] = channel[i]
        \/ channel'[i] = Event("PEER_EVICT", tick[t].cur)
    BY <1>1, <1>5, <2>1, Published DEF TickPublish
  <2>. QED BY <1>1, <2>2 DEF Waiting, Event
<1>. QED BY <1>2, <1>3, <1>4, <1>5, ReliableStep

LEMMA Carried ==
  ASSUME TypeOK, Listening, NEW e \in Events, Publish(e)
  PROVE  /\ \E i \in 1 .. Len(channel') : channel'[i] = e
         /\ \A j \in 1 .. Len(channel) : j \in 1 .. Len(channel') /\ channel'[j] = channel[j]
<1>1. channel \in Seq(Events) /\ channel' = Append(channel, e)
  BY DEF TypeOK, Publish
<1>2. /\ Len(channel) \in Nat /\ Len(channel') = Len(channel) + 1
      /\ channel'[Len(channel) + 1] = e
      /\ \A j \in 1 .. Len(channel) : channel'[j] = channel[j]
  BY <1>1
<1>. QED BY <1>2

LEMMA NewsStays ==
  ASSUME TypeOK, Next, Reliable, Listening, NEW type, NEW s \in Sessions, Waiting(type, s)
  PROVE  \/ Waiting(type, s)'
         \/ /\ HandleAdd \/ HandleEvict
            /\ channel # <<>> /\ Head(channel) = Event(type, s)
<1>1. PICK i \in 1 .. Len(channel) : channel[i] = Event(type, s)
  BY DEF Waiting
<1>2. ASSUME UNCHANGED channel PROVE Waiting(type, s)'
  BY <1>1, <1>2 DEF Waiting, Event
<1>3. ASSUME HandleAdd \/ HandleEvict
      PROVE  Waiting(type, s)' \/ (channel # <<>> /\ Head(channel) = Event(type, s))
  <2>1. channel # <<>> /\ channel' = Tail(channel)
    BY <1>3 DEF HandleAdd, HandleEvict, Take
  <2>2. /\ Len(channel) \in Nat \ {0} /\ Head(channel) = channel[1]
        /\ Len(channel') = Len(channel) - 1
        /\ \A j \in 1 .. Len(channel') : channel'[j] = channel[j + 1]
    BY <2>1, Taken
  <2>3. ASSUME i # 1 PROVE Waiting(type, s)'
    <3>1. i - 1 \in 1 .. Len(channel') /\ channel'[i - 1] = channel[i]
      BY <2>2, <2>3
    <3>. QED BY <1>1, <3>1 DEF Waiting, Event
  <2>. QED BY <1>1, <2>1, <2>2, <2>3
<1>4. ASSUME NEW e \in Events, Publish(e) PROVE Waiting(type, s)'
  BY <1>1, <1>4, Carried DEF Waiting, Event
<1>5. ASSUME NEW q \in Sessions, CreatePublish(q) PROVE Waiting(type, s)'
  BY <1>4, <1>5 DEF CreatePublish, Event, Events
<1>6. ASSUME NEW t \in Ticks, TickPublish(t) PROVE Waiting(type, s)'
  <2>1. Event("PEER_EVICT", tick[t].cur) \in Events
    BY <1>6, SessionsNamed DEF TickPublish, Event, Events
  <2>. QED BY <1>4, <1>6, <2>1 DEF TickPublish
<1>. QED BY <1>2, <1>3, <1>5, <1>6, ReliableStep
(* A tick that is about to announce an eviction announces it.              *)
LEMMA AnnouncementStays ==
  ASSUME TypeOK, KnownInv, Next, Reliable, Listening, NEW s \in Sessions, Announcing(s)
  PROVE  \/ Announcing(s)'
         \/ HandleEvict /\ channel # <<>> /\ Head(channel).session = s
<1>1. CASE Waiting("PEER_EVICT", s)
  <2>1. ASSUME HandleAdd, Head(channel) = Event("PEER_EVICT", s) PROVE FALSE
    BY <2>1 DEF HandleAdd, Take, Event
  <2>2. Waiting("PEER_EVICT", s)' => Announcing(s)'
    BY DEF Announcing
  <2>. QED BY <1>1, <2>1, <2>2, NewsStays DEF Event
<1>2. ASSUME NEW t \in Ticks, tick[t].pc = "publish", tick[t].cur = s
      PROVE  Announcing(s)'
  <2>1. CASE tick'[t] = tick[t]
    BY <1>2, <2>1 DEF Announcing
  <2>2. CASE TickPublish(t)
    <3>1. Event("PEER_EVICT", s) \in Events
      BY DEF Event, Events
    <3>. QED BY <1>2, <2>2, <3>1, Carried DEF TickPublish, Announcing, Waiting, Event
  <2>3. ASSUME NEW u \in Ticks, TickStep(u), tick'[t] # tick[t] PROVE TickPublish(t)
    <3>1. u = t
      BY <2>3 DEF TickStep, TickFindsExhausted, TickEvict, TickPublish, TickDies, TypeOK
    <3>. QED BY <1>2, <2>3, <3>1
         DEF TickStep, TickFindsExhausted, TickEvict, TickDies, Mishap, Reliable
  <2>4. tick'[t] = tick[t] \/ \E u \in Ticks : TickStep(u)
    <3>1. ASSUME NEW d \in Seeders, SeedStep(d) PROVE UNCHANGED tick
      BY <3>1 DEF SeedStep, SeedCount, SeedFill
    <3>2. ASSUME NEW q \in Sessions, CreateStep(q) PROVE UNCHANGED tick
      BY <3>2 DEF CreateStep, CreatePop, CreateNoAddress, CreateUnconfigured, CreateStore,
                  CreatePublish, CreateFailsUnstored, CreateFailsStored, CreateDies
    <3>3. ASSUME AgentHandles \/ AgentCallFails \/ EventLost \/ AgentDies PROVE UNCHANGED tick
      BY <3>3 DEF AgentHandles, AgentStart, ResyncRead, ResyncApply, AgentSubscribe, HandleAdd,
                  TrackPeer, HandleEvict, UntrackPeer, ReleaseAddress, AgentCallFails,
                  EventLost, AgentDies
    <3>. QED BY <3>1, <3>2, <3>3 DEF Next
  <2>. QED BY <2>1, <2>2, <2>3, <2>4
<1>. QED BY <1>1, <1>2 DEF Announcing

(* An eviction is with a tick, in the channel or with the agent until its  *)
(* address is back; a PEER_ADD that is still to come comes before it.      *)

KeysApart == \A s, q \in Sessions : key[s] # None /\ key[s] = key[q] => s = q

KeyedInv == \A s \in Sessions : ip[s] # None => key[s] \in Keys

CarriedInv ==
  \A s \in Sessions : status[s] = "evicted" =>
    /\ returned[s] > 0 \/ Announcing(s) \/ Cleaning(s)
    /\ Routed(s) \/ Waiting("PEER_ADD", s) => Announcing(s)

UnderwayInv == Listening /\ KeysApart /\ KeyedInv /\ AddsFirst /\ CarriedInv
LEMMA UnderwayInit ==
  ASSUME Init, Reliable
  PROVE  UnderwayInv
<1>1. Listening
  BY DEF Init, Reliable, Listening, Ready
<1>. QED
  BY <1>1 DEF Init, UnderwayInv, KeysApart, KeyedInv, AddsFirst, CarriedInv

LEMMA KeysNext ==
  ASSUME TypeOK, Next, ~SharedKeys, KeysApart, KeyedInv
  PROVE  KeysApart' /\ KeyedInv'
<1>1. ASSUME NEW s \in Sessions, NEW k \in Keys, CreatePop(s, k)
      PROVE  KeysApart' /\ KeyedInv'
  <2>1. /\ key'[s] = k /\ k # None
        /\ \A q \in Sessions : key[q] # k /\ (q # s => key'[q] = key[q] /\ ip'[q] = ip[q])
    BY <1>1, PeerAssumption DEF PeerAssumption, CreatePop, Pop, TypeOK
  <2>. QED BY <2>1 DEF KeysApart, KeyedInv
<1>. QED BY <1>1, KeyFrame, PoolFrame DEF KeysApart, KeyedInv

(* What is known keeps its key and its address.                            *)
LEMMA KnownKeeps ==
  ASSUME TypeOK, KnownInv, Next, NEW s \in Sessions, Known(s)
  PROVE  key'[s] = key[s] /\ ip'[s] = ip[s] /\ Known(s)' /\ ip[s] \in Addresses /\ ip[s] # None
<1>1. ASSUME NEW q \in Sessions, NEW k \in Keys, CreatePop(q, k)
      PROVE  key'[s] = key[s] /\ ip'[s] = ip[s]
  BY <1>1 DEF CreatePop, Pop, TypeOK, KnownInv, Known
<1>2. Known(s)'
  BY StatusFrame DEF Known, CreateStore, TypeOK
<1>3. ip[s] \in Addresses /\ ip[s] # None
  BY PeerAssumption DEF PeerAssumption, KnownInv
<1>. QED BY <1>1, <1>2, <1>3, KeyFrame, PoolFrame

(* Its cleaning goes on until its address is back.                         *)
LEMMA CleaningGoesOn ==
  ASSUME TypeOK, Next, Reliable, NEW s \in Sessions, Cleaning(s)
  PROVE  Cleaning(s)' \/ returned'[s] > 0
<1>1. ~AgentCallFails /\ ~EventLost /\ ~AgentDies
  BY DEF Reliable, AgentCallFails, EventLost, AgentDies, Mishap
<1>2. ASSUME NEW d \in Seeders, SeedStep(d) PROVE UNCHANGED agent
  BY <1>2 DEF SeedStep, SeedCount, SeedFill
<1>3. ASSUME NEW q \in Sessions, CreateStep(q) PROVE UNCHANGED agent
  BY <1>3 DEF CreateStep, CreatePop, CreateNoAddress, CreateUnconfigured, CreateStore,
              CreatePublish, CreateFailsUnstored, CreateFailsStored, CreateDies
<1>4. ASSUME NEW t \in Ticks, TickStep(t) PROVE UNCHANGED agent
  BY <1>4 DEF TickStep, TickFindsExhausted, TickEvict, TickPublish, TickDies
<1>5. ASSUME UntrackPeer PROVE Cleaning(s)'
  BY <1>5 DEF UntrackPeer, Cleaning, TypeOK
<1>6. ASSUME ReleaseAddress PROVE returned'[s] > 0
  BY <1>6 DEF ReleaseAddress, GiveBack, Cleaning, TypeOK
<1>7. ASSUME AgentHandles PROVE UntrackPeer \/ ReleaseAddress
  BY <1>7 DEF AgentHandles, AgentStart, ResyncRead, ResyncApply, AgentSubscribe, HandleAdd,
              TrackPeer, HandleEvict, Take, Cleaning
<1>. QED BY <1>1, <1>2, <1>3, <1>4, <1>5, <1>6, <1>7 DEF Next, Cleaning

(* A route comes up only where a PEER_ADD is handled.                      *)
LEMMA RouteComes ==
  ASSUME TypeOK, KnownInv, Next, Reliable, Listening, KeysApart, KeyedInv,
         NEW s \in Sessions, Known(s), Routed(s)'
  PROVE  Routed(s) \/ Waiting("PEER_ADD", s)
<1>1. /\ key'[s] = key[s] /\ ip'[s] = ip[s] /\ ip[s] # None
      /\ key[s] \in Keys /\ key[s] # None /\ wg'[key[s]] = ip[s]
  BY KnownKeeps, PeerAssumption DEF PeerAssumption, KeyedInv, Routed
<1>2. CASE UNCHANGED wg
  BY <1>1, <1>2 DEF Routed
<1>3. CASE HandleEvict
  <2>1. wg' = [wg EXCEPT ![key[Head(channel).session]] = None]
    BY <1>3 DEF HandleEvict, WgRemove
  <2>2. wg[key[s]] = ip[s]
    BY <1>1, <2>1 DEF TypeOK
  <2>. QED BY <1>1, <2>2 DEF Routed
<1>4. CASE HandleAdd
  <2>. DEFINE q == Head(channel).session
  <2>1. /\ channel # <<>> /\ channel' = Tail(channel) /\ Head(channel).type = "PEER_ADD"
        /\ WgSet(key[q], ip[q])
    BY <1>4 DEF HandleAdd, Take
  <2>2. 1 \in 1 .. Len(channel) /\ Head(channel) = channel[1] /\ Head(channel) \in Events
    BY <2>1, Taken
  <2>3. CASE q = s
    <3>1. Head(channel) = Event("PEER_ADD", s)
      BY <2>1, <2>2, <2>3 DEF Events, Event
    <3>. QED BY <2>2, <3>1 DEF Waiting
  <2>4. CASE q # s
    <3>1. key[q] # key[s]
      BY <1>1, <2>2, <2>4 DEF KeysApart, Events
    <3>2. wg[key[s]] = ip[s]
      BY <1>1, <2>1, <3>1 DEF WgSet
    <3>. QED BY <1>1, <3>2 DEF Routed
  <2>. QED BY <2>3, <2>4
<1>. QED BY <1>2, <1>3, <1>4, ReliableStep

LEMMA CarriedNext ==
  ASSUME TypeOK, KnownInv, EvictInv, UnderwayInv, Next, Reliable,
         NEW s \in Sessions, status'[s] = "evicted"
  PROVE  /\ returned'[s] > 0 \/ Announcing(s)' \/ Cleaning(s)'
         /\ Routed(s)' \/ Waiting("PEER_ADD", s)' => Announcing(s)'
<1>1. CASE status[s] # "evicted"
  <2>1. PICK t \in Ticks : TickEvict(t) /\ s = tick[t].cur
    BY <1>1, StatusFrame DEF CreateStore, TypeOK
  <2>2. tick'[t].pc = "publish" /\ tick'[t].cur = s
    BY <2>1 DEF TickEvict, TypeOK
  <2>. QED BY <2>2 DEF Announcing
<1>2. CASE status[s] = "evicted"
  <2>1. Known(s) /\ ~CreatePublish(s)
    BY <1>2 DEF Known, CreatePublish, EvictInv, Active
  <2>2. Routed(s)' \/ Waiting("PEER_ADD", s)' => Announcing(s)
    BY <1>2, <2>1, RouteComes, NewsComes DEF UnderwayInv, CarriedInv
  <2>3. CASE HandleEvict /\ channel # <<>> /\ Head(channel).session = s
    <3>1. /\ channel' = Tail(channel) /\ Evicts(Head(channel))
          /\ wg' = [wg EXCEPT ![key[s]] = None]
      BY <2>3 DEF HandleEvict, Take, WgRemove, Evicts
    <3>2. Cleaning(s)'
      <4>1. agent' = [pc |-> "untrack", cur |-> s, todo |-> {}]
        BY <2>3 DEF HandleEvict, Take, Ready
      <4>. QED BY <4>1 DEF Cleaning
    <3>3. ~Routed(s)'
      BY <2>1, <3>1, KnownKeeps DEF Routed, TypeOK, UnderwayInv, KeyedInv
    <3>4. ~Waiting("PEER_ADD", s)'
      <4>. SUFFICES ASSUME NEW i \in 1 .. Len(channel'), channel'[i] = Event("PEER_ADD", s)
                    PROVE  FALSE
        BY DEF Waiting, Event
      <4>1. /\ Head(channel) = channel[1] /\ 1 \in 1 .. Len(channel)
            /\ i + 1 \in 1 .. Len(channel) /\ channel[i + 1] = Event("PEER_ADD", s)
        BY <2>3, <3>1, Taken
      <4>2. i + 1 < 1
        BY <2>3, <3>1, <4>1 DEF UnderwayInv, AddsFirst, Adds, Event
      <4>. QED BY <4>2
    <3>. QED BY <3>2, <3>3, <3>4
  <2>4. CASE ~(HandleEvict /\ channel # <<>> /\ Head(channel).session = s)
    <3>1. Announcing(s) => Announcing(s)'
      BY <2>4, AnnouncementStays DEF UnderwayInv
    <3>2. returned[s] > 0 => returned'[s] > 0
      BY ReturnedGrows
    <3>. QED BY <1>2, <2>2, <3>1, <3>2, CleaningGoesOn DEF UnderwayInv, CarriedInv
  <2>. QED BY <2>3, <2>4
<1>. QED BY <1>1, <1>2

LEMMA UnderwayNext ==
  ASSUME TypeOK, KnownInv, EvictInv, UnderwayInv, Next, Reliable, ~SharedKeys
  PROVE  UnderwayInv'
<1>1. Listening'
  BY ReliableStep DEF UnderwayInv
<1>2. KeysApart' /\ KeyedInv'
  BY KeysNext DEF UnderwayInv
<1>3. AddsFirst'
  <2>1. \A i, j \in 1 .. Len(channel') :
          Adds(channel'[i]) /\ Evicts(channel'[j]) /\ channel'[i].session = channel'[j].session => i < j
    BY AddedFirst DEF UnderwayInv
  <2>. QED BY <2>1 DEF AddsFirst, Adds, Evicts
<1>4. CarriedInv'
  BY CarriedNext DEF CarriedInv
<1>. QED BY <1>1, <1>2, <1>3, <1>4 DEF UnderwayInv
LEMMA UnderwayInvariant ==
  ASSUME Reliable, ~SharedKeys
  PROVE  Spec => [](TypeOK /\ KnownInv /\ EvictInv /\ UnderwayInv)
<1>. DEFINE Inv == TypeOK /\ KnownInv /\ EvictInv /\ UnderwayInv
<1>1. Init => Inv
  BY TypeInit, KnownInit, EvictInit, UnderwayInit
<1>2. Inv /\ [Next]_vars => Inv'
  <2>. SUFFICES ASSUME Inv, [Next]_vars PROVE Inv'
    OBVIOUS
  <2>1. CASE UNCHANGED vars
    <3>1. TypeOK' /\ KnownInv'
      BY KnownNext
    <3>2. EvictInv'
      BY <2>1 DEF vars, EvictInv, Ended, Over, Cleaning, FailedStored, Active
    <3>3. UnderwayInv'
      BY <2>1 DEF vars, UnderwayInv, Listening, KeysApart, KeyedInv, AddsFirst, Adds, Evicts,
                  CarriedInv, Announcing, Cleaning, Waiting, Event, Routed
    <3>. QED BY <3>1, <3>2, <3>3
  <2>2. CASE Next
    <3>1. TypeOK' /\ KnownInv'
      BY KnownNext
    <3>2. EvictInv'
      BY <2>2, <3>1, EvictNext
    <3>. QED BY <2>2, <3>1, <3>2, UnderwayNext
  <2>. QED BY <2>1, <2>2
<1>. QED BY <1>1, <1>2, PTL DEF Spec

(* With an agent that was there first and lives, ticks that live and a     *)
(* channel that loses nothing, no eviction is forgotten, however many      *)
(* ticks overlap and whichever creations fail (worker.js:46-62,            *)
(* main.go:188-252).                                                       *)
THEOREM EvictionCarriedThrough ==
  ASSUME Reliable, ~SharedKeys
  PROVE  Spec => []EvictionUnderway
<1>1. CarriedInv => EvictionUnderway
  BY DEF CarriedInv, EvictionUnderway, Cleaning
<1>. QED BY <1>1, UnderwayInvariant, PTL DEF UnderwayInv

-------------------------------------------------------------------------------
(* A PEER_ADD on its way is for a session that was answered and still      *)
(* holds its address.                                                      *)

Welcome(s) ==
  Waiting("PEER_ADD", s) => create[s] = "done" /\ returned[s] = 0 /\ ~Cleaning(s)

Served(s) ==
  Active(s) /\ create[s] = "done" => Routed(s) \/ Waiting("PEER_ADD", s) \/ Repeated(ip[s])

AdditionInv == \A s \in Sessions : Welcome(s) /\ Served(s)

(* What an answered session leased goes back only with its cleaning.       *)
LEMMA DoneKeeps ==
  ASSUME TypeOK, KnownInv, Next, NEW s \in Sessions, create[s] = "done", returned[s] = 0,
         ~Cleaning(s)
  PROVE  create'[s] = "done" /\ returned'[s] = 0
<1>1. create'[s] = "done"
  BY OverStays DEF Over
<1>2. ~CreationFails(s) /\ ~(ReleaseAddress /\ s = agent.cur)
  BY DEF CreationFails, ReleaseAddress, Cleaning
<1>3. ASSUME NEW q \in Sessions, GiveBack(q), q # s PROVE returned'[s] = 0
  BY <1>3 DEF GiveBack, TypeOK
<1>4. ASSUME NEW q \in Sessions, NEW k \in Keys, CreatePop(q, k) PROVE UNCHANGED returned
  BY <1>4 DEF CreatePop
<1>5. returned'[s] = 0
  BY <1>2, <1>3, <1>4, PoolFrame
<1>. QED BY <1>1, <1>5

LEMMA WelcomeNext ==
  ASSUME TypeOK, KnownInv, EvictInv, UnderwayInv, Next, Reliable,
         NEW s \in Sessions, Welcome(s), Waiting("PEER_ADD", s)'
  PROVE  create'[s] = "done" /\ returned'[s] = 0 /\ ~Cleaning(s)'
<1>1. CASE CreatePublish(s)
  <2>1. create[s] = "stored" /\ create'[s] = "done" /\ UNCHANGED <<agent, returned>>
    BY <1>1 DEF CreatePublish, TypeOK
  <2>2. returned[s] = 0 /\ ~Cleaning(s)
    BY <2>1 DEF EvictInv, FailedStored, Ended, Over
  <2>. QED BY <2>1, <2>2 DEF Cleaning
<1>2. CASE Waiting("PEER_ADD", s)
  <2>1. create[s] = "done" /\ returned[s] = 0 /\ ~Cleaning(s)
    BY <1>2 DEF Welcome
  <2>2. ASSUME HandleEvict, Head(channel).session = s PROVE FALSE
    <3>1. PICK i \in 1 .. Len(channel') : channel'[i] = Event("PEER_ADD", s)
      BY DEF Waiting, Event
    <3>2. channel # <<>> /\ channel' = Tail(channel) /\ Evicts(Head(channel))
      BY <2>2 DEF HandleEvict, Take, Evicts
    <3>3. /\ Head(channel) = channel[1] /\ 1 \in 1 .. Len(channel)
          /\ i + 1 \in 1 .. Len(channel) /\ channel[i + 1] = Event("PEER_ADD", s)
      BY <3>1, <3>2, Taken
    <3>4. i + 1 < 1
      BY <2>2, <3>2, <3>3 DEF UnderwayInv, AddsFirst, Adds, Event
    <3>. QED BY <3>4
  <2>3. ~Cleaning(s)'
    BY <2>1, <2>2, CleaningFrame
  <2>. QED BY <2>1, <2>3, DoneKeeps
<1>. QED BY <1>1, <1>2, NewsComes DEF UnderwayInv

(* A route of a session that holds its address goes only when the session  *)
(* is evicted, as long as its address did not go back wrongly.             *)
LEMMA RouteStays ==
  ASSUME TypeOK, KnownInv, EvictInv, UnderwayInv, LeaseInv, AdditionInv, Next, Reliable,
         NEW s \in Sessions, Active(s), create[s] = "done", Routed(s), ~Repeated(ip[s])
  PROVE  Routed(s)'
<1>1. /\ Known(s) /\ key'[s] = key[s] /\ ip'[s] = ip[s] /\ ip[s] # None
      /\ key[s] \in Keys /\ key[s] # None /\ wg[key[s]] = ip[s]
  BY KnownKeeps DEF Active, Known, Routed, UnderwayInv, KeyedInv
<1>2. CASE UNCHANGED wg
  BY <1>1, <1>2 DEF Routed
<1>3. CASE HandleEvict
  <2>. DEFINE q == Head(channel).session
  <2>1. /\ channel # <<>> /\ channel' = Tail(channel) /\ Head(channel).type = "PEER_EVICT"
        /\ wg' = [wg EXCEPT ![key[q]] = None]
    BY <1>3 DEF HandleEvict, Take, WgRemove
  <2>2. 1 \in 1 .. Len(channel) /\ Head(channel) = channel[1] /\ q \in Sessions
    BY <2>1, Taken, SessionsNamed
  <2>3. q # s
    BY <2>1, <2>2 DEF EvictInv, Ended, Active
  <2>4. key[q] # key[s]
    BY <1>1, <2>2, <2>3 DEF UnderwayInv, KeysApart
  <2>. QED BY <1>1, <2>1, <2>4 DEF Routed, TypeOK
<1>4. CASE HandleAdd
  <2>. DEFINE q == Head(channel).session
  <2>1. /\ channel # <<>> /\ channel' = Tail(channel) /\ Head(channel).type = "PEER_ADD"
        /\ WgSet(key[q], ip[q])
    BY <1>4 DEF HandleAdd, Take
  <2>2. 1 \in 1 .. Len(channel) /\ Head(channel) = channel[1] /\ Head(channel) \in Events
    BY <2>1, Taken
  <2>3. q \in Sessions /\ Head(channel) = Event("PEER_ADD", q)
    BY <2>1, <2>2 DEF Events, Event
  <2>4. CASE q = s
    BY <1>1, <2>1, <2>4 DEF WgSet, Routed
  <2>5. CASE q # s
    <3>1. key[q] # key[s]
      BY <1>1, <2>3, <2>5 DEF UnderwayInv, KeysApart
    <3>2. returned[q] = 0
      BY <2>2, <2>3 DEF Waiting, AdditionInv, Welcome
    <3>3. returned[s] = 0
      BY DEF EvictInv, FailedStored
    <3>4. ip[q] # ip[s]
      BY <1>1, <2>3, <2>5, <3>2, <3>3 DEF LeaseInv, Alone, Holder
    <3>. QED BY <1>1, <2>1, <3>1, <3>4 DEF WgSet, Routed
  <2>. QED BY <2>4, <2>5
<1>. QED BY <1>2, <1>3, <1>4, ReliableStep DEF UnderwayInv

LEMMA Answered ==
  ASSUME TypeOK, Next, NEW s \in Sessions, create[s] # "done", create'[s] = "done"
  PROVE  CreatePublish(s)
<1>1. ASSUME NEW d \in Seeders, SeedStep(d) PROVE UNCHANGED create
  BY <1>1 DEF SeedStep, SeedCount, SeedFill
<1>2. ASSUME NEW q \in Sessions, CreateStep(q) PROVE CreatePublish(s)
  <2>1. q = s
    BY <1>2 DEF CreateStep, CreatePop, CreateNoAddress, CreateUnconfigured, CreateStore,
                CreatePublish, CreateFailsUnstored, CreateFailsStored, CreateDies, TypeOK
  <2>. QED
    BY <1>2, <2>1 DEF CreateStep, CreatePop, CreateNoAddress, CreateUnconfigured, CreateStore,
                      CreateFailsUnstored, CreateFailsStored, CreateDies, TypeOK
<1>3. ASSUME NEW t \in Ticks, TickStep(t) PROVE UNCHANGED create
  BY <1>3 DEF TickStep, TickFindsExhausted, TickEvict, TickPublish, TickDies
<1>4. ASSUME AgentHandles \/ AgentCallFails \/ EventLost \/ AgentDies PROVE UNCHANGED create
  BY <1>4 DEF AgentHandles, AgentStart, ResyncRead, ResyncApply, AgentSubscribe, HandleAdd,
              TrackPeer, HandleEvict, UntrackPeer, ReleaseAddress, AgentCallFails,
              EventLost, AgentDies
<1>. QED BY <1>1, <1>2, <1>3, <1>4 DEF Next

LEMMA ServedNext ==
  ASSUME TypeOK, KnownInv, EvictInv, UnderwayInv, LeaseInv, AdditionInv, Next, Reliable,
         NEW s \in Sessions, Active(s)', create'[s] = "done"
  PROVE  Routed(s)' \/ Waiting("PEER_ADD", s)' \/ Repeated(ip[s])'
<1>1. Active(s)
  BY StatusFrame DEF Active, CreateStore, TypeOK
<1>2. CASE create[s] # "done"
  <2>1. create[s] = "stored"
    BY <1>2, CreateFrame DEF CreateStore, TypeOK
  <2>2. CreatePublish(s)
    BY <1>2, <2>1, Answered
  <2>3. Event("PEER_ADD", s) \in Events
    BY DEF Event, Events
  <2>. QED BY <2>2, <2>3, Carried DEF CreatePublish, Waiting, Event, UnderwayInv
<1>3. CASE create[s] = "done"
  <2>0. ip[s] # None
    BY <1>1, PeerAssumption DEF PeerAssumption, Active, KnownInv, Known
  <2>1. CASE Repeated(ip[s])
    BY <2>0, <2>1, RepeatedStays
  <2>2. CASE ~Repeated(ip[s]) /\ Routed(s)
    BY <1>1, <1>3, <2>2, RouteStays
  <2>3. CASE Waiting("PEER_ADD", s)
    <3>1. ASSUME HandleAdd \/ HandleEvict, channel # <<>>, Head(channel) = Event("PEER_ADD", s)
          PROVE  Routed(s)'
      <4>1. HandleAdd
        BY <3>1 DEF HandleEvict, Take, Event
      <4>2. WgSet(key[s], ip[s]) /\ Known(s) /\ key[s] \in Keys
        BY <1>1, <3>1, <4>1, KnownKeeps DEF HandleAdd, Event, Active, Known, UnderwayInv, KeyedInv
      <4>3. key'[s] = key[s] /\ ip'[s] = ip[s] /\ key[s] # None
        BY <4>2, KnownKeeps, PeerAssumption DEF PeerAssumption
      <4>. QED BY <4>2, <4>3 DEF WgSet, Routed
    <3>. QED BY <2>3, <3>1, NewsStays DEF UnderwayInv
  <2>. QED BY <1>1, <1>3, <2>1, <2>2, <2>3 DEF AdditionInv, Served
<1>. QED BY <1>2, <1>3

LEMMA AdditionInvariant ==
  ASSUME OneSeeding, Reliable, ~SharedKeys
  PROVE  Spec => [](LeaseInv /\ AdditionInv)
<1>. DEFINE Inv == TypeOK /\ KnownInv /\ EvictInv /\ UnderwayInv /\ LeaseInv
<1>1. Init => AdditionInv
  BY DEF Init, AdditionInv, Welcome, Served, Waiting, Active
<1>2. Inv /\ AdditionInv /\ [Next]_vars => AdditionInv'
  <2>1. ASSUME AdditionInv, UNCHANGED vars PROVE AdditionInv'
    <3>1. \A s \in Sessions : Welcome(s)'
      BY <2>1 DEF vars, AdditionInv, Welcome, Waiting, Event, Cleaning
    <3>2. \A s \in Sessions : Repeated(ip[s]) => Repeated(ip[s])'
      BY <2>1 DEF vars, Repeated, FailedStored, Known
    <3>3. \A s \in Sessions : Served(s)'
      BY <2>1, <3>2 DEF vars, AdditionInv, Served, Waiting, Event, Active, Routed
    <3>. QED BY <3>1, <3>3 DEF AdditionInv
  <2>2. ASSUME Inv, AdditionInv, Next PROVE AdditionInv'
    <3>1. \A s \in Sessions : Welcome(s)'
      BY <2>2, WelcomeNext DEF AdditionInv, Welcome
    <3>2. \A s \in Sessions : Served(s)'
      BY <2>2, ServedNext DEF Served
    <3>. QED BY <3>1, <3>2 DEF AdditionInv
  <2>. QED BY <2>1, <2>2
<1>3. Spec => []Inv
  BY UnderwayInvariant, LeaseInvariant, PTL
<1>. QED BY <1>1, <1>2, <1>3, PTL DEF Spec

(* Under the same conditions, and with one process that seeds the region,  *)
(* a session whose creation was answered is routed or about to be, unless  *)
(* its own address went back wrongly (server.js:241-284, main.go:140-186). *)
THEOREM AdditionCarriedThrough ==
  ASSUME OneSeeding, Reliable, ~SharedKeys
  PROVE  Spec => []AdditionUnderway
<1>1. AdditionInv => AdditionUnderway
  <2>1. \A s \in Sessions : Repeated(ip[s]) => GivenBackWrongly(ip[s])
    BY DEF Repeated, FailedStored, Known, GivenBackWrongly
  <2>. QED BY <2>1 DEF AdditionInv, Served, AdditionUnderway
<1>. QED BY <1>1, AdditionInvariant, PTL
===============================================================================
