------------------------- MODULE PeerLifecycleProofs -------------------------
(***************************************************************************)
(* Theorems about PeerLifecycle, for any number of sessions, addresses,    *)
(* keys and ticks.                                                         *)
(***************************************************************************)
EXTENDS PeerLifecycle, TLAPS

-------------------------------------------------------------------------------
(* Type correctness.                                                       *)

LEMMA TypeInit == Init => TypeOK
<1>. SUFFICES ASSUME Init PROVE TypeOK
  OBVIOUS
<1>1. agent \in [pc : AgentStates, cur : Sessions \cup {None}, todo : SUBSET Sessions]
      /\ agent.pc \in {"ready", "down"}
  BY DEF Init, Ready, Down, AgentStates
<1>2. IdleTick \in [pc : {"idle", "evict", "publish"}, cur : Sessions \cup {None}]
      /\ IdleTick.pc = "idle"
  BY DEF IdleTick
<1>. QED BY <1>1, <1>2 DEF Init, TypeOK

-------------------------------------------------------------------------------
(* What a step does to the events on their way.                            *)

LEMMA Published ==
  ASSUME TypeOK, NEW e \in Events, Publish(e)
  PROVE  /\ channel' \in Seq(Events)
         /\ Len(channel) \in Nat
         /\ \/ channel' = channel
            \/ /\ Len(channel') = Len(channel) + 1 /\ channel'[Len(channel) + 1] = e
               /\ \A i \in 1 .. Len(channel) : channel'[i] = channel[i]
<1>1. channel \in Seq(Events)
  BY DEF TypeOK
<1>. DEFINE q == Append(channel, e)
<1>2. /\ q \in Seq(Events) /\ Len(channel) \in Nat /\ Len(q) = Len(channel) + 1 /\ q[Len(channel) + 1] = e
      /\ \A i \in 1 .. Len(channel) : q[i] = channel[i]
  BY <1>1
<1>3. channel' = q \/ channel' = channel
  BY DEF Publish
<1>. HIDE DEF q
<1>. QED BY <1>1, <1>2, <1>3

LEMMA Taken ==
  ASSUME TypeOK, channel # <<>>, channel' = Tail(channel)
  PROVE  /\ channel' \in Seq(Events) /\ Head(channel) \in Events
         /\ Len(channel) \in Nat \ {0} /\ Head(channel) = channel[1]
         /\ Len(channel') = Len(channel) - 1
         /\ \A i \in 1 .. Len(channel') : channel'[i] = channel[i + 1]
<1>1. channel \in Seq(Events)
  BY DEF TypeOK
<1>. QED BY <1>1

-------------------------------------------------------------------------------
(* Only sessions whose hash was stored are evicted, announced, tracked or  *)
(* handled, and those have an address.  TypeOK is inductive together with  *)
(* this: what goes back to the pool is an address.                         *)

Known(s) == status[s] # "absent"

KnownInv ==
  /\ \A s \in Sessions :
       /\ create[s] \in {"none", "popped"} => status[s] = "absent" /\ returned[s] = 0
       /\ create[s] = "none" => ip[s] = None
       /\ create[s] \in {"popped", "stored"} => ip[s] \in Addresses
       /\ create[s] = "stored" => Known(s)
       /\ Known(s) => ip[s] \in Addresses
  /\ \A t \in Ticks : tick[t].pc # "idle" => Known(tick[t].cur)
  /\ \A i \in 1 .. Len(channel) : Known(channel[i].session)
  /\ \A s \in activePeers \cup agent.todo : Known(s)
  /\ agent.pc \in {"apply", "track", "untrack", "release"} => Known(agent.cur)

LEMMA KnownInit == Init => KnownInv
  BY DEF Init, KnownInv, Known, IdleTick, Ready, Down

LEMMA MishapType ==
  ASSUME TypeOK, NEW kind, Mishap(kind)
  PROVE  mishaps' \in Nat
<1>1. mishaps \in Nat
  BY DEF TypeOK
<1>2. mishaps' = mishaps + 1
  BY DEF Mishap
<1>. QED BY <1>1, <1>2

LEMMA SeedKeeps ==
  ASSUME TypeOK, KnownInv, NEW d \in Seeders, SeedStep(d)
  PROVE  TypeOK' /\ KnownInv'
<1>1. TypeOK'
  BY DEF SeedStep, SeedCount, SeedFill, TypeOK
<1>2. KnownInv'
  BY DEF SeedStep, SeedCount, SeedFill, KnownInv, Known
<1>. QED BY <1>1, <1>2

LEMMA CreateKeeps ==
  ASSUME TypeOK, KnownInv, NEW s \in Sessions, CreateStep(s)
  PROVE  TypeOK' /\ KnownInv'
<1>1. ASSUME NEW k \in Keys, CreatePop(s, k) PROVE TypeOK' /\ KnownInv'
  BY <1>1, PeerAssumption DEF CreatePop, Pop, TypeOK, KnownInv, Known
<1>2. CASE CreateNoAddress(s)
  BY <1>2 DEF CreateNoAddress, TypeOK, KnownInv, Known
<1>3. CASE CreateUnconfigured(s)
  BY <1>3 DEF CreateUnconfigured, GiveBack, TypeOK, KnownInv, Known
<1>4. CASE CreateStore(s)
  BY <1>4 DEF CreateStore, TypeOK, KnownInv, Known
<1>5. CASE CreatePublish(s)
  <2>1. Event("PEER_ADD", s) \in Events /\ Event("PEER_ADD", s).session = s
    BY DEF Event, Events
  <2>2. Publish(Event("PEER_ADD", s))
    BY <1>5 DEF CreatePublish
  <2>3. TypeOK'
    BY <1>5, <2>1, <2>2, Published DEF CreatePublish, TypeOK
  <2>4. \A i \in 1 .. Len(channel') : Known(channel'[i].session)
    <3>1. UNCHANGED status /\ Known(s) /\ \A i \in 1 .. Len(channel) : Known(channel[i].session)
      BY <1>5 DEF CreatePublish, KnownInv
    <3>. QED BY <2>1, <2>2, <3>1, Published DEF Known
  <2>. QED BY <1>5, <2>3, <2>4 DEF CreatePublish, TypeOK, KnownInv, Known
<1>6. CASE CreateFailsUnstored(s) \/ CreateFailsStored(s)
  <2>1. /\ create[s] \in {"popped", "stored"} /\ create' = [create EXCEPT ![s] = "failed"]
        /\ GiveBack(s) /\ ip[s] \in Addresses
        /\ UNCHANGED <<seeder, ip, key, status, activePeers, tick, channel, agent, wg>>
    BY <1>6 DEF CreateFailsUnstored, CreateFailsStored, KnownInv
  <2>2. mishaps' \in Nat
    BY <1>6, MishapType DEF CreateFailsUnstored, CreateFailsStored
  <2>3. TypeOK'
    BY <2>1, <2>2 DEF GiveBack, TypeOK
  <2>4. KnownInv'
    BY <2>1 DEF GiveBack, TypeOK, KnownInv, Known
  <2>. QED BY <2>3, <2>4
<1>7. CASE CreateDies(s)
  <2>1. TypeOK'
    BY <1>7, MishapType DEF CreateDies, TypeOK
  <2>2. KnownInv'
    BY <1>7 DEF CreateDies, TypeOK, KnownInv, Known
  <2>. QED BY <2>1, <2>2
<1>. QED BY <1>1, <1>2, <1>3, <1>4, <1>5, <1>6, <1>7 DEF CreateStep

LEMMA TickKeeps ==
  ASSUME TypeOK, KnownInv, NEW t \in Ticks, TickStep(t)
  PROVE  TypeOK' /\ KnownInv'
<1>1. ASSUME NEW s \in Sessions, TickFindsExhausted(t, s) PROVE TypeOK' /\ KnownInv'
  BY <1>1 DEF TickFindsExhausted, TypeOK, KnownInv, Known
<1>2. CASE TickEvict(t)
  BY <1>2 DEF TickEvict, TypeOK, KnownInv, Known
<1>3. CASE TickPublish(t)
  <2>. DEFINE s == tick[t].cur
  <2>1. s \in Sessions /\ Known(s)
    BY <1>3 DEF TickPublish, TypeOK, KnownInv
  <2>2. Event("PEER_EVICT", s) \in Events /\ Event("PEER_EVICT", s).session = s
    BY <2>1 DEF Event, Events
  <2>3. Publish(Event("PEER_EVICT", s))
    BY <1>3 DEF TickPublish
  <2>4. TypeOK'
    BY <1>3, <2>2, <2>3, Published DEF TickPublish, IdleTick, TypeOK
  <2>5. \A i \in 1 .. Len(channel') : Known(channel'[i].session)
    <3>1. UNCHANGED status /\ \A i \in 1 .. Len(channel) : Known(channel[i].session)
      BY <1>3 DEF TickPublish, KnownInv
    <3>. QED BY <2>1, <2>2, <2>3, <3>1, Published DEF Known
  <2>. QED BY <1>3, <2>4, <2>5 DEF TickPublish, IdleTick, TypeOK, KnownInv, Known
<1>4. CASE TickDies(t)
  <2>1. TypeOK'
    BY <1>4, MishapType DEF TickDies, IdleTick, TypeOK
  <2>2. KnownInv'
    BY <1>4 DEF TickDies, IdleTick, TypeOK, KnownInv, Known
  <2>. QED BY <2>1, <2>2
<1>. QED BY <1>1, <1>2, <1>3, <1>4 DEF TickStep

LEMMA AgentKeeps ==
  ASSUME TypeOK, KnownInv, AgentHandles \/ AgentCallFails \/ EventLost \/ AgentDies
  PROVE  TypeOK' /\ KnownInv'
<1>1. CASE AgentStart
  BY <1>1 DEF AgentStart, TypeOK, AgentStates, KnownInv, Known
<1>2. ASSUME NEW s \in Sessions, ResyncRead(s) PROVE TypeOK' /\ KnownInv'
  <2>1. CASE status[s] = "active"
    BY <1>2, <2>1 DEF ResyncRead, TypeOK, AgentStates, KnownInv, Known
  <2>2. CASE status[s] # "active"
    BY <1>2, <2>2 DEF ResyncRead, TypeOK, AgentStates, KnownInv, Known
  <2>. QED BY <2>1, <2>2
<1>3. ASSUME NEW s \in Sessions, WgSet(key[s], ip[s]) PROVE wg' \in [Keys -> Addresses \cup {None}]
  BY <1>3 DEF WgSet, TypeOK
<1>4. CASE ResyncApply
  <2>1. wg' \in [Keys -> Addresses \cup {None}]
    BY <1>3, <1>4 DEF ResyncApply, TypeOK
  <2>. QED BY <1>4, <2>1 DEF ResyncApply, TypeOK, AgentStates, KnownInv, Known
<1>5. CASE AgentSubscribe
  BY <1>5 DEF AgentSubscribe, Ready, TypeOK, AgentStates, KnownInv, Known
<1>6. ASSUME channel # <<>>, channel' = Tail(channel), UNCHANGED status
      PROVE  /\ \A i \in 1 .. Len(channel') : Known(channel[i].session)'
             /\ Head(channel).session \in Sessions /\ Known(Head(channel).session)
  <2>1. channel \in Seq(Events)
    BY DEF TypeOK
  <2>2. Head(channel) \in Events /\ Head(channel) = channel[1] /\ 1 \in 1 .. Len(channel)
    BY <1>6, <2>1
  <2>3. Head(channel).session \in Sessions /\ Known(Head(channel).session)
    BY <2>2 DEF Events, KnownInv
  <2>4. ASSUME NEW i \in 1 .. Len(channel') PROVE Known(channel[i].session)'
    <3>1. i + 1 \in 1 .. Len(channel) /\ channel'[i] = channel[i + 1]
      BY <1>6, <2>1, <2>4
    <3>2. Known(channel[i + 1].session)
      BY <3>1 DEF KnownInv
    <3>3. channel'[i].session = channel[i + 1].session /\ status' = status
      BY <1>6, <3>1
    <3>. QED BY <3>2, <3>3 DEF Known
  <2>. QED BY <2>3, <2>4
<1>7. ASSUME NEW type, NEW pc \in {"track", "untrack"}, Take(type, pc),
             UNCHANGED <<pool, seeder, create, ip, key, status, activePeers, tick, mishaps, returned>>,
             wg' \in [Keys -> Addresses \cup {None}]
      PROVE  TypeOK' /\ KnownInv'
  <2>1. /\ channel' \in Seq(Events) /\ \A i \in 1 .. Len(channel') : Known(channel[i].session)'
        /\ Head(channel).session \in Sessions /\ Known(Head(channel).session)
    BY <1>6, <1>7, Taken DEF Take
  <2>2. agent' = [pc |-> pc, cur |-> Head(channel).session, todo |-> {}]
    BY <1>7 DEF Take, Ready
  <2>3. /\ agent' \in [pc : AgentStates, cur : Sessions \cup {None}, todo : SUBSET Sessions]
        /\ agent'.cur \in Sessions /\ agent'.todo = {} /\ Known(agent'.cur)
    BY <1>7, <2>1, <2>2 DEF AgentStates
  <2>4. TypeOK'
    BY <1>7, <2>1, <2>3 DEF TypeOK
  <2>5. KnownInv'
    <3>1. status' = status /\ create' = create /\ ip' = ip /\ tick' = tick /\ returned' = returned
          /\ activePeers' = activePeers
      BY <1>7
    <3>2. Known(agent.cur)'
      BY <2>3, <3>1 DEF Known
    <3>. QED BY <2>1, <2>3, <3>1, <3>2 DEF KnownInv, Known
  <2>. QED BY <2>4, <2>5
<1>8. CASE HandleAdd
  <2>1. Head(channel).session \in Sessions
    BY <1>6, <1>8 DEF HandleAdd, Take
  <2>. QED BY <1>3, <1>7, <1>8, <2>1 DEF HandleAdd
<1>9. CASE HandleEvict
  <2>1. wg' \in [Keys -> Addresses \cup {None}]
    BY <1>9 DEF HandleEvict, WgRemove, TypeOK
  <2>. QED BY <1>7, <1>9, <2>1 DEF HandleEvict
<1>10. CASE TrackPeer
  BY <1>10 DEF TrackPeer, Ready, TypeOK, AgentStates, KnownInv, Known
<1>11. CASE UntrackPeer
  BY <1>11 DEF UntrackPeer, TypeOK, AgentStates, KnownInv, Known
<1>12. CASE ReleaseAddress
  BY <1>12 DEF ReleaseAddress, GiveBack, Ready, TypeOK, AgentStates, KnownInv, Known
<1>13. CASE AgentCallFails
  <2>1. /\ mishaps' \in Nat
        /\ UNCHANGED <<pool, seeder, create, ip, key, status, activePeers, tick, wg, returned>>
    BY <1>13, MishapType DEF AgentCallFails
  <2>2. CASE UNCHANGED agent /\ channel # <<>> /\ channel' = Tail(channel)
    BY <1>6, <2>1, <2>2, Taken DEF TypeOK, KnownInv, Known
  <2>3. CASE /\ UNCHANGED channel
             /\ \/ agent' = Ready
                \/ agent.pc = "untrack" /\ agent' = [agent EXCEPT !.pc = "release"]
                \/ agent.pc = "apply" /\ agent' = [agent EXCEPT !.pc = "resync", !.cur = None]
    <3>1. /\ agent' \in [pc : AgentStates, cur : Sessions \cup {None}, todo : SUBSET Sessions]
          /\ agent'.todo = {} \/ agent'.todo = agent.todo
          /\ \/ agent'.pc \in {"ready", "resync"} 
             \/ agent.pc = "untrack" /\ agent'.pc = "release" /\ agent'.cur = agent.cur
      <4>1. agent \in [pc : AgentStates, cur : Sessions \cup {None}, todo : SUBSET Sessions]
        BY DEF TypeOK
      <4>2. CASE agent' = Ready
        BY <4>2 DEF Ready, AgentStates
      <4>3. CASE agent.pc = "untrack" /\ agent' = [agent EXCEPT !.pc = "release"]
        BY <4>1, <4>3 DEF AgentStates
      <4>4. CASE agent.pc = "apply" /\ agent' = [agent EXCEPT !.pc = "resync", !.cur = None]
        BY <4>1, <4>4 DEF AgentStates
      <4>. QED BY <2>3, <4>2, <4>3, <4>4
    <3>2. TypeOK'
      BY <2>1, <2>3, <3>1 DEF TypeOK
    <3>3. KnownInv'
      BY <2>1, <2>3, <3>1 DEF KnownInv, Known, TypeOK
    <3>. QED BY <3>2, <3>3
  <2>. QED BY <1>13, <2>2, <2>3 DEF AgentCallFails
<1>14. CASE EventLost
  <2>1. mishaps' \in Nat
    BY <1>14, MishapType DEF EventLost
  <2>2. channel' \in Seq(Events) /\ \A i \in 1 .. Len(channel') : Known(channel[i].session)'
    BY <1>6, <1>14, Taken DEF EventLost
  <2>3. TypeOK'
    BY <1>14, <2>1, <2>2 DEF EventLost, TypeOK
  <2>4. KnownInv'
    <3>1. status' = status /\ create' = create /\ ip' = ip /\ tick' = tick /\ returned' = returned
          /\ activePeers' = activePeers /\ agent' = agent
      BY <1>14 DEF EventLost
    <3>. QED BY <2>2, <3>1 DEF KnownInv, Known
  <2>. QED BY <2>3, <2>4
<1>15. CASE AgentDies
  <2>1. mishaps' \in Nat
    BY <1>15, MishapType DEF AgentDies
  <2>2. channel' = <<>> /\ channel' \in Seq(Events) /\ Len(channel') = 0
    <3>1. channel' = <<>>
      BY <1>15 DEF AgentDies
    <3>. QED BY <3>1
  <2>3. agent' = [pc |-> "down", cur |-> None, todo |-> {}]
    BY <1>15 DEF AgentDies, Down
  <2>4. TypeOK'
    <3>1. agent' \in [pc : AgentStates, cur : Sessions \cup {None}, todo : SUBSET Sessions]
          /\ agent'.pc = "down"
      BY <2>3 DEF AgentStates
    <3>. QED BY <1>15, <2>1, <2>2, <3>1 DEF AgentDies, TypeOK
  <2>5. KnownInv'
    <3>1. status' = status /\ create' = create /\ ip' = ip /\ tick' = tick /\ returned' = returned
          /\ activePeers' = activePeers
      BY <1>15 DEF AgentDies
    <3>2. agent'.pc = "down" /\ agent'.todo = {}
      BY <2>3
    <3>. QED BY <2>2, <3>1, <3>2 DEF KnownInv, Known
  <2>. QED BY <2>4, <2>5
<1>. QED
  BY <1>1, <1>2, <1>4, <1>5, <1>8, <1>9, <1>10, <1>11, <1>12, <1>13, <1>14, <1>15
     DEF AgentHandles

LEMMA KnownNext == TypeOK /\ KnownInv /\ [Next]_vars => TypeOK' /\ KnownInv'
<1>. SUFFICES ASSUME TypeOK, KnownInv, [Next]_vars PROVE TypeOK' /\ KnownInv'
  OBVIOUS
<1>1. CASE UNCHANGED vars
  BY <1>1 DEF vars, TypeOK, KnownInv, Known
<1>. QED BY <1>1, SeedKeeps, CreateKeeps, TickKeeps, AgentKeeps DEF Next

LEMMA KnownInvariant == Spec => [](TypeOK /\ KnownInv)
<1>. QED BY TypeInit, KnownInit, KnownNext, PTL DEF Spec

(* Every reachable state is well typed; only addresses go back to the pool *)
(* (server.js:241-284, main.go:140-335).                                   *)
THEOREM PeerTypeCorrect == Spec => []TypeOK
<1>. QED BY KnownInvariant, PTL
===============================================================================
