----------------------------- MODULE PeerLifecycle -----------------------------
(***************************************************************************)
(* The life of a WireGuard peer in one region: the API leases an address   *)
(* from the region's pool and announces the peer, the billing worker       *)
(* evicts it and announces that, and the region's agent, which hears       *)
(* announcements over Redis pub/sub, installs and removes the peer and     *)
(* returns the address.  Each Redis command, wg command and publication is *)
(* one step.  When credit runs out is SessionCredit's business: here a     *)
(* tick may find any active session exhausted once its creation is over.   *)
(***************************************************************************)
EXTENDS Naturals, Sequences, FiniteSets

CONSTANTS
  Sessions,    \* ids of wireguard sessions
  Addresses,   \* generateIpv4PoolFrom24Cidr of the region's subnet
  Keys,        \* client public keys
  Ticks,       \* billing ticks that may be in flight together
  Seeders,     \* processes that run seedRegions: API starts, the seed script
  SharedKeys,  \* TRUE: a client may open two sessions with one key
  AgentFirst,  \* TRUE: the agent is subscribed before the API takes requests
  Mishaps,     \* what may go wrong in a run: a subset of MishapKinds
  MaxMishaps,  \* bound: how often something goes wrong
  None         \* no session, no address, no key

MishapKinds == {"api dies", "create fails unstored", "create fails stored",
                "tick dies", "agent dies", "agent call fails", "event lost"}

ASSUME PeerAssumption ==
  /\ SharedKeys \in BOOLEAN /\ AgentFirst \in BOOLEAN
  /\ Mishaps \subseteq MishapKinds
  /\ MaxMishaps \in Nat
  /\ None \notin Sessions \cup Addresses \cup Keys

VARIABLES
  pool,         \* the set region:{id}:ip_pool
  seeder,       \* seeder[d]: a seedRegions call
  create,       \* create[s]: the POST /session/create handler of s
  ip,           \* ip[s]: the address popped for s
  key,          \* key[s]: the public key in the request for s
  status,       \* status[s]: field status of the hash session:{id}
  activePeers,  \* the set region:{id}:active_peers
  tick,         \* tick[t]: a billing tick: pc and the session it evicts
  channel,      \* events delivered to the agent's subscription, oldest first
  agent,        \* the agent: pc, the session in hand, sessions left to resync
  wg,           \* wg[k]: the address WireGuard routes to key k, or None
  mishaps,      \* how often something went wrong
  returned      \* history: how often the address of s went back to the pool

vars == <<pool, seeder, create, ip, key, status, activePeers, tick, channel,
          agent, wg, mishaps, returned>>

Down      == [pc |-> "down", cur |-> None, todo |-> {}]
Ready     == [pc |-> "ready", cur |-> None, todo |-> {}]
IdleTick  == [pc |-> "idle", cur |-> None]

Listening == agent.pc \in {"ready", "track", "untrack", "release"}

Event(type, s) == [type |-> type, session |-> s]

(* Redis pub/sub: who is not subscribed at this moment never hears of it.  *)
PublishNothing(e) == UNCHANGED channel  \* mutant: the event is not published
Publish(e) == channel' = IF Listening THEN Append(channel, e) ELSE channel

Mishap(kind) ==
  /\ kind \in Mishaps
  /\ mishaps < MaxMishaps
  /\ mishaps' = mishaps + 1

(* SPOP of an address for s, and SADD of the address of s to the pool.     *)
PopLeaves(s, a) ==  \* mutant: SRANDMEMBER, the address stays in the pool
  ip' = [ip EXCEPT ![s] = a] /\ UNCHANGED pool
Pop(s, a) ==
  ip' = [ip EXCEPT ![s] = a] /\ pool' = pool \ {a}

GiveBackNothing(s) == UNCHANGED <<pool, returned>>  \* mutant: no SADD
GiveBack(s) ==
  /\ pool' = pool \cup {ip[s]}
  /\ returned' = [returned EXCEPT ![s] = @ + 1]

-------------------------------------------------------------------------------
Init ==
  /\ pool = {}
  /\ seeder = [d \in Seeders |-> "start"]
  /\ create = [s \in Sessions |-> "none"]
  /\ ip = [s \in Sessions |-> None]
  /\ key = [s \in Sessions |-> None]
  /\ status = [s \in Sessions |-> "absent"]
  /\ activePeers = {}
  /\ tick = [t \in Ticks |-> IdleTick]
  /\ channel = <<>>
  /\ agent = IF AgentFirst THEN Ready ELSE Down
  /\ wg = [k \in Keys |-> None]
  /\ mishaps = 0
  /\ returned = [s \in Sessions |-> 0]

-------------------------------------------------------------------------------
(* seedRegions: SCARD, then SADD of every address when it was 0.           *)

SeedCount(d) ==
  /\ seeder[d] = "start"
  /\ seeder' = [seeder EXCEPT ![d] = IF pool = {} THEN "fill" ELSE "done"]
  /\ UNCHANGED <<pool, create, ip, key, status, activePeers, tick, channel,
                 agent, wg, mishaps, returned>>

SeedFill(d) ==
  /\ seeder[d] = "fill"
  /\ pool' = pool \cup Addresses
  /\ seeder' = [seeder EXCEPT ![d] = "done"]
  /\ UNCHANGED <<create, ip, key, status, activePeers, tick, channel, agent,
                 wg, mishaps, returned>>

-------------------------------------------------------------------------------
(* POST /session/create, wireguard mode.                                   *)

CreatePop(s, k) ==
  /\ create[s] = "none"
  /\ SharedKeys \/ \A q \in Sessions : key[q] # k
  /\ \E a \in pool : Pop(s, a)
  /\ key' = [key EXCEPT ![s] = k]
  /\ create' = [create EXCEPT ![s] = "popped"]
  /\ UNCHANGED <<seeder, status, activePeers, tick, channel, agent, wg,
                 mishaps, returned>>

(* 503: the pool is empty. *)
CreateNoAddress(s) ==
  /\ create[s] = "none"
  /\ pool = {}
  /\ create' = [create EXCEPT ![s] = "failed"]
  /\ UNCHANGED <<pool, seeder, ip, key, status, activePeers, tick, channel,
                 agent, wg, mishaps, returned>>

(* 503: the region record has no endpoint or key; the address goes back.   *)
CreateUnconfigured(s) ==
  /\ create[s] = "popped"
  /\ create' = [create EXCEPT ![s] = "failed"]
  /\ GiveBack(s)
  /\ UNCHANGED <<seeder, ip, key, status, activePeers, tick, channel, agent,
                 wg, mishaps>>

(* createSession's MULTI: the hash and its place in active_peers.          *)
CreateStore(s) ==
  /\ create[s] = "popped"
  /\ create' = [create EXCEPT ![s] = "stored"]
  /\ status' = [status EXCEPT ![s] = "active"]
  /\ activePeers' = activePeers \cup {s}
  /\ UNCHANGED <<pool, seeder, ip, key, tick, channel, agent, wg, mishaps, returned>>

CreatePublish(s) ==
  /\ create[s] = "stored"
  /\ create' = [create EXCEPT ![s] = "done"]
  /\ Publish(Event("PEER_ADD", s))
  /\ UNCHANGED <<pool, seeder, ip, key, status, activePeers, tick, agent, wg,
                 mishaps, returned>>

(* The catch block gives the address back, whichever of the two awaits     *)
(* threw: either nothing was stored,                                       *)
CreateFailsUnstored(s) ==
  /\ create[s] = "popped"
  /\ Mishap("create fails unstored")
  /\ create' = [create EXCEPT ![s] = "failed"]
  /\ GiveBack(s)
  /\ UNCHANGED <<seeder, ip, key, status, activePeers, tick, channel, agent, wg>>

(* or the MULTI was applied, and then its exec or the publication threw:   *)
(* the session stays stored, active and in active_peers.                   *)
CreateFailsStored(s) ==
  /\ create[s] = "stored"
  /\ Mishap("create fails stored")
  /\ create' = [create EXCEPT ![s] = "failed"]
  /\ GiveBack(s)
  /\ UNCHANGED <<seeder, ip, key, status, activePeers, tick, channel, agent, wg>>

(* The API process dies in the middle of the handler.                      *)
CreateDies(s) ==
  /\ create[s] \in {"popped", "stored"}
  /\ Mishap("api dies")
  /\ create' = [create EXCEPT ![s] = "dead"]
  /\ UNCHANGED <<pool, seeder, ip, key, status, activePeers, tick, channel,
                 agent, wg, returned>>

-------------------------------------------------------------------------------
(* The part of runBillingTick that ends a session.                         *)

(* A session lasts minutes, the handler that creates it milliseconds.      *)
CreditOutlastsHandler(s) == create[s] # "stored"

TickFindsExhausted(t, s) ==
  /\ tick[t].pc = "idle"
  /\ status[s] = "active"
  /\ CreditOutlastsHandler(s)
  /\ tick' = [tick EXCEPT ![t] = [pc |-> "evict", cur |-> s]]
  /\ UNCHANGED <<pool, seeder, create, ip, key, status, activePeers, channel,
                 agent, wg, mishaps, returned>>

(* Mutant: billing gives the address back itself.                          *)
TickEvictReturns(t) ==
  /\ tick[t].pc = "evict"
  /\ status' = [status EXCEPT ![tick[t].cur] = "evicted"]
  /\ tick' = [tick EXCEPT ![t].pc = "publish"]
  /\ GiveBack(tick[t].cur)
  /\ UNCHANGED <<seeder, create, ip, key, activePeers, channel, agent, wg, mishaps>>

(* markSessionEvicted leaves active_peers alone.                           *)
TickEvict(t) ==
  /\ tick[t].pc = "evict"
  /\ status' = [status EXCEPT ![tick[t].cur] = "evicted"]
  /\ tick' = [tick EXCEPT ![t].pc = "publish"]
  /\ UNCHANGED <<pool, seeder, create, ip, key, activePeers, channel, agent,
                 wg, mishaps, returned>>

TickPublish(t) ==
  /\ tick[t].pc = "publish"
  /\ Publish(Event("PEER_EVICT", tick[t].cur))
  /\ tick' = [tick EXCEPT ![t] = IdleTick]
  /\ UNCHANGED <<pool, seeder, create, ip, key, status, activePeers, agent, wg,
                 mishaps, returned>>

TickDies(t) ==
  /\ tick[t].pc # "idle"
  /\ Mishap("tick dies")
  /\ tick' = [tick EXCEPT ![t] = IdleTick]
  /\ UNCHANGED <<pool, seeder, create, ip, key, status, activePeers, channel,
                 agent, wg, returned>>

-------------------------------------------------------------------------------
(* WireGuard: an address is routed to one key at most; giving it to a peer *)
(* takes it from any other.                                                *)

WgSetOnly(k, a) ==  \* mutant: every other peer of the interface is dropped
  wg' = [x \in Keys |-> IF x = k THEN a ELSE None]
WgSet(k, a) ==
  wg' = [x \in Keys |-> IF x = k THEN a ELSE IF wg[x] = a THEN None ELSE wg[x]]

WgRemoveNothing(k) == UNCHANGED wg  \* mutant: the peer stays
WgRemove(k) == wg' = [wg EXCEPT ![k] = None]

-------------------------------------------------------------------------------
(* The agent: resyncFromRedis, then subscribe, then one event at a time.   *)

AgentStart ==
  /\ agent.pc = "down"
  /\ agent' = [pc |-> "resync", cur |-> None, todo |-> activePeers]
  /\ UNCHANGED <<pool, seeder, create, ip, key, status, activePeers, tick,
                 channel, wg, mishaps, returned>>

ResyncRead(s) ==
  /\ agent.pc = "resync"
  /\ s \in agent.todo
  /\ agent' = IF status[s] = "active"
                THEN [pc |-> "apply", cur |-> s, todo |-> agent.todo \ {s}]
                ELSE [agent EXCEPT !.todo = @ \ {s}]
  /\ UNCHANGED <<pool, seeder, create, ip, key, status, activePeers, tick,
                 channel, wg, mishaps, returned>>

ResyncApply ==
  /\ agent.pc = "apply"
  /\ WgSet(key[agent.cur], ip[agent.cur])
  /\ agent' = [agent EXCEPT !.pc = "resync", !.cur = None]
  /\ UNCHANGED <<pool, seeder, create, ip, key, status, activePeers, tick,
                 channel, mishaps, returned>>

AgentSubscribe ==
  /\ agent.pc = "resync"
  /\ agent.todo = {}
  /\ agent' = Ready
  /\ UNCHANGED <<pool, seeder, create, ip, key, status, activePeers, tick,
                 channel, wg, mishaps, returned>>

(* The next event of a type, handed to its handler.                        *)
TakeForgets(type, pc) ==  \* mutant: the handler loses the session of the event
  /\ agent.pc = "ready" /\ channel # <<>>
  /\ Head(channel).type = type
  /\ agent' = [Ready EXCEPT !.pc = pc]
  /\ channel' = Tail(channel)
Take(type, pc) ==
  /\ agent.pc = "ready" /\ channel # <<>>
  /\ Head(channel).type = type
  /\ agent' = [Ready EXCEPT !.pc = pc, !.cur = Head(channel).session]
  /\ channel' = Tail(channel)

(* handlePeerAdd: wg set, then SADD active_peers.                          *)
HandleAdd ==
  /\ Take("PEER_ADD", "track")
  /\ WgSet(key[Head(channel).session], ip[Head(channel).session])
  /\ UNCHANGED <<pool, seeder, create, ip, key, status, activePeers, tick,
                 mishaps, returned>>

TrackPeer ==
  /\ agent.pc = "track"
  /\ activePeers' = activePeers \cup {agent.cur}
  /\ agent' = Ready
  /\ UNCHANGED <<pool, seeder, create, ip, key, status, tick, channel, wg,
                 mishaps, returned>>

(* handlePeerEvict: wg remove, SREM active_peers, SADD to the pool.        *)
HandleEvict ==
  /\ Take("PEER_EVICT", "untrack")
  /\ WgRemove(key[Head(channel).session])
  /\ UNCHANGED <<pool, seeder, create, ip, key, status, activePeers, tick,
                 mishaps, returned>>

UntrackPeer ==
  /\ agent.pc = "untrack"
  /\ activePeers' = activePeers \ {agent.cur}
  /\ agent' = [agent EXCEPT !.pc = "release"]
  /\ UNCHANGED <<pool, seeder, create, ip, key, status, tick, channel, wg,
                 mishaps, returned>>

ReleaseAddress ==
  /\ agent.pc = "release"
  /\ GiveBack(agent.cur)
  /\ agent' = Ready
  /\ UNCHANGED <<seeder, create, ip, key, status, activePeers, tick, channel,
                 wg, mishaps>>

(* A wg or Redis call of the agent fails: it is logged, and the handler    *)
(* goes on (Redis) or gives the event up (wg).                             *)
AgentCallFails ==
  /\ Mishap("agent call fails")
  /\ \/ /\ agent.pc = "ready" /\ channel # <<>>
        /\ channel' = Tail(channel)
        /\ UNCHANGED agent
     \/ /\ agent.pc \in {"track", "release"}
        /\ agent' = Ready
        /\ UNCHANGED channel
     \/ /\ agent.pc = "untrack"
        /\ agent' = [agent EXCEPT !.pc = "release"]
        /\ UNCHANGED channel
     \/ /\ agent.pc = "apply"
        /\ agent' = [agent EXCEPT !.pc = "resync", !.cur = None]
        /\ UNCHANGED channel
  /\ UNCHANGED <<pool, seeder, create, ip, key, status, activePeers, tick, wg, returned>>

(* The subscription's connection breaks, or its Go channel is full: an     *)
(* event never reaches the handler; there is no resync after a reconnect.  *)
EventLost ==
  /\ channel # <<>>
  /\ Mishap("event lost")
  /\ channel' = Tail(channel)
  /\ UNCHANGED <<pool, seeder, create, ip, key, status, activePeers, tick,
                 agent, wg, returned>>

(* The agent stops; the kernel keeps its peers.                            *)
AgentDies ==
  /\ agent.pc # "down"
  /\ Mishap("agent dies")
  /\ agent' = Down
  /\ channel' = <<>>
  /\ UNCHANGED <<pool, seeder, create, ip, key, status, activePeers, tick, wg, returned>>

-------------------------------------------------------------------------------
SeedStep(d) == SeedCount(d) \/ SeedFill(d)

CreateStep(s) ==
  \/ \E k \in Keys : CreatePop(s, k)
  \/ CreateNoAddress(s) \/ CreateUnconfigured(s)
  \/ CreateStore(s) \/ CreatePublish(s)
  \/ CreateFailsUnstored(s) \/ CreateFailsStored(s) \/ CreateDies(s)

TickStep(t) ==
  \/ \E s \in Sessions : TickFindsExhausted(t, s)
  \/ TickEvict(t) \/ TickPublish(t) \/ TickDies(t)

AgentHandles ==
  \/ AgentStart \/ ResyncApply \/ AgentSubscribe
  \/ HandleAdd \/ TrackPeer \/ HandleEvict \/ UntrackPeer \/ ReleaseAddress
  \/ \E s \in Sessions : ResyncRead(s)

Next ==
  \/ \E d \in Seeders : SeedStep(d)
  \/ \E s \in Sessions : CreateStep(s)
  \/ \E t \in Ticks : TickStep(t)
  \/ AgentHandles \/ AgentCallFails \/ EventLost \/ AgentDies

Spec == Init /\ [][Next]_vars

(* A handler or tick that began goes on, and the agent keeps working; no   *)
(* client has to create a session and none has to run out of credit.       *)
FairSpec ==
  /\ Spec
  /\ WF_vars(AgentHandles)
  /\ \A s \in Sessions : WF_vars(CreateStore(s) \/ CreatePublish(s))
  /\ \A t \in Ticks : WF_vars(TickEvict(t) \/ TickPublish(t))

-------------------------------------------------------------------------------
AgentStates == {"down", "resync", "apply", "ready", "track", "untrack", "release"}
Events == [type : {"PEER_ADD", "PEER_EVICT"}, session : Sessions]

(* Every variable has its type; whoever acts on a session has one.         *)
TypeOK ==
  /\ pool \in SUBSET Addresses
  /\ seeder \in [Seeders -> {"start", "fill", "done"}]
  /\ create \in [Sessions -> {"none", "popped", "stored", "done", "failed", "dead"}]
  /\ ip \in [Sessions -> Addresses \cup {None}]
  /\ key \in [Sessions -> Keys \cup {None}]
  /\ status \in [Sessions -> {"absent", "active", "evicted"}]
  /\ activePeers \in SUBSET Sessions
  /\ tick \in [Ticks -> [pc : {"idle", "evict", "publish"}, cur : Sessions \cup {None}]]
  /\ channel \in Seq(Events)
  /\ agent \in [pc : AgentStates, cur : Sessions \cup {None}, todo : SUBSET Sessions]
  /\ wg \in [Keys -> Addresses \cup {None}]
  /\ mishaps \in Nat
  /\ returned \in [Sessions -> Nat]
  /\ \A t \in Ticks : tick[t].pc # "idle" => tick[t].cur \in Sessions
  /\ agent.pc \in {"apply", "track", "untrack", "release"} => agent.cur \in Sessions

Active(s) == status[s] = "active"
Routed(s) == key[s] # None /\ wg[key[s]] = ip[s]

SoleHolder(s) ==
  /\ ip[s] \notin pool
  /\ \A q \in Sessions : Active(q) /\ q # s => ip[q] # ip[s]

(* No two active sessions share an address, and none has its address back  *)
(* in the pool where the next client would pop it (server.js:242-270).     *)
LeaseExclusive == \A s \in Sessions : Active(s) => SoleHolder(s)

(* No session is opened on the address of another that is still active     *)
(* (server.js:242-270).                                                    *)
AddressNotShared ==
  \A s, q \in Sessions : Active(s) /\ Active(q) /\ s # q => ip[s] # ip[q]

(* An address in the pool is routed to nobody: its next holder does not    *)
(* meet the traffic of an earlier one (main.go:232-252).                   *)
PoolUnrouted == \A a \in pool, k \in Keys : wg[k] # a

(* What can put a second active session on an address is a catch block     *)
(* that gave this address back for a session it had stored, or an eviction *)
(* announced twice, by ticks that overlap, that returned this address a    *)
(* second time, when it may be another's (server.js:267, worker.js:46).    *)
(* Every other address stays exclusive.                                    *)
GivenBackWrongly(a) ==
  \E s \in Sessions :
    /\ ip[s] = a
    /\ \/ create[s] = "failed" /\ status[s] # "absent"
       \/ returned[s] > 1
LeaseSharedOnlyByRepeat ==
  \A s \in Sessions : Active(s) => SoleHolder(s) \/ GivenBackWrongly(ip[s])

(* A client whose peer is installed for an active session keeps a route as *)
(* long as that session lasts, if only to another active session opened    *)
(* with the same key: no event for another session, no late event, restart *)
(* or resync of the agent cuts it off.  What does is the end of a second   *)
(* session that was opened with its key (main.go:140-300).                 *)
RouteKeptWhileActive ==
  [][\A s \in Sessions :
       Active(s) /\ Routed(s) /\ Active(s)' =>
         \E q \in Sessions :
           /\ key[q] = key[s]
           /\ \/ Active(q)' /\ Routed(q)'
              \/ q # s /\ status[q] = "evicted"]_vars

(* Some event, or a tick about to publish it, carries the news of s.       *)
Waiting(type, s) == \E i \in 1 .. Len(channel) : channel[i] = Event(type, s)
Announcing(s) ==
  Waiting("PEER_EVICT", s) \/ \E t \in Ticks : tick[t].pc = "publish" /\ tick[t].cur = s

(* No eviction is forgotten: until the address is back in the pool some    *)
(* tick, event or handler still carries it, and a route that is left, or   *)
(* that a late PEER_ADD installs after the eviction, is still to be cut    *)
(* (worker.js:61-62, main.go:188-252).                                     *)
EvictionUnderway ==
  \A s \in Sessions : status[s] = "evicted" =>
    /\ \/ returned[s] > 0 \/ Announcing(s)
       \/ agent.pc \in {"untrack", "release"} /\ agent.cur = s
    /\ Routed(s) => Announcing(s)

(* Nor is a client: when its creation was answered, its peer is routed or  *)
(* its PEER_ADD on the way, unless its own address was given back wrongly  *)
(* and so taken from it (server.js:251-284, main.go:140-186).              *)
AdditionUnderway ==
  \A s \in Sessions : Active(s) /\ create[s] = "done" =>
    Routed(s) \/ Waiting("PEER_ADD", s) \/ GivenBackWrongly(ip[s])

(* The API, billing and the agent together keep the pool's promise.        *)
Holds(s, a) == ip[s] = a /\ returned[s] = 0
Owner(a) == IF \E s \in Sessions : Holds(s, a)
              THEN CHOOSE s \in Sessions : Holds(s, a)
              ELSE None

Lease == INSTANCE AddressLease WITH
  free   <- pool,
  owner  <- [a \in Addresses |-> Owner(a)],
  served <- {s \in Sessions : ip[s] # None}

ImplementsLease == Lease!Spec

(* An evicted session's address goes back to the pool.                     *)
EvictedReturned ==
  \A s \in Sessions : (status[s] = "evicted") ~> (returned[s] > 0)

(* An evicted session's peer loses its route.                              *)
EvictedCutOff ==
  \A s \in Sessions : (status[s] = "evicted") ~> ~Routed(s)

(* A stored session's peer gets installed, unless its own creation was     *)
(* answered with an error: the announcement of another session's failed    *)
(* creation, or its eviction, does not come in between.                    *)
ActiveRouted ==
  \A s \in Sessions :
    (create[s] = "stored") ~> (Routed(s) \/ create[s] = "failed")
===============================================================================
