----------------------------- MODULE AddressLease -----------------------------
(***************************************************************************)
(* What a region's address pool promises, with no Redis, events or agents: *)
(* the addresses are put in the pool once, each is leased to one session   *)
(* at a time, a session leases once in its life, and only the session that *)
(* holds an address gives it back.                                         *)
(***************************************************************************)
CONSTANTS
  Sessions,   \* session ids
  Addresses,  \* the addresses of the region's subnet
  None        \* not a session

VARIABLES
  free,   \* the addresses in the pool
  owner,  \* owner[a]: the session that holds a, or None
  served  \* the sessions that have leased an address

leaseVars == <<free, owner, served>>

Init ==
  /\ free = {}
  /\ owner = [a \in Addresses |-> None]
  /\ served = {}

Seed ==
  /\ free = {}
  /\ \A a \in Addresses : owner[a] = None
  /\ free' = Addresses
  /\ UNCHANGED <<owner, served>>

Lease(s, a) ==
  /\ s \notin served
  /\ a \in free
  /\ free' = free \ {a}
  /\ owner' = [owner EXCEPT ![a] = s]
  /\ served' = served \cup {s}

Release(a) ==
  /\ owner[a] # None
  /\ free' = free \cup {a}
  /\ owner' = [owner EXCEPT ![a] = None]
  /\ UNCHANGED served

Next ==
  \/ Seed
  \/ \E a \in Addresses : Release(a) \/ \E s \in Sessions : Lease(s, a)

Spec == Init /\ [][Next]_leaseVars
===============================================================================
