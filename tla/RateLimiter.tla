----------------------------- MODULE RateLimiter ------------------------------
(***************************************************************************)
(* The fixed-window limiter of POST /session/create (per source address,   *)
(* 3600 s) and of /fetch (per session, 60 s): INCR of a key that names the *)
(* client and the window, then, for the first request of the window and as *)
(* a second Redis call, EXPIRE.  The handlers decide with the count that   *)
(* INCR answered; Redis drops the key when its time is up.                 *)
(***************************************************************************)
EXTENDS Naturals

CONSTANTS
  Clients,  \* whom the key names: sources or sessions
  Window,   \* length of a window in seconds
  MaxTime   \* bound: the clock stops here

VARIABLES
  clock,      \* the time
  counter,    \* counter[c][b]: the value of the key, 0 when missing
  counterEnd  \* counterEnd[c][b]: when Redis drops it, 0 without a TTL

Windows == 0 .. MaxTime \div Window

Init ==
  /\ counter = [c \in Clients |-> [b \in Windows |-> 0]]
  /\ counterEnd = [c \in Clients |-> [b \in Windows |-> 0]]

BucketSame(at) == 0  \* mutant: one counter for all time
Bucket(at) == at \div Window

(* The answer of INCR to a handler that read the clock at `at`.            *)
CountNext(c, at) == counter[c][Bucket(at)] + 1

Incr(c, at) ==
  /\ counter' = [counter EXCEPT ![c][Bucket(at)] = @ + 1]
  /\ UNCHANGED counterEnd

ExpireSooner(c, at) ==  \* mutant: a TTL shorter than the window
  /\ counterEnd' = [counterEnd EXCEPT ![c][Bucket(at)] = clock + Window \div 2]
  /\ UNCHANGED counter
Expire(c, at) ==
  /\ counterEnd' = [counterEnd EXCEPT ![c][Bucket(at)] = clock + Window]
  /\ UNCHANGED counter

(* Redis drops the key of window b.                                        *)
Drop(c, b) ==
  /\ counterEnd[c][b] # 0
  /\ counterEnd[c][b] <= clock
  /\ counter' = [counter EXCEPT ![c][b] = 0]
  /\ counterEnd' = [counterEnd EXCEPT ![c][b] = 0]

TypeOK ==
  /\ counter \in [Clients -> [Windows -> Nat]]
  /\ counterEnd \in [Clients -> [Windows -> Nat]]
===============================================================================
