---------------------------- MODULE PrepaidSession ----------------------------
(***************************************************************************)
(* What a prepaid session promises its buyer, with no database, billing    *)
(* worker or API handler in sight.  A session is opened with some time;    *)
(* topups buy more, for sure or at the service's mercy; the service may    *)
(* hold the paid-until moment anywhere between what was bought for sure    *)
(* and what all payments together bought; it may end the session only once *)
(* the sure time is spent; and an ended session stays ended.               *)
(***************************************************************************)
EXTENDS Naturals

CONSTANTS
  Sessions,   \* session ids
  Amounts,    \* the amounts of time, in seconds, that a payment can buy
  MaxTime     \* the clock stops here

VARIABLES
  clock,        \* wall-clock time, seconds
  phase,        \* phase[s]: "none", "active" or "ended"
  until,        \* until[s]: the moment the service will keep s up to
  sureUntil,    \* sureUntil[s]: end of the time that s cannot be denied
  boughtUntil   \* boughtUntil[s]: end of all the time bought for s

prepaidVars == <<clock, phase, until, sureUntil, boughtUntil>>

Init ==
  /\ clock = 0
  /\ phase = [s \in Sessions |-> "none"]
  /\ until = [s \in Sessions |-> 0]
  /\ sureUntil = [s \in Sessions |-> 0]
  /\ boughtUntil = [s \in Sessions |-> 0]

(* Time is counted from a moment `from` no later than the present: the     *)
(* handler reads the clock before it stores the session.                   *)
Open(s) ==
  \E from \in 0..clock, a \in Amounts :
    /\ phase[s] = "none"
    /\ phase' = [phase EXCEPT ![s] = "active"]
    /\ until' = [until EXCEPT ![s] = from + a]
    /\ sureUntil' = [sureUntil EXCEPT ![s] = from + a]
    /\ boughtUntil' = [boughtUntil EXCEPT ![s] = from + a]
    /\ UNCHANGED clock

(* A topup is sure, or it may be taken back while the session is settled.  *)
TopUp(s) ==
  \E a \in Amounts :
    /\ phase[s] = "active"
    /\ until' = [until EXCEPT ![s] = @ + a]
    /\ boughtUntil' = [boughtUntil EXCEPT ![s] = @ + a]
    /\ \E sure \in {0, a} : sureUntil' = [sureUntil EXCEPT ![s] = @ + sure]
    /\ UNCHANGED <<clock, phase>>

(* A topup accepted for a session that has ended meanwhile buys nothing.   *)
TopUpLate(s) ==
  \E a \in Amounts :
    /\ phase[s] = "ended"
    /\ boughtUntil' = [boughtUntil EXCEPT ![s] = @ + a]
    /\ UNCHANGED <<clock, phase, until, sureUntil>>

Settle(s) ==
  /\ phase[s] = "active"
  /\ \E u \in sureUntil[s] .. boughtUntil[s] : until' = [until EXCEPT ![s] = u]
  /\ UNCHANGED <<clock, phase, sureUntil, boughtUntil>>

Close(s) ==
  /\ phase[s] = "active"
  /\ sureUntil[s] <= clock
  /\ phase' = [phase EXCEPT ![s] = "ended"]
  /\ until' = [until EXCEPT ![s] = 0]
  /\ UNCHANGED <<clock, sureUntil, boughtUntil>>

Advance ==
  /\ clock < MaxTime
  /\ clock' = clock + 1
  /\ UNCHANGED <<phase, until, sureUntil, boughtUntil>>

Next ==
  \/ Advance
  \/ \E s \in Sessions :
       Open(s) \/ TopUp(s) \/ TopUpLate(s) \/ Settle(s) \/ Close(s)

Spec == Init /\ [][Next]_prepaidVars
===============================================================================
