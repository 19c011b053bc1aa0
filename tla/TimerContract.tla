---------------------------- MODULE TimerContract ----------------------------
(***************************************************************************)
(* What the timer queue promises its users, without clock, lock or order: a *)
(* timer is armed once; an armed timer may be cancelled; expired timers are *)
(* handed to one driver, which a one-shot timer leaves the queue for and a  *)
(* periodic one does not; every handed callback is called once.             *)
(***************************************************************************)
EXTENDS Naturals

CONSTANTS Timers, Drivers

VARIABLES
  fresh,     \* timers not armed yet
  armed,     \* timers that can still expire
  periodic,  \* which timers repeat, fixed when they are armed
  handed     \* for each driver, the callbacks it still has to call

vars == <<fresh, armed, periodic, handed>>

Init ==
  /\ fresh = Timers /\ armed = {}
  /\ periodic = [t \in Timers |-> FALSE]
  /\ handed = [d \in Drivers |-> {}]

Arm(t) ==
  /\ t \in fresh
  /\ fresh' = fresh \ {t} /\ armed' = armed \cup {t}
  /\ \E p \in BOOLEAN : periodic' = [periodic EXCEPT ![t] = p]
  /\ UNCHANGED handed

Disarm(t) ==
  /\ t \in armed
  /\ armed' = armed \ {t}
  /\ UNCHANGED <<fresh, periodic, handed>>

Expire(d, S) ==
  /\ handed[d] = {}
  /\ handed' = [handed EXCEPT ![d] = S]
  /\ armed' = {t \in armed : t \in S => periodic[t]}
  /\ UNCHANGED <<fresh, periodic>>

Call(d, t) ==
  /\ t \in handed[d]
  /\ handed' = [handed EXCEPT ![d] = @ \ {t}]
  /\ UNCHANGED <<fresh, armed, periodic>>

Next ==
  \/ \E t \in Timers : Arm(t) \/ Disarm(t)
  \/ \E d \in Drivers, S \in SUBSET armed : Expire(d, S)
  \/ \E d \in Drivers, t \in Timers : Call(d, t)

Spec == Init /\ [][Next]_vars
=============================================================================
