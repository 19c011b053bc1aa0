----------------------------- MODULE MCConfig -----------------------------
(***************************************************************************)
(* A finite instance of Config: two threads, the names a and b, and a      *)
(* listener that sets b.  Registered with b itself it makes a cycle.       *)
(***************************************************************************)
EXTENDS Config, TLC

CONSTANTS t1, t2, a, b, toB

MCSets == [l \in Listeners |-> b]
=============================================================================
