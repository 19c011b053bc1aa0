------------------------------ MODULE MCFiber ------------------------------
(***************************************************************************)
(* A finite instance of Fiber: a worker, the root thread with its fiber,   *)
(* and two tasks they share.                                               *)
(***************************************************************************)
EXTENDS Fiber, TLC

CONSTANTS w, r, f1, f2

Symmetry == Permutations(Fibers \ {Root})
=============================================================================
