----------------------------- MODULE MCThread -----------------------------
(***************************************************************************)
(* A finite instance of Thread: main and three thread objects, enough for  *)
(* a thread that makes a thread that makes a thread.                       *)
(***************************************************************************)
EXTENDS Thread

CONSTANTS t1, t2, t3
=============================================================================
