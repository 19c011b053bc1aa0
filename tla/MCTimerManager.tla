--------------------------- MODULE MCTimerManager ---------------------------
(***************************************************************************)
(* Finite instances of TimerManager.  Timer addresses are numbers, because  *)
(* the comparator orders them; threads are model values.                    *)
(***************************************************************************)
EXTENDS TimerManager, TLC

CONSTANTS c1, c2, d1, d2

OneClient  == {c1}
TwoClients == {c1, c2}
OneDriver  == {d1}
TwoDrivers == {d1, d2}

Threads == Permutations(Clients) \cup Permutations(Drivers)
=============================================================================
