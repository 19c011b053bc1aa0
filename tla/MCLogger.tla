------------------------------ MODULE MCLogger ------------------------------
(***************************************************************************)
(* Finite instances of Logger: the threads are model values.                *)
(***************************************************************************)
EXTENDS Logger, TLC

CONSTANTS w1, w2

OneWriter  == {w1}
TwoWriters == {w1, w2}
Symmetry   == Permutations(Writers)
=============================================================================
