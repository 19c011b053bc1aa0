----------------------------- MODULE LogContract -----------------------------
(***************************************************************************)
(* What the logger promises of the lines it takes, without threads, buffers *)
(* or files: lines are numbered as they are taken; they leave in batches,   *)
(* each batch being the oldest lines still there, and a batch is saved as a *)
(* whole or gone as a whole; what has left stays where it is.  Two threads  *)
(* at the same file, or a crash, break the promise.                         *)
(***************************************************************************)
EXTENDS Integers

VARIABLES
  taken,   \* how many lines were taken
  saved,   \* the lines in files
  gone,    \* the lines that will never be in a file
  broken   \* nothing is promised any more

vars == <<taken, saved, gone, broken>>

Init == taken = 0 /\ saved = {} /\ gone = {} /\ broken = FALSE

Left == saved \cup gone

\* The lines up to the n-th that are still there.
Batch(n) == (1 .. n) \ Left

Take ==
  /\ taken' = taken + 1
  /\ UNCHANGED <<saved, gone, broken>>

Save(n) ==
  /\ saved' = saved \cup Batch(n)
  /\ UNCHANGED <<taken, gone, broken>>

Lose(n) ==
  /\ gone' = gone \cup Batch(n)
  /\ UNCHANGED <<taken, saved, broken>>

Break == broken' = TRUE

Next ==
  \/ Break
  \/ ~broken /\ (Take \/ \E n \in 1 .. taken : Save(n) \/ Lose(n))

Spec == Init /\ [][Next]_vars
=============================================================================
