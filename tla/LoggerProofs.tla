---------------------------- MODULE LoggerProofs ----------------------------
(***************************************************************************)
(* Safety of Logger for every set of threads, every bound on lines and      *)
(* days: no line is doubled, reordered or left behind, and the logger       *)
(* implements LogContract.                                                  *)
(***************************************************************************)
EXTENDS Logger, SequenceTheorems, TLAPS

(***************************************************************************)
(* The inductive invariant.  While overlap is FALSE the lines fall into     *)
(* three consecutive runs: 1 .. Left have left for a file or are lost,      *)
(* Left+1 .. Swapped are those of local_, and the rest is in cache_.        *)
(***************************************************************************)
InFlush(p) == pc[p] \in {"save", "clear"}

Swapped == accepted - Len(cache_)
Left    == Swapped - Len(local_)

OneFlush ==
  /\ \A p, q \in Threads : InFlush(p) /\ InFlush(q) => p = q
  /\ local_ # <<>> => \E p \in Threads : InFlush(p)

Numbered ==
  /\ Left \in Nat
  /\ \A i \in 1 .. Len(cache_) : cache_[i] = Swapped + i
  /\ \A i \in 1 .. Len(local_) : local_[i] = Left + i

\* The lines of local_ stay there between their saving and the clear.
Leaving ==
  /\ Saved \cap lost = {}
  /\ \/ Saved \cup lost = 1 .. Left
     \/ /\ Saved \cup lost = 1 .. Swapped
        /\ Lines(local_) \subseteq Saved
        /\ \A p \in Threads : pc[p] # "save"

InFiles ==
  /\ \A f \in Paths : Increasing(file[f])
  /\ \A f, g \in Paths : Lines(file[f]) \cap Lines(file[g]) # {} => f = g

\* A FATAL line still in cache_ has a writer on its way to the swap.
FatalFlushed ==
  fatal <= Swapped \/ \E w \in Writers : pc[w] \in {"check", "swap"}

\* How the flush thread and the closer stand to each other; after the last
\* turn of the loop nothing comes into cache_ any more.
Ending ==
  /\ pc[Flusher] = "none" => accepted = 0 /\ cache_ = <<>> /\ local_ = <<>>
  /\ logger_shutdown <=> pc[Closer] # "idle"
  /\ keep_run_ <=> pc[Flusher] # "none" /\ pc[Closer] \in {"idle", "stop"}
  /\ last => pc[Closer] \in {"join", "done"}
  /\ pc[Flusher] = "exit" => last
  /\ pc[Closer] = "done" => pc[Flusher] \in {"none", "exit"}

Drained == last /\ pc[Flusher] \in {"save", "clear", "exit"} => cache_ = <<>>

Labels == {"idle", "write", "fatal", "check", "swap", "save", "clear", "abort",
           "none", "loop", "exit", "stop", "join", "done"}

IInv ==
  /\ TypeOK
  /\ pc \in [Threads \cup {Closer} -> Labels]
  /\ Ending
  /\ ~overlap => OneFlush /\ Numbered /\ Leaving /\ InFiles /\ FatalFlushed /\ Drained
-----------------------------------------------------------------------------
(* Operators. *)

LEMMA LinesOfConcat ==
  ASSUME NEW s \in Seq(Nat), NEW t \in Seq(Nat)
  PROVE  /\ s \o t \in Seq(Nat)
         /\ Lines(s \o t) = Lines(s) \cup Lines(t)
<1>1. /\ s \o t \in Seq(Nat)
      /\ Len(s \o t) = Len(s) + Len(t)
      /\ \A i \in 1 .. Len(s) + Len(t) :
           (s \o t)[i] = IF i <= Len(s) THEN s[i] ELSE t[i - Len(s)]
  BY ConcatProperties
<1>2. Len(s) \in Nat /\ Len(t) \in Nat
  OBVIOUS
<1>3. ASSUME NEW n \in Lines(s \o t) PROVE n \in Lines(s) \cup Lines(t)
  <2>1. PICK i \in 1 .. Len(s) + Len(t) : n = (s \o t)[i]
    BY <1>1, <1>3 DEF Lines
  <2>2. CASE i <= Len(s)
    BY <1>1, <1>2, <2>1, <2>2 DEF Lines
  <2>3. CASE i > Len(s)
    <3>1. i - Len(s) \in 1 .. Len(t) /\ n = t[i - Len(s)]
      BY <1>1, <1>2, <2>1, <2>3
    <3>2. QED
      BY <3>1 DEF Lines
  <2>4. QED
    BY <1>2, <2>2, <2>3
<1>4. ASSUME NEW n \in Lines(s) PROVE n \in Lines(s \o t)
  <2>1. PICK i \in 1 .. Len(s) : n = s[i]
    BY <1>4 DEF Lines
  <2>2. i \in 1 .. Len(s) + Len(t) /\ n = (s \o t)[i]
    BY <1>1, <1>2, <2>1
  <2>3. QED
    BY <1>1, <2>2 DEF Lines
<1>5. ASSUME NEW n \in Lines(t) PROVE n \in Lines(s \o t)
  <2>1. PICK i \in 1 .. Len(t) : n = t[i]
    BY <1>5 DEF Lines
  <2>2. /\ Len(s) + i \in 1 .. Len(s) + Len(t)
        /\ n = (s \o t)[Len(s) + i]
    BY <1>1, <1>2, <2>1
  <2>3. QED
    BY <1>1, <2>2 DEF Lines
<1>6. QED
  BY <1>1, <1>3, <1>4, <1>5

LEMMA IncreasingConcat ==
  ASSUME NEW s \in Seq(Nat), NEW t \in Seq(Nat),
         Increasing(s), Increasing(t),
         \A m \in Lines(s), n \in Lines(t) : m < n
  PROVE  Increasing(s \o t)
<1>1. /\ Len(s \o t) = Len(s) + Len(t)
      /\ \A i \in 1 .. Len(s) + Len(t) :
           (s \o t)[i] = IF i <= Len(s) THEN s[i] ELSE t[i - Len(s)]
  BY ConcatProperties
<1>2. Len(s) \in Nat /\ Len(t) \in Nat
  OBVIOUS
<1> SUFFICES ASSUME NEW i \in 1 .. Len(s \o t), NEW j \in 1 .. Len(s \o t), i < j
             PROVE  (s \o t)[i] < (s \o t)[j]
  BY DEF Increasing
<1>3. CASE j <= Len(s)
  BY <1>1, <1>2, <1>3 DEF Increasing
<1>4. CASE i > Len(s)
  <2>1. /\ i - Len(s) \in 1 .. Len(t) /\ j - Len(s) \in 1 .. Len(t)
        /\ i - Len(s) < j - Len(s)
    BY <1>1, <1>2, <1>4
  <2>2. t[i - Len(s)] < t[j - Len(s)]
    BY <2>1 DEF Increasing
  <2>3. QED
    BY <1>1, <1>2, <1>4, <2>2
<1>5. CASE i <= Len(s) /\ j > Len(s)
  <2>1. i \in 1 .. Len(s) /\ j - Len(s) \in 1 .. Len(t)
    BY <1>1, <1>2, <1>5
  <2>2. s[i] \in Lines(s) /\ t[j - Len(s)] \in Lines(t)
    BY <2>1 DEF Lines
  <2>3. QED
    <3>1. (s \o t)[i] = s[i] /\ (s \o t)[j] = t[j - Len(s)]
      BY <1>1, <1>2, <1>5
    <3>2. QED
      BY <2>2, <3>1
<1>6. QED
  BY <1>1, <1>2, <1>3, <1>4, <1>5

LEMMA LinesEmpty ==
  /\ Lines(<<>>) = {}
  /\ \A s \in Seq(Nat) : Lines(s) \subseteq Nat /\ (s = <<>> <=> Len(s) = 0)
BY EmptySeq DEF Lines

LEMMA SavedMember ==
  ASSUME file \in [Paths -> Seq(Nat)]
  PROVE  /\ \A n : n \in Saved <=> \E f \in Paths : n \in Lines(file[f])
         /\ Saved \subseteq Nat
BY LinesEmpty DEF Saved

\* The lines of local_ and cache_, in numbers.
LEMMA RunsOfLines ==
  ASSUME TypeOK, Numbered
  PROVE  /\ Lines(local_) = (Left + 1) .. Swapped
         /\ Lines(cache_) = (Swapped + 1) .. accepted
         /\ Increasing(local_)
         /\ Left \in Nat /\ Swapped \in Nat /\ Left <= Swapped /\ Swapped <= accepted
<1>1. /\ Len(cache_) \in Nat /\ Len(local_) \in Nat /\ accepted \in Nat
      /\ Left \in Nat /\ Swapped \in Nat
      /\ Left = Swapped - Len(local_) /\ Swapped = accepted - Len(cache_)
  BY DEF TypeOK, Numbered, Left, Swapped
<1>2. ASSUME NEW n \in Lines(local_) PROVE n \in (Left + 1) .. Swapped
  BY <1>1, <1>2 DEF Lines, Numbered
<1>3. ASSUME NEW n \in (Left + 1) .. Swapped PROVE n \in Lines(local_)
  <2>1. n - Left \in 1 .. Len(local_) /\ n = Left + (n - Left)
    BY <1>1
  <2>2. QED
    BY <2>1 DEF Lines, Numbered
<1>4. ASSUME NEW n \in Lines(cache_) PROVE n \in (Swapped + 1) .. accepted
  BY <1>1, <1>4 DEF Lines, Numbered
<1>5. ASSUME NEW n \in (Swapped + 1) .. accepted PROVE n \in Lines(cache_)
  <2>1. n - Swapped \in 1 .. Len(cache_) /\ n = Swapped + (n - Swapped)
    BY <1>1
  <2>2. QED
    BY <2>1 DEF Lines, Numbered
<1>6. Increasing(local_)
  BY <1>1 DEF Increasing, Numbered
<1>7. /\ Lines(local_) = (Left + 1) .. Swapped
      /\ Lines(cache_) = (Swapped + 1) .. accepted
  BY <1>2, <1>3, <1>4, <1>5
<1>8. Left <= Swapped /\ Swapped <= accepted
  BY <1>1
<1>9. QED
  BY <1>1, <1>6, <1>7, <1>8
-----------------------------------------------------------------------------
(* The invariant holds at the start and is kept by every action. *)

LEMMA IInvInit == ASSUME Init PROVE IInv
<1>1. /\ cache_ = <<>> /\ local_ = <<>> /\ accepted = 0 /\ fatal = 0 /\ lost = {}
      /\ file = [f \in Paths |-> <<>>]
      /\ pc = [p \in Threads \cup {Closer} |-> IF p = Flusher THEN "none" ELSE "idle"]
      /\ ~keep_run_ /\ ~logger_shutdown /\ ~last
  BY DEF Init
<1>2. /\ cache_ \in Seq(Nat) /\ local_ \in Seq(Nat) /\ file \in [Paths -> Seq(Nat)]
      /\ Len(cache_) = 0 /\ Len(local_) = 0 /\ \A f \in Paths : Len(file[f]) = 0
  BY <1>1, EmptySeq
<1>3. /\ pc \in [Threads \cup {Closer} -> Labels]
      /\ \A w \in Writers : pc[w] = "idle"
      /\ pc[Flusher] = "none" /\ pc[Closer] = "idle"
  BY <1>1, LoggerAssumption DEF LoggerAssumption, Threads, Labels
<1>4. Saved = {}
  BY <1>2 DEF Saved, Lines
<1>5. Swapped = 0 /\ Left = 0
  <2>1. accepted = 0 /\ Len(cache_) = 0 /\ Len(local_) = 0
    BY <1>1, <1>2
  <2>2. QED
    BY ONLY <2>1 DEF Swapped, Left
<1>6. TypeOK
  <2>1. /\ logger_level = LINFO /\ dir = "unset" /\ keep_run_ = FALSE
        /\ logger_shutdown = FALSE /\ last = FALSE /\ nullFile = FALSE /\ today = 1
        /\ overlap = FALSE /\ crashed = FALSE /\ aborted = FALSE
        /\ accepted = 0 /\ fatal = 0 /\ lost = {}
    BY DEF Init
  <2>2. MaxDay \in Nat \ {0}
    BY LoggerAssumption DEF LoggerAssumption
  <2>3. /\ logger_level \in 1 .. LFATAL /\ dir \in {"unset", "empty", "bare", "slash"}
        /\ accepted \in Nat /\ fatal \in 0 .. accepted /\ today \in 1 .. MaxDay
        /\ lost \subseteq Nat
    BY ONLY <2>1, <2>2 DEF LFATAL, LINFO
  <2>4. /\ \A x \in {keep_run_, logger_shutdown, last, nullFile} : x \in BOOLEAN
        /\ \A x \in {overlap, crashed, aborted} : x \in BOOLEAN
    BY ONLY <2>1
  <2>5. QED
    BY ONLY <1>2, <1>3, <2>3, <2>4 DEF TypeOK
<1>7. Ending
  BY <1>1, <1>3 DEF Ending
<1>8. OneFlush /\ Numbered /\ FatalFlushed /\ Drained
  <2>1. \A p \in Threads : pc[p] \in {"idle", "none"}
    BY <1>3 DEF Threads
  <2>2. OneFlush
    BY <1>1, <2>1 DEF OneFlush, InFlush
  <2>3. local_ = <<>> /\ cache_ = <<>> /\ Left = 0 /\ Swapped = 0 /\ fatal = 0 /\ ~last
    BY <1>1, <1>5
  <2>4. 1 .. Len(cache_) = {} /\ 1 .. Len(local_) = {}
    BY <1>2
  <2>5. QED
    BY ONLY <2>2, <2>3, <2>4 DEF Numbered, FatalFlushed, Drained
<1>9. Leaving /\ InFiles
  BY <1>1, <1>2, <1>4, <1>5 DEF Leaving, InFiles, Increasing, Lines
<1>10. QED
  BY <1>3, <1>6, <1>7, <1>8, <1>9 DEF IInv

\* A step that leaves the lines where they are.
LEMMA Frame ==
  ASSUME UNCHANGED <<cache_, accepted, local_, file, lost>>
  PROVE  /\ Swapped' = Swapped /\ Left' = Left /\ Saved' = Saved
         /\ Numbered <=> Numbered'
         /\ InFiles <=> InFiles'
         /\ Lines(local_)' = Lines(local_)
BY DEF Swapped, Left, Saved, Numbered, InFiles, Lines, Increasing

LEMMA FileFrame ==
  ASSUME file' = file
  PROVE  Saved' = Saved /\ (InFiles <=> InFiles')
BY DEF Saved, InFiles, Lines, Increasing

LEMMA QuietKeeps ==
  ASSUME IInv, TypeOK', Ending', pc' \in [Threads \cup {Closer} -> Labels],
         UNCHANGED <<cache_, accepted, fatal, local_, file, lost>>, overlap => overlap',
         \A p \in Threads : /\ InFlush(p)' <=> InFlush(p)
                            /\ pc'[p] = "save" => pc[p] = "save",
         ~overlap => FatalFlushed' /\ Drained'
  PROVE  IInv'
<1> SUFFICES ASSUME ~overlap, ~overlap'
             PROVE  (OneFlush /\ Numbered /\ Leaving /\ InFiles)'
  BY DEF IInv
<1>1. OneFlush'
  BY DEF IInv, OneFlush, InFlush
<1>2. (Numbered /\ InFiles)'
  BY Frame DEF IInv
<1>3. Leaving'
  BY Frame DEF IInv, Leaving
<1>4. QED
  BY <1>1, <1>2, <1>3

LEMMA SettingKeeps == ASSUME IInv, Setting PROVE IInv'
<1>1. UNCHANGED <<lines, local_, runSt, sink, pc, outcome>>
  BY DEF Setting, SetLoggerLevel, SetSaveDirectory, CompleteDirectory
<1>2. logger_level' \in 1 .. LFATAL /\ dir' \in {"unset", "empty", "bare", "slash"}
  BY LoggerAssumption
     DEF Setting, SetLoggerLevel, SetSaveDirectory, CompleteDirectory,
         LoggerAssumption, IInv, TypeOK
<1>3. TypeOK' /\ Ending' /\ pc' \in [Threads \cup {Closer} -> Labels]
  BY <1>1, <1>2 DEF IInv, TypeOK, Ending, lines, runSt, sink, outcome
<1>4. ~overlap => FatalFlushed' /\ Drained'
  BY <1>1 DEF IInv, FatalFlushed, Drained, Swapped, lines, runSt
<1>5. QED
  BY <1>1, <1>3, <1>4, QuietKeeps DEF lines, runSt, sink, outcome, InFlush

LEMMA NextDayKeeps == ASSUME IInv, NextDay PROVE IInv'
<1>1. UNCHANGED <<lines, local_, runSt, pc, file, outcome>>
  BY DEF NextDay
<1>2. TypeOK' /\ Ending' /\ pc' \in [Threads \cup {Closer} -> Labels]
  BY LoggerAssumption
     DEF LoggerAssumption, NextDay, IInv, TypeOK, Ending, settings, lines, runSt,
         outcome
<1>3. ~overlap => FatalFlushed' /\ Drained'
  BY <1>1 DEF IInv, FatalFlushed, Drained, Swapped, lines, runSt
<1>4. QED
  BY <1>1, <1>2, <1>3, QuietKeeps DEF lines, runSt, outcome, InFlush

LEMMA LogLineKeeps ==
  ASSUME IInv, NEW w \in Writers, NEW l \in Levels, LogLine(w, l)
  PROVE  IInv'
<1> USE LoggerAssumption DEF LoggerAssumption
<1>1. /\ UNCHANGED <<settings, lines, local_, runSt, sink, outcome>>
      /\ pc[w] = "idle" /\ \E a \in {"fatal", "write"} : pc' = [pc EXCEPT ![w] = a]
  BY DEF LogLine, GoTo
<1>2. /\ w # Flusher /\ w # Closer /\ w \in Threads
      /\ \A p \in Threads \cup {Closer} : p # w => pc'[p] = pc[p]
      /\ pc'[w] \in {"fatal", "write"}
  BY <1>1 DEF IInv, Threads
<1>3. TypeOK' /\ Ending' /\ pc' \in [Threads \cup {Closer} -> Labels]
  BY <1>1, <1>2
     DEF IInv, TypeOK, Ending, settings, lines, runSt, sink, outcome, Threads, Labels
<1>4. ~overlap => FatalFlushed' /\ Drained'
  BY <1>1, <1>2 DEF IInv, FatalFlushed, Drained, Swapped, lines, runSt, Threads
<1>5. QED
  BY <1>1, <1>2, <1>3, <1>4, QuietKeeps
     DEF lines, runSt, sink, outcome, InFlush

LEMMA AbortKeeps ==
  ASSUME IInv, NEW w \in Writers, Abort(w)
  PROVE  IInv'
<1>1. UNCHANGED <<settings, lines, local_, runSt, sink, pc, lost, overlap, crashed>>
  BY DEF Abort
<1>2. TypeOK' /\ Ending' /\ pc' \in [Threads \cup {Closer} -> Labels]
  BY DEF IInv, Abort, TypeOK, Ending, settings, lines, runSt, sink
<1>3. ~overlap => FatalFlushed' /\ Drained'
  BY <1>1 DEF IInv, FatalFlushed, Drained, Swapped, lines, runSt
<1>4. QED
  BY <1>1, <1>2, <1>3, QuietKeeps DEF lines, sink, InFlush

LEMMA FlushCheckKeeps ==
  ASSUME IInv, NEW p \in Threads, FlushCheck(p)
  PROVE  IInv'
<1> USE LoggerAssumption DEF LoggerAssumption
<1>1. /\ UNCHANGED <<settings, lines, local_, runSt, sink, outcome>>
      /\ pc[p] = "check"
      /\ pc' = [pc EXCEPT ![p] = IF cache_ = <<>> THEN AfterFlush(p) ELSE "swap"]
  BY DEF FlushCheck, GoTo
<1>2. /\ p # Closer /\ Closer \notin Threads
      /\ \A q \in Threads \cup {Closer} : q # p => pc'[q] = pc[q]
      /\ p \in Writers /\ cache_ = <<>> => pc'[p] = "abort"
      /\ p \notin Writers /\ cache_ = <<>> => pc'[p] = IF last THEN "exit" ELSE "loop"
      /\ cache_ # <<>> => pc'[p] = "swap"
      /\ pc' \in [Threads \cup {Closer} -> Labels]
  BY <1>1 DEF IInv, Threads, AfterFlush, Labels
<1>3. p \notin Writers <=> p = Flusher
  BY DEF Threads
<1>4. TypeOK'
  BY <1>1, <1>2, <1>3
     DEF IInv, TypeOK, settings, lines, runSt, sink, outcome, Threads
<1>5. Ending'
  BY <1>1, <1>2, <1>3 DEF IInv, Ending, lines, runSt, Threads
<1>6. ASSUME ~overlap PROVE FatalFlushed' /\ Drained'
  <2>1. CASE cache_ = <<>>
    <3>1. Swapped' = accepted /\ fatal \in 0 .. accepted
      BY <1>1, <2>1, LinesEmpty DEF Swapped, lines, IInv, TypeOK
    <3>2. QED
      BY <1>1, <2>1, <3>1 DEF FatalFlushed, Drained, lines, IInv, TypeOK
  <2>2. CASE cache_ # <<>>
    <3>1. FatalFlushed'
      BY <1>1, <1>2, <1>6, <2>2
         DEF FatalFlushed, lines, IInv, Swapped, Threads
    <3>2. pc'[Flusher] = "swap" \/ pc'[Flusher] = pc[Flusher]
      BY <1>2, <1>3, <2>2 DEF Threads
    <3>3. QED
      BY <1>1, <1>6, <3>1, <3>2 DEF Drained, lines, runSt, IInv
  <2>3. QED
    BY <2>1, <2>2
<1>7. /\ pc[p] # "save" /\ pc'[p] # "save" /\ ~InFlush(p) /\ ~InFlush(p)'
  BY <1>1, <1>2, <1>3 DEF InFlush
<1>8. QED
  BY <1>1, <1>2, <1>4, <1>5, <1>6, <1>7, QuietKeeps
     DEF lines, runSt, sink, outcome, InFlush

LEMMA FlushJobKeeps == ASSUME IInv, FlushJob PROVE IInv'
<1> USE LoggerAssumption DEF LoggerAssumption
<1>1. /\ UNCHANGED <<settings, lines, local_, keep_run_, logger_shutdown, sink, outcome>>
      /\ pc[Flusher] = "loop" /\ last' = ~keep_run_
      /\ pc' = [pc EXCEPT ![Flusher] = "check"]
  BY DEF FlushJob, GoTo, AfterLoop
<1>2. /\ \A q \in Threads \cup {Closer} : q # Flusher => pc'[q] = pc[q]
      /\ pc'[Flusher] = "check"
      /\ pc' \in [Threads \cup {Closer} -> Labels]
  BY <1>1 DEF IInv, Threads, Labels
<1>3. TypeOK'
  BY <1>1, <1>2 DEF IInv, TypeOK, settings, lines, sink, outcome, Threads
<1>4. Ending'
  BY <1>1, <1>2 DEF IInv, Ending, lines, Threads, TypeOK
<1>5. ~overlap => FatalFlushed' /\ Drained'
  BY <1>1, <1>2 DEF IInv, FatalFlushed, Drained, Swapped, lines, Threads
<1>6. QED
  BY <1>1, <1>2, <1>3, <1>4, <1>5, QuietKeeps
     DEF lines, sink, outcome, InFlush

LEMMA CloserKeeps == ASSUME IInv, CloseBegin \/ Close PROVE IInv'
<1> USE LoggerAssumption DEF LoggerAssumption
<1>1. /\ UNCHANGED <<settings, lines, local_, last, today, file, lost, aborted>>
      /\ overlap' \in BOOLEAN /\ (overlap => overlap')
      /\ \E a \in {"stop", "join", "done"} : pc' = [pc EXCEPT ![Closer] = a]
      /\ logger_shutdown' \in BOOLEAN /\ keep_run_' \in BOOLEAN
      /\ nullFile' \in BOOLEAN /\ crashed' \in BOOLEAN
  BY DEF CloseBegin, Close, CloseStop, CloseJoin, GoTo, Stopped, IInv, TypeOK, sink,
         outcome, runSt
<1>2. /\ Closer \notin Threads
      /\ \A q \in Threads : pc'[q] = pc[q]
      /\ pc'[Closer] \in {"stop", "join", "done"}
      /\ pc' \in [Threads \cup {Closer} -> Labels]
  BY <1>1 DEF IInv, Threads, Labels
<1>3. TypeOK'
  BY <1>1, <1>2 DEF IInv, TypeOK, settings, lines, Threads
<1>4. Ending'
  <2>1. CASE CloseBegin
    BY <1>1, <1>2, <2>1 DEF CloseBegin, GoTo, IInv, Ending, lines, Threads, TypeOK
  <2>2. CASE CloseStop
    BY <1>1, <1>2, <2>2
       DEF CloseStop, GoTo, Stopped, IInv, Ending, lines, Threads, TypeOK
  <2>3. CASE CloseJoin
    BY <1>1, <1>2, <2>3 DEF CloseJoin, GoTo, IInv, Ending, lines, runSt, Threads, TypeOK
  <2>4. QED
    BY <2>1, <2>2, <2>3 DEF Close
<1>5. ~overlap => FatalFlushed' /\ Drained'
  BY <1>1, <1>2 DEF IInv, FatalFlushed, Drained, Swapped, lines, Threads
<1>6. QED
  BY <1>1, <1>2, <1>3, <1>4, <1>5, QuietKeeps DEF lines, InFlush

\* A line taken becomes the last of cache_, and nothing else moves.
LEMMA StoreKeepsRuns ==
  ASSUME TypeOK, Store
  PROVE  /\ cache_' \in Seq(Nat) /\ cache_' # <<>> /\ accepted' = accepted + 1
         /\ Swapped' = Swapped
         /\ local_' = local_ => Left' = Left /\ (Numbered => Numbered')
<1>1. /\ accepted \in Nat /\ accepted' = accepted + 1 /\ cache_ \in Seq(Nat)
      /\ Len(cache_) \in Nat
      /\ cache_' = Append(cache_, accepted + 1)
  BY DEF TypeOK, Store
<1>2. /\ cache_' \in Seq(Nat) /\ cache_' # <<>> /\ Len(cache_') = Len(cache_) + 1
      /\ \A i \in 1 .. Len(cache_) : cache_'[i] = cache_[i]
      /\ cache_'[Len(cache_) + 1] = accepted + 1
  BY <1>1, AppendProperties
<1>3. Swapped' = Swapped
  BY <1>1, <1>2 DEF Swapped
<1>4. ASSUME local_' = local_, Numbered PROVE Left' = Left /\ Numbered'
  <2>1. Left' = Left
    BY <1>3, <1>4 DEF Left
  <2>2. Swapped + Len(cache_) + 1 = accepted + 1
    BY <1>1 DEF Swapped
  <2>3. \A i \in 1 .. Len(cache_') : cache_'[i] = Swapped + i
    <3> SUFFICES ASSUME NEW i \in 1 .. Len(cache_') PROVE cache_'[i] = Swapped + i
      OBVIOUS
    <3>1. CASE i \in 1 .. Len(cache_)
      BY <1>2, <1>4, <3>1 DEF Numbered
    <3>2. CASE i = Len(cache_) + 1
      BY <1>1, <1>2, <2>2, <3>2 DEF Swapped
    <3>3. QED
      BY <1>1, <1>2, <3>1, <3>2
  <2>4. QED
    BY <1>3, <1>4, <2>1, <2>3 DEF Numbered
<1>5. QED
  BY <1>1, <1>2, <1>3, <1>4 DEF Left

LEMMA WriteKeeps ==
  ASSUME IInv, NEW w \in Writers, Write(w)
  PROVE  IInv'
<1> USE LoggerAssumption DEF LoggerAssumption
<1>1. /\ UNCHANGED <<settings, local_, logger_shutdown, last, sink, outcome>>
      /\ pc[w] \in {"write", "fatal"}
      /\ w # Flusher /\ w # Closer /\ w \in Threads /\ Closer \notin Threads
  BY DEF Write, Threads
<1>2. CASE ~Takes
  <2>1. /\ UNCHANGED <<lines, keep_run_>>
        /\ pc' = [pc EXCEPT ![w] = AfterWrite(w)]
    BY <1>2 DEF Write, GoTo
  <2>2. /\ \A q \in Threads \cup {Closer} : q # w => pc'[q] = pc[q]
        /\ pc'[w] \in {"check", "idle"}
        /\ pc' \in [Threads \cup {Closer} -> Labels]
    BY <1>1, <2>1 DEF IInv, Threads, Labels, AfterWrite
  <2>3. TypeOK'
    BY <1>1, <2>1, <2>2 DEF IInv, TypeOK, settings, lines, sink, outcome, Threads
  <2>4. Ending'
    BY <1>1, <2>1, <2>2 DEF IInv, Ending, lines, Threads
  <2>5. ~overlap => FatalFlushed' /\ Drained'
    BY <1>1, <2>1, <2>2 DEF IInv, FatalFlushed, Drained, Swapped, lines, Threads
  <2>6. QED
    BY <1>1, <2>1, <2>2, <2>3, <2>4, <2>5, QuietKeeps
       DEF lines, sink, outcome, InFlush
<1>3. CASE Takes
  <2>1. /\ Store /\ keep_run_' = TRUE /\ ~logger_shutdown
        /\ keep_run_ \/ pc[Flusher] = "none"
        /\ fatal' = IF pc[w] = "fatal" THEN accepted' ELSE fatal
        /\ pc' = [pc EXCEPT ![w] = AfterWrite(w),
                            ![Flusher] = IF @ = "none" THEN "loop" ELSE @]
    BY <1>3 DEF Write, Takes
  <2>2. /\ \A q \in Threads \cup {Closer} : q # w /\ q # Flusher => pc'[q] = pc[q]
        /\ pc'[w] = IF pc[w] = "fatal" THEN "check" ELSE "idle"
        /\ pc'[Flusher] = IF pc[Flusher] = "none" THEN "loop" ELSE pc[Flusher]
        /\ pc' \in [Threads \cup {Closer} -> Labels]
    BY <1>1, <2>1 DEF IInv, Threads, Labels, AfterWrite
  <2>3. /\ cache_' \in Seq(Nat) /\ accepted' = accepted + 1
        /\ Swapped' = Swapped
        /\ Left' = Left /\ (Numbered => Numbered')
    BY <1>1, <2>1, StoreKeepsRuns DEF IInv
  <2>4. TypeOK'
    <3>1. accepted' \in Nat /\ fatal' \in 0 .. accepted'
      BY <2>1, <2>3 DEF IInv, TypeOK
    <3>2. QED
      BY <1>1, <2>1, <2>2, <2>3, <3>1
         DEF IInv, TypeOK, settings, sink, outcome, Threads
  <2>5. Ending'
    BY <1>1, <2>1, <2>2 DEF IInv, Ending, Threads
  <2>6. ASSUME ~overlap
        PROVE  (OneFlush /\ Numbered /\ Leaving /\ InFiles /\ FatalFlushed /\ Drained)'
    <3>1. OneFlush'
      BY <1>1, <2>2, <2>6 DEF IInv, OneFlush, InFlush, Threads
    <3>2. Leaving'
      <4>1. Saved' = Saved /\ lost' = lost /\ Lines(local_)' = Lines(local_)
        BY <1>1, FileFrame DEF sink, outcome, Lines
      <4>2. \A q \in Threads : pc'[q] = "save" => pc[q] = "save"
        BY <1>1, <2>2 DEF Threads
      <4>3. QED
        BY <2>3, <2>6, <4>1, <4>2 DEF IInv, Leaving
    <3>3. InFiles'
      BY <1>1, <2>6, FileFrame DEF IInv, sink
    <3>4. FatalFlushed'
      BY <1>1, <2>1, <2>2, <2>3, <2>6 DEF IInv, FatalFlushed, Threads
    <3>5. Drained'
      BY <1>1, <2>1 DEF IInv, Drained, Ending
    <3>6. QED
      BY <2>3, <2>6, <3>1, <3>2, <3>3, <3>4, <3>5 DEF IInv
  <2>7. QED
    BY <1>1, <2>2, <2>4, <2>5, <2>6 DEF IInv, outcome
<1>4. QED
  BY <1>2, <1>3

LEMMA FlushSwapKeeps ==
  ASSUME IInv, NEW p \in Threads, FlushSwap(p)
  PROVE  IInv'
<1> USE LoggerAssumption DEF LoggerAssumption
<1>1. /\ UNCHANGED <<settings, runSt, sink, accepted, fatal, lost, crashed, aborted>>
      /\ pc[p] = "swap" /\ local_' = cache_ /\ cache_' = local_
      /\ overlap' = (overlap \/ \E q \in Threads : InFlush(q))
      /\ pc' = [pc EXCEPT ![p] = "save"]
  BY DEF FlushSwap, GoTo, InFlush
<1>2. /\ p # Closer /\ Closer \notin Threads
      /\ \A q \in Threads \cup {Closer} : q # p => pc'[q] = pc[q]
      /\ pc'[p] = "save"
      /\ pc' \in [Threads \cup {Closer} -> Labels]
  BY <1>1 DEF IInv, Threads, Labels
<1>3. TypeOK'
  BY <1>1, <1>2 DEF IInv, TypeOK, settings, runSt, sink, Threads
<1>4. Ending'
  BY <1>1, <1>2 DEF IInv, Ending, runSt, Threads
<1>5. ASSUME ~overlap'
      PROVE  (OneFlush /\ Numbered /\ Leaving /\ InFiles /\ FatalFlushed /\ Drained)'
  <2>1. ~overlap /\ \A q \in Threads : ~InFlush(q)
    BY <1>1, <1>5 DEF IInv, TypeOK
  <2>2. OneFlush /\ Numbered /\ Leaving /\ InFiles /\ local_ = <<>> /\ TypeOK
    BY <2>1 DEF IInv, OneFlush
  <2>3. /\ Len(local_) = 0 /\ Len(cache_) \in Nat /\ accepted \in Nat /\ Left \in Nat
        /\ fatal \in 0 .. accepted
    BY <2>2, LinesEmpty DEF TypeOK, Numbered
  <2>4. Left = Swapped /\ Swapped' = accepted /\ Left' = Left
    <3>1. Left = Swapped
      BY <2>3 DEF Left, Swapped
    <3>2. Swapped' = accepted
      BY <1>1, <2>3 DEF Swapped
    <3>3. Left' = accepted - Len(cache_)
      BY <1>1, <3>2 DEF Left
    <3>4. QED
      BY <3>1, <3>2, <3>3 DEF Swapped
  <2>5. OneFlush'
    BY <1>2, <2>1 DEF OneFlush, InFlush
  <2>6. Numbered'
    BY <1>1, <2>2, <2>3, <2>4 DEF Numbered
  <2>7. Leaving'
    BY <1>1, <2>2, <2>4 DEF Leaving, Saved, Lines, sink
  <2>8. InFiles'
    BY <1>1, <2>2, FileFrame DEF sink
  <2>9. FatalFlushed' /\ Drained'
    BY <1>1, <2>2, <2>3, <2>4 DEF FatalFlushed, Drained
  <2>10. QED
    BY <2>5, <2>6, <2>7, <2>8, <2>9
<1>6. QED
  BY <1>2, <1>3, <1>4, <1>5 DEF IInv

\* A batch goes to the end of a file.
LEMMA AppendToFile ==
  ASSUME file \in [Paths -> Seq(Nat)], local_ \in Seq(Nat), NEW f \in Paths,
         file' = [file EXCEPT ![f] = (IF Exists(f) THEN @ ELSE <<>>) \o local_]
  PROVE  /\ file' \in [Paths -> Seq(Nat)]
         /\ file'[f] = file[f] \o local_
         /\ \A g \in Paths : g # f => file'[g] = file[g]
         /\ Saved' = Saved \cup Lines(local_)
<1>1. (IF Exists(f) THEN file[f] ELSE <<>>) = file[f]
  BY DEF Exists
<1>2. file' = [file EXCEPT ![f] = file[f] \o local_]
  BY <1>1
<1>3. /\ file[f] \o local_ \in Seq(Nat)
      /\ Lines(file[f] \o local_) = Lines(file[f]) \cup Lines(local_)
  BY LinesOfConcat
<1>4. /\ file' \in [Paths -> Seq(Nat)]
      /\ file'[f] = file[f] \o local_
      /\ \A g \in Paths : g # f => file'[g] = file[g]
  BY <1>2, <1>3
<1>5. /\ Lines(file'[f]) = Lines(file[f]) \cup Lines(local_)
      /\ \A g \in Paths : g # f => Lines(file'[g]) = Lines(file[g])
  BY <1>3, <1>4
<1>6. Saved' = UNION {Lines(file'[g]) : g \in Paths}
  BY DEF Saved, Lines
<1>7. Saved' = Saved \cup Lines(local_)
  BY <1>5, <1>6 DEF Saved
<1>8. QED
  BY <1>4, <1>7

\* What the three ways through the middle of flush have in common.
LEMMA FlushSaveCases ==
  ASSUME TypeOK, NEW p \in Threads, FlushSave(p)
  PROVE  /\ nullFile' \in BOOLEAN /\ crashed' \in BOOLEAN
         /\ \/ /\ UNCHANGED <<cache_, accepted>>
               /\ \E f \in Paths :
                    file' = [file EXCEPT ![f] = (IF Exists(f) THEN @ ELSE <<>>) \o local_]
            \/ UNCHANGED <<cache_, accepted, file>>
            \/ Store /\ Takes /\ local_ # <<>> /\ UNCHANGED file
<1>1. CASE local_ # <<>> /\ HasDirectory /\ SaveLines
  <2>1. <<dir, today>> \in Paths
    BY <1>1 DEF TypeOK, HasDirectory, Paths
  <2>2. QED
    BY <1>1, <2>1 DEF SaveLines, TypeOK
<1>2. CASE local_ # <<>> /\ SaveFails
  BY <1>2 DEF SaveFails, TypeOK
<1>3. CASE local_ = <<>> \/ ~HasDirectory
  <2>1. UNCHANGED <<cache_, accepted, nullFile, file>> /\ crashed' \in BOOLEAN
    BY <1>3 DEF FlushSave, TypeOK, SaveLines, SaveFails
  <2>2. QED
    BY <2>1 DEF TypeOK
<1>4. CASE UNCHANGED <<cache_, accepted, nullFile, file>> /\ crashed' \in BOOLEAN
  BY <1>4 DEF TypeOK
<1>5. CASE local_ # <<>> /\ HasDirectory
  <2>1. SaveLines \/ SaveFails
          \/ (UNCHANGED <<cache_, accepted, nullFile, file>> /\ crashed' \in BOOLEAN)
    BY <1>5, Zenon DEF FlushSave
  <2>2. QED
    BY <1>1, <1>2, <1>4, <1>5, <2>1
<1>6. QED
  BY <1>3, <1>5

LEMMA FlushSaveKeeps ==
  ASSUME IInv, NEW p \in Threads, FlushSave(p)
  PROVE  IInv'
<1> USE LoggerAssumption DEF LoggerAssumption
<1>1. /\ UNCHANGED <<settings, local_, runSt, fatal, today, lost, overlap, aborted>>
      /\ pc[p] = "save" /\ pc' = [pc EXCEPT ![p] = "clear"]
  BY DEF FlushSave, GoTo
<1>2. /\ p # Closer /\ Closer \notin Threads
      /\ \A q \in Threads \cup {Closer} : q # p => pc'[q] = pc[q]
      /\ pc'[p] = "clear"
      /\ pc' \in [Threads \cup {Closer} -> Labels]
  BY <1>1 DEF IInv, Threads, Labels
<1>3. /\ TypeOK /\ local_ \in Seq(Nat) /\ file \in [Paths -> Seq(Nat)]
      /\ accepted \in Nat /\ fatal \in 0 .. accepted
  BY DEF IInv, TypeOK
<1>4. /\ nullFile' \in BOOLEAN /\ crashed' \in BOOLEAN
      /\ cache_' \in Seq(Nat) /\ accepted' \in Nat /\ fatal' \in 0 .. accepted'
      /\ file' \in [Paths -> Seq(Nat)]
      /\ Swapped' = Swapped /\ Left' = Left /\ (Numbered => Numbered')
  <2>1. nullFile' \in BOOLEAN /\ crashed' \in BOOLEAN
    BY <1>3, FlushSaveCases
  <2>2. ASSUME UNCHANGED <<cache_, accepted>>
        PROVE  Swapped' = Swapped /\ Left' = Left /\ (Numbered => Numbered')
    BY <1>1, <2>2 DEF Swapped, Left, Numbered
  <2>3. CASE UNCHANGED <<cache_, accepted>> /\ file' \in [Paths -> Seq(Nat)]
    BY <1>1, <1>3, <2>1, <2>2, <2>3 DEF TypeOK
  <2>4. CASE Store /\ UNCHANGED file
    <3>1. cache_' \in Seq(Nat) /\ accepted' = accepted + 1
      BY <1>3, <2>4, StoreKeepsRuns
    <3>2. Swapped' = Swapped /\ Left' = Left /\ (Numbered => Numbered')
      BY <1>1, <1>3, <2>4, StoreKeepsRuns
    <3>3. accepted' \in Nat /\ fatal' \in 0 .. accepted'
      BY <1>1, <1>3, <3>1
    <3>4. QED
      BY <1>3, <2>1, <2>4, <3>1, <3>2, <3>3
  <2>5. QED
    BY <1>3, <2>3, <2>4, FlushSaveCases, AppendToFile
<1>5. TypeOK'
  BY <1>1, <1>2, <1>4 DEF IInv, TypeOK, settings, runSt, Threads
<1>6. Ending'
  <2>1. pc[Flusher] = "none" => local_ = <<>> /\ cache_ = <<>> /\ accepted = 0
    BY DEF IInv, Ending
  <2>2. pc[Flusher] = "none" => UNCHANGED <<cache_, accepted>>
    BY <1>3, <2>1, FlushSaveCases
  <2>3. QED
    BY <1>1, <1>2, <2>1, <2>2 DEF IInv, Ending, runSt, Threads
<1>7. ASSUME ~overlap
      PROVE  (OneFlush /\ Numbered /\ Leaving /\ InFiles /\ FatalFlushed /\ Drained)'
  <2>1. OneFlush /\ Numbered /\ Leaving /\ InFiles /\ FatalFlushed /\ Drained
    BY <1>7 DEF IInv
  <2>2. OneFlush' /\ \A q \in Threads : pc'[q] # "save"
    BY <1>1, <1>2, <2>1 DEF OneFlush, InFlush
  <2>3. Saved \cap lost = {} /\ Saved \cup lost = 1 .. Left
    BY <1>1, <2>1 DEF Leaving
  <2>4. Lines(local_) = (Left + 1) .. Swapped /\ Increasing(local_)
        /\ Left \in Nat /\ Swapped \in Nat /\ Left <= Swapped
    BY <1>3, <2>1, RunsOfLines
  <2>5. lost' = lost /\ Lines(local_)' = Lines(local_)
    BY <1>1 DEF Lines
  <2>6. ASSUME file' = file PROVE Leaving' /\ InFiles'
    <3>1. Saved' = Saved /\ InFiles'
      BY <2>1, <2>6, FileFrame
    <3>2. Saved' \cap lost' = {} /\ Saved' \cup lost' = 1 .. Left'
      BY <1>4, <2>3, <2>5, <3>1
    <3>3. QED
      BY <3>1, <3>2 DEF Leaving
  <2>7. ASSUME NEW f \in Paths,
               file' = [file EXCEPT ![f] = (IF Exists(f) THEN @ ELSE <<>>) \o local_]
        PROVE  Leaving' /\ InFiles'
    <3>1. /\ file'[f] = file[f] \o local_
          /\ \A g \in Paths : g # f => file'[g] = file[g]
          /\ Saved' = Saved \cup Lines(local_)
      BY <1>3, <2>7, AppendToFile
    <3>2. Lines(local_) \cap (Saved \cup lost) = {}
      BY <2>3, <2>4
    <3>3. Saved' \cup lost' = 1 .. Swapped
      BY <2>3, <2>4, <2>5, <3>1
    <3>4. Leaving'
      BY <1>4, <2>2, <2>3, <2>5, <3>1, <3>2, <3>3 DEF Leaving
    <3>5. Lines(file[f] \o local_) = Lines(file[f]) \cup Lines(local_)
      BY <1>3, LinesOfConcat
    <3>6. \A g \in Paths : Lines(file[g]) \subseteq Saved
      BY <1>3, SavedMember
    <3>7. \A m \in Lines(file[f]), n \in Lines(local_) : m < n
      BY <2>3, <2>4, <3>6
    <3>8. Increasing(file'[f])
      <4>1. Increasing(file[f]) /\ file[f] \in Seq(Nat)
        BY <1>3, <2>1 DEF InFiles
      <4>2. Increasing(file[f] \o local_)
        BY <1>3, <2>4, <3>7, <4>1, IncreasingConcat
      <4>3. QED
        BY <3>1, <4>2
    <3>9. \A g \in Paths : Increasing(file'[g])
      BY <2>1, <3>1, <3>8 DEF InFiles
    <3>10. ASSUME NEW g \in Paths, NEW h \in Paths,
                  Lines(file'[g]) \cap Lines(file'[h]) # {}
           PROVE  g = h
      <4>1. /\ \A e \in Paths : Lines(file'[e]) =
                 IF e = f THEN Lines(file[e]) \cup Lines(local_) ELSE Lines(file[e])
            /\ \A e \in Paths : Lines(file[e]) \cap Lines(local_) = {}
        BY <3>1, <3>2, <3>5, <3>6
      <4>2. Lines(file[g]) \cap Lines(file[h]) # {} => g = h
        BY <2>1 DEF InFiles
      <4>3. QED
        BY <3>10, <4>1, <4>2
    <3>11. QED
      BY <3>4, <3>9, <3>10 DEF InFiles, Increasing, Lines
  <2>8. Leaving' /\ InFiles'
    BY <1>3, <2>6, <2>7, FlushSaveCases
  <2>9. FatalFlushed'
    BY <1>1, <1>2, <1>4, <2>1 DEF FatalFlushed, Threads
  <2>10. Drained'
    <3>1. last => logger_shutdown
      BY DEF IInv, Ending
    <3>2. last => cache_' = cache_
      BY <1>3, <3>1, FlushSaveCases DEF Takes
    <3>3. \/ pc'[Flusher] = "clear" /\ pc[Flusher] = "save"
          \/ pc'[Flusher] = pc[Flusher]
      BY <1>1, <1>2 DEF Threads
    <3>4. QED
      BY <1>1, <2>1, <3>2, <3>3 DEF Drained, runSt
  <2>11. QED
    BY <1>4, <2>1, <2>2, <2>8, <2>9, <2>10
<1>8. QED
  BY <1>1, <1>2, <1>5, <1>6, <1>7 DEF IInv

\* What leaves with the clear, and where it is left from.
LEMMA ClearedLines ==
  ASSUME IInv, ~overlap, NEW p \in Threads, FlushClear(p)
  PROVE  /\ Left' = Swapped /\ Swapped' = Swapped
         /\ Saved' = Saved /\ Saved' \cup lost' = 1 .. Swapped /\ Saved' \cap lost' = {}
         /\ lost' = lost \cup ((1 .. Swapped) \ (Saved \cup lost))
<1>1. /\ UNCHANGED <<lines, sink>> /\ local_' = <<>>
      /\ lost' = lost \cup (Lines(local_) \ Saved)
  BY DEF FlushClear, Cleared
<1>2. /\ Lines(local_) = (Left + 1) .. Swapped
      /\ Left \in Nat /\ Swapped \in Nat /\ Left <= Swapped
  BY RunsOfLines DEF IInv
<1>3. Swapped' = Swapped /\ Left' = Swapped
  <2>1. Swapped' = Swapped
    BY <1>1 DEF Swapped, lines
  <2>2. Len(local_') = 0
    BY <1>1, EmptySeq
  <2>3. QED
    BY <1>2, <2>1, <2>2 DEF Left
<1>4. Saved' = Saved
  BY <1>1, FileFrame DEF sink
<1>5. /\ Saved \cap lost = {}
      /\ \/ Saved \cup lost = 1 .. Left
         \/ Saved \cup lost = 1 .. Swapped /\ Lines(local_) \subseteq Saved
  <2>1. Leaving
    BY DEF IInv
  <2>2. QED
    BY <2>1 DEF Leaving
<1>6. CASE Saved \cup lost = 1 .. Left
  BY <1>1, <1>2, <1>3, <1>4, <1>5, <1>6
<1>7. CASE Saved \cup lost = 1 .. Swapped /\ Lines(local_) \subseteq Saved
  BY <1>1, <1>2, <1>3, <1>4, <1>5, <1>7
<1>8. QED
  BY <1>5, <1>6, <1>7

LEMMA FlushClearKeeps ==
  ASSUME IInv, NEW p \in Threads, FlushClear(p)
  PROVE  IInv'
<1> USE LoggerAssumption DEF LoggerAssumption
<1>1. /\ UNCHANGED <<settings, lines, runSt, sink, overlap, crashed, aborted>>
      /\ pc[p] = "clear" /\ pc' = [pc EXCEPT ![p] = AfterFlush(p)]
      /\ local_' = <<>>
      /\ lost' = lost \cup (Lines(local_) \ Saved)
  BY DEF FlushClear, GoTo, Cleared
<1>2. /\ p # Closer /\ Closer \notin Threads
      /\ \A q \in Threads \cup {Closer} : q # p => pc'[q] = pc[q]
      /\ p \in Writers => pc'[p] = "abort"
      /\ p \notin Writers => p = Flusher /\ pc'[p] = IF last THEN "exit" ELSE "loop"
      /\ pc' \in [Threads \cup {Closer} -> Labels]
  BY <1>1 DEF IInv, Threads, AfterFlush, Labels
<1>3. TypeOK'
  <2>1. local_' \in Seq(Nat) /\ lost' \subseteq Nat
    BY <1>1, EmptySeq, LinesEmpty DEF IInv, TypeOK
  <2>2. QED
    BY <1>1, <1>2, <2>1 DEF IInv, TypeOK, settings, lines, runSt, sink, Threads
<1>4. Ending'
  BY <1>1, <1>2 DEF IInv, Ending, lines, runSt, Threads
<1>5. ASSUME ~overlap
      PROVE  (OneFlush /\ Numbered /\ Leaving /\ InFiles /\ FatalFlushed /\ Drained)'
  <2>1. OneFlush /\ Numbered /\ Leaving /\ InFiles /\ FatalFlushed /\ Drained /\ TypeOK
    BY <1>5 DEF IInv
  <2>2. /\ Left' = Swapped /\ Swapped' = Swapped /\ Swapped \in Nat
        /\ Saved' \cup lost' = 1 .. Swapped /\ Saved' \cap lost' = {}
    BY <1>5, <2>1, ClearedLines, RunsOfLines
  <2>3. OneFlush'
    BY <1>1, <1>2, <2>1 DEF OneFlush, InFlush
  <2>4. Numbered'
    <3>1. 1 .. Len(local_') = {}
      BY <1>1, EmptySeq
    <3>2. QED
      BY <1>1, <2>1, <2>2, <3>1 DEF Numbered, lines
  <2>5. Leaving'
    BY <2>2 DEF Leaving
  <2>6. InFiles'
    BY <1>1, <2>1, FileFrame DEF sink
  <2>7. FatalFlushed'
    BY <1>1, <1>2, <2>1, <2>2 DEF FatalFlushed, lines, Threads
  <2>8. Drained'
    BY <1>1, <1>2, <2>1 DEF Drained, lines, runSt, Threads
  <2>9. QED
    BY <2>3, <2>4, <2>5, <2>6, <2>7, <2>8
<1>6. QED
  BY <1>1, <1>2, <1>3, <1>4, <1>5 DEF IInv

LEMMA IInvStep == ASSUME IInv, [Next]_vars PROVE IInv'
<1>1. CASE UNCHANGED vars
  <2>1. /\ UNCHANGED <<settings, lines, local_, runSt, sink, pc, outcome>>
        /\ TypeOK /\ Ending /\ pc \in [Threads \cup {Closer} -> Labels]
    BY <1>1 DEF vars, IInv
  <2>2. TypeOK' /\ Ending' /\ pc' \in [Threads \cup {Closer} -> Labels]
    BY <2>1 DEF TypeOK, Ending, settings, lines, runSt, sink, outcome
  <2>3. ~overlap => FatalFlushed' /\ Drained'
    BY <2>1 DEF IInv, FatalFlushed, Drained, Swapped, lines, runSt
  <2>4. QED
    BY <2>1, <2>2, <2>3, QuietKeeps DEF lines, runSt, sink, outcome, InFlush
<1>2. CASE Next
  <2>1. ASSUME NEW p \in Threads, Flush(p) PROVE IInv'
    BY <2>1, FlushCheckKeeps, FlushSwapKeeps, FlushSaveKeeps, FlushClearKeeps
       DEF Flush
  <2>2. ASSUME NEW w \in Writers, NEW l \in Levels, LogLine(w, l) PROVE IInv'
    BY <2>2, LogLineKeeps
  <2>3. ASSUME NEW w \in Writers, WriterStep(w) PROVE IInv'
    BY <2>1, <2>3, WriteKeeps, AbortKeeps DEF WriterStep, Threads
  <2>4. CASE FlusherStep
    BY <2>1, <2>4, FlushJobKeeps DEF FlusherStep, Threads
  <2>5. CASE CloseBegin \/ Close
    BY <2>5, CloserKeeps
  <2>6. CASE Setting \/ NextDay
    BY <2>6, SettingKeeps, NextDayKeeps
  <2>7. QED
    BY <1>2, <2>2, <2>3, <2>4, <2>5, <2>6 DEF Next
<1>3. QED
  BY <1>1, <1>2

\* Every reachable state satisfies the inductive invariant.
THEOREM Invariance == Spec => []IInv
<1>1. Init => IInv
  BY IInvInit
<1>2. IInv /\ [Next]_vars => IInv'
  BY IInvStep
<1>3. QED
  BY <1>1, <1>2, PTL DEF Spec
-----------------------------------------------------------------------------
(* The properties. *)

\* Type correctness: buffers and files hold numbers of lines, and every thread
\* is at a label of its own code.
THEOREM TypeCorrect == Spec => []TypeOK
<1>1. IInv => TypeOK
  BY DEF IInv
<1>2. QED
  BY <1>1, Invariance, PTL

\* What is still on its way, in numbers.
LEMMA PendingRuns ==
  ASSUME IInv, ~overlap
  PROVE  /\ Left \in Nat /\ Swapped \in Nat /\ Left <= Swapped /\ Swapped <= accepted
         /\ Lines(cache_) = (Swapped + 1) .. accepted
         /\ Saved \cap lost = {}
         /\ \/ Saved \cup lost = 1 .. Left /\ Pending = (Left + 1) .. accepted
            \/ Saved \cup lost = 1 .. Swapped /\ Pending = (Swapped + 1) .. accepted
<1>1. /\ Lines(local_) = (Left + 1) .. Swapped
      /\ Lines(cache_) = (Swapped + 1) .. accepted
      /\ Left \in Nat /\ Swapped \in Nat /\ Left <= Swapped /\ Swapped <= accepted
  BY RunsOfLines DEF IInv
<1>2. accepted \in Nat /\ Saved \cap lost = {}
  BY DEF IInv, TypeOK, Leaving
<1>3. CASE Saved \cup lost = 1 .. Left
  <2>1. Lines(local_) \cap Saved = {}
    BY <1>1, <1>3
  <2>2. Pending = (Left + 1) .. accepted
    BY <1>1, <1>2, <2>1 DEF Pending
  <2>3. QED
    BY <1>1, <1>2, <1>3, <2>2
<1>4. CASE Saved \cup lost = 1 .. Swapped /\ Lines(local_) \subseteq Saved
  <2>1. Pending = (Swapped + 1) .. accepted
    BY <1>1, <1>4 DEF Pending
  <2>2. QED
    BY <1>1, <1>2, <1>4, <2>1
<1>5. QED
  BY <1>3, <1>4 DEF IInv, Leaving

\* An accepted line is in one place: a buffer, one file, or lost
\* (log.cpp:617-650).
THEOREM LinesOnce == Spec => []EachLineOnce
<1>1. ASSUME IInv, ~overlap
      PROVE  /\ 1 .. accepted = Pending \cup Saved \cup lost
             /\ Saved \cap lost = {} /\ Lines(cache_) \cap (Saved \cup lost) = {}
  <2>1. accepted \in Nat
    BY <1>1 DEF IInv, TypeOK
  <2>2. QED
    BY <1>1, <2>1, PendingRuns
<1>2. IInv => EachLineOnce
  BY <1>1 DEF IInv, InFiles, EachLineOnce
<1>3. QED
  BY <1>2, Invariance, PTL

\* Files are in the order of acceptance, across batches and days
\* (log.cpp:617-650).
THEOREM LinesInOrder == Spec => []InOrder
<1>1. ASSUME IInv, ~overlap, NEW old \in Saved, NEW new \in Pending PROVE old < new
  <2>1. accepted \in Nat /\ Left \in Nat /\ Swapped \in Nat
    BY <1>1, PendingRuns DEF IInv, TypeOK
  <2>2. CASE Saved \cup lost = 1 .. Left /\ Pending = (Left + 1) .. accepted
    BY <2>1, <2>2
  <2>3. CASE Saved \cup lost = 1 .. Swapped /\ Pending = (Swapped + 1) .. accepted
    BY <2>1, <2>3
  <2>4. QED
    BY <1>1, <2>2, <2>3, PendingRuns
<1>2. IInv => InOrder
  BY <1>1 DEF IInv, InFiles, InOrder
<1>3. QED
  BY <1>2, Invariance, PTL

\* Neither close nor the abort after a FATAL line leaves lines in a buffer
\* (log.cpp:658 and 723).
THEOREM NothingIsLeft == Spec => []NothingLeftBehind
<1>1. ASSUME IInv, \A p \in Threads : ~InFlush(p), ~overlap
      PROVE  local_ = <<>> /\ Pending = (Swapped + 1) .. accepted
  <2>1. local_ = <<>>
    BY <1>1 DEF IInv, OneFlush
  <2>2. Pending = Lines(cache_)
    BY <2>1, LinesEmpty DEF Pending
  <2>3. QED
    BY <1>1, <2>1, <2>2, PendingRuns
<1>2. IInv => CloseDrains
  <2> SUFFICES ASSUME IInv, pc[Closer] = "done", Undisturbed
               PROVE  Pending = {}
    BY DEF CloseDrains
  <2>1. pc[Flusher] \in {"none", "exit"} /\ cache_ = <<>>
    BY DEF IInv, Ending, Undisturbed, Drained
  <2>2. local_ = <<>>
    BY <1>1, <2>1 DEF Undisturbed, InFlush, Threads
  <2>3. QED
    BY <2>1, <2>2, LinesEmpty DEF Pending
<1>3. IInv => AbortAfterFlush
  <2> SUFFICES ASSUME IInv, Undisturbed, pc[Flusher] \notin {"save", "clear"},
                      NEW n \in Pending
               PROVE  n > fatal \/ \E w \in Writers : pc[w] \in {"check", "swap"}
    BY DEF AbortAfterFlush
  <2>1. Pending = (Swapped + 1) .. accepted
    BY <1>1 DEF Undisturbed, InFlush, Threads
  <2>2. Swapped \in Nat /\ accepted \in Nat /\ fatal \in Nat
    BY PendingRuns DEF Undisturbed, IInv, TypeOK
  <2>3. FatalFlushed
    BY DEF Undisturbed, IInv
  <2>4. QED
    BY <2>1, <2>2, <2>3 DEF FatalFlushed
<1>4. IInv => NothingLeftBehind
  BY <1>2, <1>3 DEF NothingLeftBehind
<1>5. QED
  BY <1>4, Invariance, PTL
-----------------------------------------------------------------------------
(***************************************************************************)
(* Logger implements LogContract.  A line stored is a Take, the writing of  *)
(* local_ a Save of all up to Swapped, the clear a Lose of what is then     *)
(* still in local_; everything else stutters until overlap or crashed.      *)
(***************************************************************************)

LEMMA ContractInit == ASSUME Init PROVE Contract!Init
<1>1. IInv /\ accepted = 0 /\ lost = {} /\ ~overlap /\ ~crashed
      /\ overlap = FALSE /\ crashed = FALSE
  BY IInvInit DEF Init
<1>2. file = [f \in Paths |-> <<>>]
  BY DEF Init
<1>3. Saved = {}
  BY <1>2, LinesEmpty DEF Saved
<1>4. QED
  BY <1>1, <1>3 DEF Contract!Init

\* No line enters or leaves.
LEMMA ContractStutters ==
  ASSUME UNCHANGED <<accepted, file, lost, overlap, crashed>>
  PROVE  UNCHANGED Contract!vars
BY FileFrame DEF Contract!vars

LEMMA ContractTake ==
  ASSUME Store, ~overlap, ~crashed, UNCHANGED <<file, lost, overlap, crashed>>
  PROVE  Contract!Next
BY FileFrame DEF Store, Contract!Next, Contract!Take

LEMMA ContractSave ==
  ASSUME IInv, ~crashed, NEW p \in Threads, FlushSave(p), ~overlap
  PROVE  [Contract!Next]_(Contract!vars)
<1>1. UNCHANGED <<lost, overlap>> /\ pc[p] = "save"
  BY DEF FlushSave
<1>2. CASE crashed'
  BY <1>2 DEF Contract!Next, Contract!Break
<1>3. CASE ~crashed' /\ Store /\ UNCHANGED file
  <2>1. crashed' = crashed
    BY <1>3, FlushSaveCases DEF IInv, TypeOK
  <2>2. QED
    BY <1>1, <1>3, <2>1, ContractTake
<1>4. CASE ~crashed' /\ UNCHANGED <<accepted, file>>
  <2>1. crashed' = crashed
    BY <1>4, FlushSaveCases DEF IInv, TypeOK
  <2>2. QED
    BY <1>1, <1>4, <2>1, ContractStutters
<1>5. CASE ~crashed' /\ local_ # <<>> /\ UNCHANGED accepted
           /\ \E f \in Paths :
                file' = [file EXCEPT ![f] = (IF Exists(f) THEN @ ELSE <<>>) \o local_]
  <2>1. crashed' = FALSE /\ crashed = FALSE
    BY <1>5, FlushSaveCases DEF IInv, TypeOK
  <2>2. Saved' = Saved \cup Lines(local_)
    BY <1>5, AppendToFile DEF IInv, TypeOK
  <2>3. /\ Lines(local_) = (Left + 1) .. Swapped
        /\ Left \in Nat /\ Swapped \in Nat /\ Left <= Swapped /\ Swapped <= accepted
    BY RunsOfLines DEF IInv
  <2>4. Saved \cup lost = 1 .. Left
    BY <1>1 DEF IInv, Leaving
  <2>5. Len(local_) \in Nat /\ Len(local_) # 0
    BY <1>5, LinesEmpty DEF IInv, TypeOK
  <2>6. Swapped \in 1 .. accepted
    <3>1. Left = Swapped - Len(local_)
      BY DEF Left
    <3>2. accepted \in Nat
      BY DEF IInv, TypeOK
    <3>3. QED
      BY <2>3, <2>5, <3>1, <3>2
  <2>7. Saved' = Saved \cup ((1 .. Swapped) \ (Saved \cup lost))
    BY <2>2, <2>3, <2>4
  <2>8. Contract!Save(Swapped)
    BY <1>1, <1>5, <2>1, <2>7 DEF Contract!Save, Contract!Batch, Contract!Left
  <2>9. QED
    BY <2>1, <2>6, <2>8 DEF Contract!Next
<1>6. QED
  <2>1. local_ = <<>> => UNCHANGED <<accepted, file>>
    BY DEF FlushSave
  <2>2. QED
    BY <1>2, <1>3, <1>4, <1>5, <2>1, FlushSaveCases DEF IInv

LEMMA ContractClear ==
  ASSUME IInv, ~crashed, NEW p \in Threads, FlushClear(p), ~overlap
  PROVE  [Contract!Next]_(Contract!vars)
<1>1. UNCHANGED <<accepted, file, overlap, crashed>>
  BY DEF FlushClear, lines, sink
<1>2. /\ Saved' = Saved
      /\ lost' = lost \cup ((1 .. Swapped) \ (Saved \cup lost))
  BY ClearedLines
<1>3. Swapped \in Nat /\ Swapped <= accepted /\ accepted \in Nat
  BY PendingRuns DEF IInv, TypeOK
<1>4. CASE Swapped = 0
  <2>1. lost' = lost
    BY <1>2, <1>4
  <2>2. QED
    BY <1>1, <2>1, ContractStutters
<1>5. CASE Swapped # 0
  <2>1. Swapped \in 1 .. accepted
    BY <1>3, <1>5
  <2>2. Contract!Lose(Swapped)
    BY <1>1, <1>2 DEF Contract!Lose, Contract!Batch, Contract!Left
  <2>3. QED
    BY <2>1, <2>2 DEF Contract!Next
<1>6. QED
  BY <1>4, <1>5

\* What was broken stays so.
LEMMA OverlapStays == ASSUME Next, overlap PROVE overlap'
<1>1. ASSUME NEW p \in Threads, Flush(p) PROVE overlap'
  BY <1>1 DEF Flush, FlushCheck, FlushSwap, FlushSave, FlushClear, outcome
<1>2. ASSUME NEW w \in Writers, Write(w) \/ Abort(w) \/ \E l \in Levels : LogLine(w, l)
      PROVE  overlap'
  BY <1>2 DEF Write, Abort, LogLine, outcome
<1>3. CASE FlushJob \/ CloseBegin \/ Close
  BY <1>3 DEF FlushJob, CloseBegin, Close, CloseStop, CloseJoin, outcome
<1>4. CASE Setting \/ NextDay
  BY <1>4
     DEF Setting, SetLoggerLevel, SetSaveDirectory, CompleteDirectory, NextDay, outcome
<1>5. QED
  BY <1>1, <1>2, <1>3, <1>4 DEF Next, WriterStep, FlusherStep, Threads

LEMMA ContractStep == ASSUME IInv, [Next]_vars PROVE [Contract!Next]_(Contract!vars)
<1> DEFINE Implemented == [Contract!Next]_(Contract!vars)
<1>1. CASE UNCHANGED vars
  BY <1>1, ContractStutters DEF vars, lines, sink, outcome
<1>2. CASE (overlap \/ crashed)'
  BY <1>2 DEF Contract!Next, Contract!Break
<1>3. CASE Next /\ ~(overlap \/ crashed)'
  <2>1. ~crashed /\ (overlap => overlap')
    BY <1>3, OverlapStays DEF Next, Running
  <2>2. ~overlap /\ UNCHANGED <<overlap, crashed>>
    BY <1>3, <2>1, IInvStep DEF IInv, TypeOK
  <2>3. ASSUME NEW p \in Threads, Flush(p) PROVE Implemented
    <3>1. CASE FlushCheck(p)
      BY <3>1, ContractStutters DEF FlushCheck, lines, sink, outcome
    <3>2. CASE FlushSwap(p)
      BY <2>2, <3>2, ContractStutters DEF FlushSwap, sink
    <3>3. CASE FlushSave(p)
      BY <2>1, <2>2, <3>3, ContractSave
    <3>4. CASE FlushClear(p)
      BY <2>1, <2>2, <3>4, ContractClear
    <3>5. QED
      BY <2>3, <3>1, <3>2, <3>3, <3>4 DEF Flush
  <2>4. ASSUME NEW w \in Writers, Write(w) PROVE Implemented
    <3>1. CASE Store
      BY <2>1, <2>2, <2>4, <3>1, ContractTake DEF Write, sink, outcome
    <3>2. CASE UNCHANGED lines
      BY <2>4, <3>2, ContractStutters DEF Write, lines, sink, outcome
    <3>3. QED
      BY <2>4, <3>1, <3>2 DEF Write
  <2>5. ASSUME NEW w \in Writers,
               Abort(w) \/ \E l \in Levels : LogLine(w, l)
        PROVE  Implemented
    BY <2>5, ContractStutters DEF Abort, LogLine, lines, sink, outcome
  <2>6. CASE FlushJob \/ CloseBegin \/ Close
    BY <2>2, <2>6, ContractStutters
       DEF FlushJob, CloseBegin, Close, CloseStop, CloseJoin, lines, sink, outcome
  <2>7. CASE Setting \/ NextDay
    BY <2>7, ContractStutters
       DEF Setting, SetLoggerLevel, SetSaveDirectory, CompleteDirectory, NextDay,
           lines, sink, outcome
  <2>8. QED
    BY <1>3, <2>3, <2>4, <2>5, <2>6, <2>7
       DEF Next, WriterStep, FlusherStep, Threads
<1>4. QED
  BY <1>1, <1>2, <1>3

\* Lines leave in whole batches of the oldest and stay where they went, as
\* LogContract promises.
THEOREM Implements == Spec => ImplementsContract
<1>1. Init => Contract!Init
  BY ContractInit
<1>2. IInv /\ [Next]_vars => [Contract!Next]_(Contract!vars)
  BY ContractStep
<1>3. QED
  BY <1>1, <1>2, Invariance, PTL DEF Spec, ImplementsContract, Contract!Spec
=============================================================================
