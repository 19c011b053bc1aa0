------------------------------- MODULE Logger -------------------------------
(***************************************************************************)
(* The logger of src/log.cpp: __log and struct Logger (write, flush,        *)
(* flush_job, set_save_directory, set_logger_level, close).                 *)
(*                                                                         *)
(* Writers call __log; Flusher is the thread that write() starts to run     *)
(* flush_job; Closer is the thread that runs ~Logger.  A critical section   *)
(* of logger_lock_ is one action.  flush() is several: around its locked    *)
(* swap it uses cache_, local_, logger_directory and handler unlocked, and  *)
(* the writer of a FATAL line runs it beside the flush thread.  A line is   *)
(* its number in the order in which lines enter cache_.                     *)
(***************************************************************************)
EXTENDS Integers, Sequences

CONSTANTS
  Writers, Flusher, Closer,  \* the threads
  Levels,    \* the levels at which lines are logged
  Settings,  \* the levels the logger is set to
  Forms,     \* the directories it is given: empty, without or with a slash
  MaxLines,  \* bound: writers start no further line after these
  MaxDay     \* bound: the days on which lines are logged

LFATAL == 5
LERROR == 4
LINFO  == 2

ASSUME LoggerAssumption ==
  /\ Flusher \notin Writers /\ Closer \notin Writers /\ Flusher # Closer
  /\ Levels \subseteq 1 .. LFATAL /\ Settings \subseteq 1 .. LFATAL
  /\ Forms \subseteq {"empty", "bare", "slash"}
  /\ MaxLines \in Nat /\ MaxDay \in Nat \ {0}

Threads == Writers \cup {Flusher}
Paths   == {"bare", "slash"} \X (1 .. MaxDay)  \* the form of the directory, the date

VARIABLES
  logger_level,
  dir,       \* logger_directory: unset, empty, without or with its slash
  cache_, local_,
  keep_run_, logger_shutdown,
  nullFile,  \* handler is a null FILE* that has fclose as its deleter
  pc,        \* where each writer, the flush thread and the closer are
  last,      \* the flush thread has left its loop
  accepted,  \* how many lines were put into cache_
  fatal,     \* history: the latest FATAL line put into cache_
  today,     \* the date
  file,      \* the lines in each file
  lost,      \* the lines that were cleared without being saved
  overlap,   \* two threads were once at local_ or handler at a time
  crashed, aborted

settings == <<logger_level, dir>>
lines    == <<cache_, accepted, fatal>>
runSt    == <<keep_run_, logger_shutdown, last>>
sink     == <<nullFile, today, file>>
outcome  == <<lost, overlap, crashed, aborted>>
vars == <<settings, lines, local_, runSt, sink, pc, outcome>>

Init ==
  /\ logger_level = LINFO /\ dir = "unset"
  /\ cache_ = <<>> /\ local_ = <<>>
  /\ keep_run_ = FALSE /\ logger_shutdown = FALSE /\ last = FALSE
  /\ nullFile = FALSE
  /\ pc = [p \in Threads \cup {Closer} |-> IF p = Flusher THEN "none" ELSE "idle"]
  /\ accepted = 0 /\ fatal = 0 /\ today = 1
  /\ file = [f \in Paths |-> <<>>] /\ lost = {}
  /\ overlap = FALSE /\ crashed = FALSE /\ aborted = FALSE

GoTo(p, label) == pc' = [pc EXCEPT ![p] = label]

Lines(s) == {s[i] : i \in 1 .. Len(s)}
Saved    == UNION {Lines(file[f]) : f \in Paths}

HasDirectory == dir \notin {"unset", "empty"}
-----------------------------------------------------------------------------
(* Settings: nothing here takes the lock. *)

SetLoggerLevel(l) ==
  /\ logger_level' = l
  /\ UNCHANGED <<dir, lines, local_, runSt, sink, pc, outcome>>

\* set_save_directory assigns the string other threads read ...
SetSaveDirectory(form) ==
  /\ dir \in {"unset", "slash"}
  /\ dir' = form
  /\ UNCHANGED <<logger_level, lines, local_, runSt, sink, pc, outcome>>

\* ... replaces an empty one by ".", and appends a missing slash.
CompleteDirectory ==
  /\ \/ dir = "empty" /\ dir' = "bare"
     \/ dir = "bare" /\ dir' = "slash"
  /\ UNCHANGED <<logger_level, lines, local_, runSt, sink, pc, outcome>>
-----------------------------------------------------------------------------
(* __log and write *)

PassesFilter(level) == level <= logger_level

\* A line passes the filter, is printed, and has a directory to be saved in.
LogLine(w, level) ==
  /\ pc[w] = "idle" /\ accepted < MaxLines
  /\ PassesFilter(level) /\ HasDirectory
  /\ GoTo(w, IF level = LFATAL THEN "fatal" ELSE "write")
  /\ UNCHANGED <<settings, lines, local_, runSt, sink, outcome>>

\* Wrong variant: a closed logger still takes lines.
TakesAlways == TRUE

\* The early returns of write.
Takes == ~logger_shutdown /\ (keep_run_ \/ pc[Flusher] = "none")

Store ==
  /\ cache_' = Append(cache_, accepted + 1)
  /\ accepted' = accepted + 1

\* Wrong variant: a FATAL line aborts at once.
AfterWriteNoFlush(w) == IF pc[w] = "fatal" THEN "abort" ELSE "idle"

\* The writer of a FATAL line calls flush, whether its line was taken or not.
AfterWrite(w) == IF pc[w] = "fatal" THEN "check" ELSE "idle"

\* write, under the lock: the first line starts the flush thread.
Write(w) ==
  /\ pc[w] \in {"write", "fatal"}
  /\ \/ /\ Takes /\ Store
        /\ keep_run_' = TRUE
        /\ fatal' = IF pc[w] = "fatal" THEN accepted' ELSE fatal
        /\ pc' = [pc EXCEPT ![w] = AfterWrite(w),
                            ![Flusher] = IF @ = "none" THEN "loop" ELSE @]
     \/ /\ ~Takes
        /\ GoTo(w, AfterWrite(w))
        /\ UNCHANGED <<lines, keep_run_>>
  /\ UNCHANGED <<settings, local_, logger_shutdown, last, sink, outcome>>

Abort(w) ==
  /\ pc[w] = "abort"
  /\ aborted' = TRUE
  /\ UNCHANGED <<settings, lines, local_, runSt, sink, pc, lost, overlap, crashed>>
-----------------------------------------------------------------------------
(* flush, in the thread p *)

\* Wrong variant: the writer of a FATAL line goes on like the flush thread.
AfterFlushAlike(p) == IF last THEN "exit" ELSE "loop"

AfterFlush(p) ==
  IF p \in Writers THEN "abort" ELSE IF last THEN "exit" ELSE "loop"

\* cache_.empty() is read without the lock.
FlushCheck(p) ==
  /\ pc[p] = "check"
  /\ GoTo(p, IF cache_ = <<>> THEN AfterFlush(p) ELSE "swap")
  /\ UNCHANGED <<settings, lines, local_, runSt, sink, outcome>>

FlushSwap(p) ==
  /\ pc[p] = "swap"
  /\ local_' = cache_ /\ cache_' = local_
  /\ overlap' = (overlap \/ \E q \in Threads : pc[q] \in {"save", "clear"})
  /\ GoTo(p, "save")
  /\ UNCHANGED <<settings, runSt, sink, accepted, fatal, lost, crashed, aborted>>

\* Wrong variant: the file is taken for a new one every time.
ExistsNever(f) == FALSE

Exists(f) == file[f] # <<>>

\* The lines are written to the day's file, opened with "wb" when it is new
\* and with "a+" otherwise.  handler.reset over the null FILE* an earlier
\* failure left calls fclose(nullptr).
SaveLines ==
  LET f == <<dir, today>> IN
  /\ IF nullFile THEN crashed' = TRUE /\ UNCHANGED file
     ELSE /\ file' = [file EXCEPT ![f] = (IF Exists(f) THEN @ ELSE <<>>) \o local_]
          /\ UNCHANGED crashed
  /\ UNCHANGED <<nullFile, cache_, accepted>>

\* The file cannot be opened.  mkdirs, asked for a missing directory, refuses
\* every name and logs an ERROR line from inside flush; it is not asked where
\* the directory is there, or where the path has no slash at all.
SaveFails ==
  /\ nullFile' = TRUE
  /\ crashed' = nullFile
  /\ \/ PassesFilter(LERROR) /\ Takes /\ Store
     \/ UNCHANGED <<cache_, accepted>>
  /\ UNCHANGED file

\* From the swap to this step p has the file open and reads local_, unlocked.
\* If another thread was there meanwhile - a second flush, or close with its
\* handler.reset - the lines may be written, or not, or the process crashes.
FlushSave(p) ==
  /\ pc[p] = "save"
  /\ \/ /\ local_ # <<>> /\ HasDirectory
        /\ SaveLines \/ SaveFails
     \/ /\ local_ = <<>> \/ ~HasDirectory
        /\ UNCHANGED <<cache_, accepted, nullFile, file, crashed>>
     \/ /\ overlap
        /\ crashed' \in BOOLEAN
        /\ UNCHANGED <<cache_, accepted, nullFile, file>>
  /\ GoTo(p, "clear")
  /\ UNCHANGED <<settings, local_, runSt, fatal, today, lost, overlap, aborted>>

\* Wrong variant: the saved lines stay in local_, and go back with the swap.
Kept == local_

Cleared == <<>>

\* Lines that were not saved are gone.
FlushClear(p) ==
  /\ pc[p] = "clear"
  /\ local_' = Cleared
  /\ lost' = lost \cup (Lines(local_) \ Saved)
  /\ GoTo(p, AfterFlush(p))
  /\ UNCHANGED <<settings, lines, runSt, sink, overlap, crashed, aborted>>

Flush(p) == FlushCheck(p) \/ FlushSwap(p) \/ FlushSave(p) \/ FlushClear(p)
-----------------------------------------------------------------------------
(* flush_job and close *)

AfterLoop == "check"

\* while (keep_run_): the sleep of up to a second is a pause before this step.
FlushJob ==
  /\ pc[Flusher] = "loop"
  /\ last' = ~keep_run_
  /\ GoTo(Flusher, IF keep_run_ THEN "check" ELSE AfterLoop)
  /\ UNCHANGED <<settings, lines, local_, keep_run_, logger_shutdown, sink,
                 outcome>>

CloseBegin ==
  /\ pc[Closer] = "idle"
  /\ logger_shutdown' = TRUE
  /\ GoTo(Closer, "stop")
  /\ UNCHANGED <<settings, lines, local_, keep_run_, last, sink, outcome>>

\* Wrong variant: close does not tell the flush thread.
RunsOn == keep_run_

Stopped == FALSE

CloseStop ==
  /\ pc[Closer] = "stop"
  /\ keep_run_' = Stopped
  /\ GoTo(Closer, IF keep_run_ THEN "join" ELSE "done")
  /\ UNCHANGED <<settings, lines, local_, logger_shutdown, last, sink, outcome>>

\* join returns once flush_job has; handler.reset(), also over the file to
\* which the writer of a FATAL line is writing.
CloseJoin ==
  /\ pc[Closer] = "join" /\ pc[Flusher] = "exit"
  /\ nullFile' = FALSE
  /\ crashed' = nullFile
  /\ overlap' = (overlap \/ \E w \in Writers : pc[w] = "save")
  /\ GoTo(Closer, "done")
  /\ UNCHANGED <<settings, lines, local_, runSt, today, file, lost, aborted>>

NextDay ==
  /\ today < MaxDay /\ today' = today + 1
  /\ UNCHANGED <<settings, lines, local_, runSt, nullFile, pc, file, outcome>>
-----------------------------------------------------------------------------
WriterStep(w) == Write(w) \/ Flush(w) \/ Abort(w)
FlusherStep   == FlushJob \/ Flush(Flusher)
Close         == CloseStop \/ CloseJoin

Setting ==
  \/ \E l \in Settings : SetLoggerLevel(l)
  \/ \E form \in Forms : SetSaveDirectory(form)
  \/ CompleteDirectory

Running == ~crashed /\ ~aborted

Next ==
  /\ Running
  /\ \/ \E w \in Writers : (\E l \in Levels : LogLine(w, l)) \/ WriterStep(w)
     \/ FlusherStep \/ CloseBegin \/ Close
     \/ Setting \/ NextDay

Spec == Init /\ [][Next]_vars

\* Threads go on; nobody has to log, to close, or to change a setting.
Fairness ==
  /\ \A w \in Writers : WF_vars(Running /\ WriterStep(w))
  /\ WF_vars(Running /\ FlusherStep)
  /\ WF_vars(Running /\ Close)

FairSpec == Spec /\ Fairness
-----------------------------------------------------------------------------
(* Properties *)
\* The shape of the state: every file and buffer holds numbers of lines.
TypeOK ==
  /\ logger_level \in 1 .. LFATAL /\ dir \in {"unset", "empty", "bare", "slash"}
  /\ cache_ \in Seq(Nat) /\ local_ \in Seq(Nat)
  /\ keep_run_ \in BOOLEAN /\ logger_shutdown \in BOOLEAN /\ last \in BOOLEAN
  /\ nullFile \in BOOLEAN
  /\ \A w \in Writers :
       pc[w] \in {"idle", "write", "fatal", "check", "swap", "save", "clear", "abort"}
  /\ pc[Flusher] \in {"none", "loop", "check", "swap", "save", "clear", "exit"}
  /\ pc[Closer] \in {"idle", "stop", "join", "done"}
  /\ accepted \in Nat /\ fatal \in 0 .. accepted /\ today \in 1 .. MaxDay
  /\ file \in [Paths -> Seq(Nat)] /\ lost \subseteq Nat
  /\ overlap \in BOOLEAN /\ crashed \in BOOLEAN /\ aborted \in BOOLEAN

\* The lines still on their way: those of local_ until they are saved.
Pending == Lines(cache_) \cup (Lines(local_) \ Saved)

\* Every accepted line is in one place only - on its way, in one file, or lost
\* with a batch whose file could not be opened - while no two threads were at
\* local_ or handler at a time (two flushes, or a flush and close).
EachLineOnce ==
  ~overlap =>
    /\ 1 .. accepted = Pending \cup Saved \cup lost
    /\ Saved \cap lost = {} /\ Lines(cache_) \cap (Saved \cup lost) = {}
    /\ \A f, g \in Paths : Lines(file[f]) \cap Lines(file[g]) # {} => f = g

\* Each file holds its lines in the order of acceptance and none twice, and
\* every line still to come is younger than those saved - on the same condition.
Increasing(s) == \A i, j \in 1 .. Len(s) : i < j => s[i] < s[j]

InOrder ==
  ~overlap =>
    /\ \A f \in Paths : Increasing(file[f])
    /\ \A old \in Saved, new \in Pending : old < new

\* No writer is past the swap of its flush, nor was one while another thread was.
Undisturbed == ~overlap /\ \A w \in Writers : pc[w] \notin {"save", "clear"}

\* close returns only after every line accepted before it was saved or, its
\* file not opening, lost - unless the flush of a FATAL line interferes.
CloseDrains == pc[Closer] = "done" /\ Undisturbed => Pending = {}

\* The process aborts for a FATAL line only when this line and all before it
\* are saved or lost - unless another thread is in the middle of flush.
AbortAfterFlush ==
  aborted /\ Undisturbed /\ pc[Flusher] \notin {"save", "clear"} =>
     \A n \in Pending :
        n > fatal \/ \E w \in Writers : pc[w] \in {"check", "swap"}

\* Neither way the logger ends leaves lines behind: close drains the buffers
\* (log.cpp:658), and abort comes after the flush (log.cpp:723).
NothingLeftBehind == CloseDrains /\ AbortAfterFlush

\* Every accepted line is saved or lost in the end.
EveryLineLeaves ==
  \A n \in 1 .. MaxLines : accepted >= n ~> (n \in Saved \cup lost \/ ~Running)

\* close returns: the flush thread sees keep_run_ and is joined.
CloseReturns == pc[Closer] = "stop" ~> (pc[Closer] = "done" \/ ~Running)

\* The logger keeps what LogContract promises: lines leave for a file, or are
\* lost, in whole batches and in the order of acceptance, and stay there.
Contract == INSTANCE LogContract
  WITH taken <- accepted, saved <- Saved, gone <- lost,
       broken <- overlap \/ crashed

ImplementsContract == Contract!Spec
=============================================================================
