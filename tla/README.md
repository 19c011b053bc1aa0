# Verification of liux_simple_server

TLA+ models of the server library in `src/`: of its concurrent parts, and of the
functions they are built on; the TLC instances that check them, and TLAPS proofs
of every safety property the runs check.

## 1. The system

The library follows the design of a coroutine server framework: a logger,
threads and locks, configuration variables, coroutines (fibers), a scheduler
that runs fibers on a pool of threads, and a timer queue the scheduler is meant
to wait on. `CMakeLists.txt` builds two programs, `liux_log` (from `log.cpp`)
and `liux_thread` (from `thread.cpp` and `log.cpp`). The other parts are work
in progress and do not compile as they stand: `timer.h` misses semicolons and
declares `m_cycle` where `timer.cpp` uses `m_cyclic`, `addTimer(timer, lock)`
and `onTimerInsertedAtFirst` are called and not declared,
`enable_shared_from_this` is inherited privately, `fiber.cpp` calls
`strerroExceptionr`, and `scheduler.h` has no `scheduler.cpp`. The models follow
what the text of these files evidently says; where a function is called and not
present it is external, and modelled from its call sites. Assertions are
active (no build defines `NDEBUG`).

### Inventory

| component | state | operations | interacts with |
|---|---|---|---|
| Timer queue, `timer.h`, `timer.cpp` | `m_timers` (ordered set), `m_previous_time`; per timer `m_next`, `m_ms`, `m_cyclic`, `m_fn` | `addTimer`, `addConditionTimer`, `cancel`, `reset`, `refresh`, `getNextTimer`, `listExpiredCallback`, `hasTimer`, `detectClockRollover` | the thread that waits for timers; the wall clock; `RWLock` |
| Logger, `log.h`, `log.cpp` 546-728 | `cache_`, `local_`, `flush_thread_`, `keep_run_`, `handler`, `logger_shutdown`, `logger_level`, `logger_directory` | `__log`, `write`, `flush`, `flush_job`, `close`, two setters | all threads; the file system; calls itself from `mkdirs` |
| Thread and locks, `thread.h`, `thread.cpp` | `m_id`, `m_started`, `m_joined`, semaphore; lock guards with `m_locked` | constructor, `Run`, `join`, destructor; `lock`/`unlock` of the guards; `wait`/`notify` | the logger (FATAL), the operating system |
| Fiber, `fiber.h`, `fiber.cpp` | `m_state`, `m_ctx`, `m_stack`, `m_callback`; `t_fiber`, `t_master_fiber` per thread; `s_fiber_count` | constructors, destructor, `reset`, `call`/`back`, `swapIn`/`swapOut` (two forms), `Yield`, `YieldToHold`, `MainFunc` | the scheduler's main fiber; user callbacks |
| Config, `config.h` | the map of variables; per variable the value, the listeners and a lock | `Lookup`, `LoadFromYAML`, `TraversalNode`, `getValue`, `setValue`, `addListener`, `delListener` | listeners (callbacks), YAML, `LexicalCast` |
| Scheduler, `scheduler.h` | `m_task_list`, `m_root_fiber`, thread list and counters, flags | `schedule` (two forms), `start`, `stop`, `run`, `tickle`, `onIdle` - only `schedule` has a body | fibers, threads, the timer queue |
| Conversions, `config.h` 54-293 | none | `LexicalCast` of vectors, lists, sets and maps, from and to text | yaml-cpp, `boost::lexical_cast` |
| Text and file helpers, `log.cpp` 28-545 | none | `pattern_match`, `split_string`, `replace_string`, `file_name`, `directory`, `find_files`; time and file functions | the file system |
| Exception, Singleton, noncopyable | none worth modelling | - | - |

### What is hard

* timer queue: operations of several threads interleave between the unlocked
  and the locked part of `reset`, `addTimer` and `listExpiredCallback`; a
  sleeping thread must be woken exactly when a new timer comes first; the wall
  clock may go back; unsigned arithmetic wraps around.
* logger: two buffers exchanged under a lock and used outside it, a flush thread
  that is started by the first line and joined by `close`, a FATAL writer that
  runs the same unlocked code, failures of the file system in the middle.
* thread: the handshake by which the constructor waits for the child, which
  writes through a pointer into the object under construction.
* fiber: which context is saved where by `call`, `swapIn`, `back` and `swapOut`
  in the three kinds of thread, and the state a fiber is left in.
* config: listeners called under a lock of the variable they may use; check and
  assignment in different critical sections; creation of a variable by two
  threads; errors in the middle of a batch of changes.
* scheduler: whether `tickle` is called when a task enters an empty queue, alone
  or in a batch that begins with tasks that are dropped.
* fiber lifetime: `MainFunc` drops its own `shared_ptr` on the stack that goes
  with the fiber, other threads drop theirs at any time.
* helpers: the backtracking of `pattern_match`, a buffer sized before its contents
  are known, names made equal by the points inside keys, empty containers inside
  others, directories that change while they are walked.

`PROJECT.json` lists these hazards one by one, each at its line, with the
properties that would catch it.

## 2. Modules

| module | models | configurations |
|---|---|---|
| `TimerContract` | what the timer queue promises: arm, disarm, expire, call | |
| `TimerManager`, `MCTimerManager` | the timer queue, its clients and the threads that wait for timers | `MCTimerRaces`, `MCTimerWakeups`, `MCTimerEmptyQueue` |
| `TimerManagerProofs` | theorems about `TimerManager`, those on deadlines for as long as the clock has not been set back | |
| `LogContract` | what the logger promises of the lines it takes | |
| `Logger`, `MCLogger` | the logger with its writers, flush thread and shutdown | `MCLoggerLines`, `MCLoggerLiveness` |
| `LoggerProofs` | theorems about `Logger`, and that it implements `LogContract` | |
| `ScopedLock`, `MCScopedLock` | the three guard classes over mutexes and read-write locks | `MCScopedLock` |
| `ScopedLockProofs` | theorems about `ScopedLock` | |
| `Thread`, `MCThread` | thread objects, the start handshake, join and detach | `MCThread` |
| `ThreadProofs` | theorems about `Thread` | |
| `Fiber`, `MCFiber` | fibers, their contexts and the scheduler's task list | `MCFiber`, `MCFiberException` |
| `FiberProofs` | theorems about `Fiber` | |
| `Config`, `MCConfig` | configuration variables, their listeners and the registry | `MCConfig`, `MCConfigRace` |
| `ConfigProofs` | theorems about `Config` | |
| `ConfigTree` | `TraversalNode`, as a function of a document | `MCAlgorithms` |
| `LexicalCast` | the conversions of that name, as functions of a document and a type | `MCAlgorithms` |
| `LogText` | the text and path helpers of the logger, as functions | `MCAlgorithms` |
| `FunctionProofs` | theorems about these three, for documents, types and texts of every size | |
| `FindFiles` | `find_files`, beside others that change the directories | `MCAlgorithms` |
| `FindFilesProofs` | a theorem about `FindFiles` | |
| `MCAlgorithms` | `LogText`, `LexicalCast` and `FindFiles` side by side | `MCAlgorithms` |

Names of variables are those of the members they model where there is one;
`history` variables record what happened and are read by properties only. A
definition introduced by *Wrong variant* is a plausible mistake in the
definition below it and is used by nothing: `PROJECT.json` pairs each property
with a variant that breaks it.

### How state and actions correspond to the code

* **Critical sections are single actions**, because sections of one lock exclude
  each other; whatever the code does between two sections, or without a lock, is
  an action of its own. So `Timer::reset` is `ResetCheck` (two unlocked tests)
  and `ResetLocked`; `listExpiredCallback` is `ListReadClock`, `ListCheckEmpty`
  (read lock) and `ListCollect` (write lock); `Logger::flush` is one action for
  each unlocked look at shared state around its locked swap; `setValue` is
  `Compare`, `Notify`, `Leave` and `Write`, with the read lock held over the
  second and third.
* **TimerManager.** A client is a thread that calls the public operations. A
  driver is the thread `getNextTimer` and `listExpiredCallback` exist for: it
  sleeps for the first's answer or until `onTimerInsertedAtFirst` wakes it, and
  runs what the second returns. Deadlines are computed modulo `Word` (2^64) and
  the rollover test uses the unsigned difference of the code. `crashed` is the
  dereference of `begin()` of an empty set, after which the process takes no
  step. `steady` records that the clock has not been set back yet.
* **Logger.** A line is the number under which it entered `cache_`. Two threads
  inside the unlocked part of `flush` share `local_` and `handler` without a
  lock, and so do a writer that saves a batch and the end of `close`, which resets
  `handler` (664); from then on (`overlap`) lines may be lost or the process may
  crash, and the writer whose file was closed may have written its lines, not have
  written them, or crash.
  `mkdirs` refuses every path, so a file that does not open logs an ERROR line
  from inside `flush`, whatever the form of the directory, and the batch is dropped. `LogContract` knows only how many
  lines were taken, which are saved and which are gone: lines leave in batches of
  the oldest ones. Its `saved` are the lines the
  files hold, its `gone` the history variable `lost`, and an overlap or a crash is
  `Break`, after which nothing is promised.
* **ScopedLock.** The pthread locks are external. Their one behaviour beyond
  exclusion that matters is that a nested call for a read-write lock which the
  thread holds for writing returns an error; `Mutex` and `RWLock` hand it on and
  the guards ignore it (`EnterRefused`, `refused`).
* **Thread.** Objects are made, joined and destroyed by one thread each, their
  maker; callbacks may make further objects. `pthread_create` may fail, and the
  FATAL line that follows may or may not end the process (it is filtered at the
  default level); a signal may interrupt the constructor's `sem_wait`.
* **Fiber.** A fiber lives as long as its owner (`held`), a task in the list or
  taken out of it, or `MainFunc` on its own stack has a `shared_ptr` to it; whoever
  drops the last one destroys it, and `failed` records a stack that was freed under
  the flow that ran on it. The scheduler is taken to keep the task it took until
  its own flow goes on, as the framework this code follows does. `schedule` of
  one task and of a batch hold the lock once and call `tickle` after it, which is
  the step "tickle" of `pc`. A context holds a flow of control. Resuming a context whose flow
  has since gone on is undefined, and the model stops there (`failed`). The
  scheduler's `run` and `GetMainFiber` are not in the repository; external is
  that a scheduler takes a waiting fiber out of the list and swaps it in, in the
  root fiber in the root thread and in the master fiber elsewhere.
  `Yield` and `YieldToHold` are two actions each: the state is `HOLD` before the
  context is stored.
* **Config.** `stack` holds the calls of `setValue` a thread is inside, because
  listeners may set variables themselves. `s_cb_id` stays 0, so each variable
  has at most one listener. `Lookup` with a default is two actions, because the
  registry is unlocked between the search and the insertion. A document is a
  text for each of some names; `ConfigTree` says which names and nodes those are.
* **ConfigTree.** A document is a list of nodes, with their depths, in the order of
  the text; the machine only writes one. A name is the sequence of its components, so
  that the key `a.0` and the first element of the list `a` meet. `TraversalNode` is a
  recursive function of where a call, or the loop inside one, is (`Visits`): the node,
  its name, the subscript of the next child and the output so far.
* **LexicalCast.** A text is the tree it is parsed into: yaml-cpp's parser and
  `operator<<` are external and taken for inverses of each other. A `std::string` is
  such a text, an int a scalar of `Ints`, a set a set and a map a set of pairs. `Cast`
  gives for each type what the two specializations for it do, by recursion over the
  nested types, as the templates are instantiated.
* **LogText.** The loops over pointers are recursive functions over sequences,
  with one disjunct for each branch; `std::string::find` and `rfind` are external
  and give 0 for `npos`. A call whose loop never ends comes to the value `Endless`,
  and a float that is infinite or no number, taken for a size, to `NotASize`; both
  happen in `replace_string` with an empty token. The machine only writes the two
  arguments.
* **FindFiles.** One action for each `opendir`, each `readdir` with its `lstat`,
  and `closedir`. What `readdir` does with entries that appear or go away while
  their directory is open is left open, as POSIX leaves it.

## 3. What each run checks

| run | instance | shows |
|---|---|---|
| `timer_races` | 2 clients, 2 drivers, 1 timer (conditional, one-shot or periodic), clock 1..3, set back by 2, an hour of 1 | `QueuedIffArmed`, `OneShotFate`, `CancelledStaysOut`, `NoEarlyExpiry`, and that the queue implements `TimerContract` |
| `timer_wakeups` | 2 clients, 1 driver, 2 timers, clock 1..3, with fairness | `NoLostWakeup`, `OneShotConcludes` |
| `timer_empty_queue` | 1 client, 1 driver, 1 timer | **violated**: `NeverPastTheEnd` |
| `logger_lines` | 2 writers, 2 lines, levels INFO and FATAL, 2 days | `EachLineOnce`, `InOrder`, `NothingLeftBehind` (on `close` and on abort), and that the logger implements `LogContract` |
| `logger_liveness` | 1 writer, 2 lines, every form of directory, with fairness | `EveryLineLeaves`, `CloseReturns` |
| `scoped_lock` | 3 threads, a mutex and a read-write lock, 7 guards of all classes, nested, with fairness | `Exclusion`, `GuardsMatchLocks`, `CallsReturnOrStick` |
| `thread` | 3 thread objects, nested, with fairness | `HandshakeSafe`, `ReleasedOnce`, `CallsReturn` |
| `fiber` | a worker, the root thread, the root fiber and two tasks | `RunningIsThis`, `WaitingIsResumable`, `BackToCaller`, `FailuresAreKnown` (no stale context is resumed, no assertion fails, no stack is freed under its flow), `QueuedIsTickled` |
| `fiber_exception` | the same | **violated**: `OverIsFinished` |
| `config` | 2 threads, 2 names, 2 values and a bad text, a listener that sets a variable, with fairness | `SameUnlessRaced`, `StableWhileTold`, `LoadCovers`, `CallsReturn` |
| `config_race` | the same | **violated**: `OneVarPerName` |
| `algorithms` | texts of up to 6 and patterns of up to 4 characters, documents of up to 5 nodes, 11 types, directories of 2 names and 2 levels that are changed twice | `GlobMatches`, `TextsKept` (`split_string`, `replace_string`, `file_name`, `directory`), `LastOfNameWins`, `SaveLoad`, `SteadyFound` |

`TypeOK` of each module with a state of its own is part of its first passing run;
the machines of `algorithms` only enumerate arguments, or are checked by the
result. What each property
says, and the lines it is about, stands above its definition.

### Bounds, and why they are enough

* Timer races need two threads inside one timer's operations beside a
  collection, and a collection that is overtaken by another: two clients, two
  drivers, one timer. Being woken for the wrong timer needs a second timer, and
  one driver. All periods of `timer_wakeups` are of one length, so that a `reset` that
  brings a deadline forward is left to the theorem `WakesInTime`. The clock stops at
  `MaxTime`; a period of 1 and a start of 1 let timers expire, be put off and be refreshed. With an hour of 1 a step back
  of 2 is a rollover, which the unsigned subtraction does not hide, since
  `m_previous_time` is at least the hour. The same hour lets a driver hold a reading
  of the clock that is older than what another one has collected with, by an hour and
  by more: the first must not hand out a callback early, the second does, and is the
  exception `NoEarlyExpiry` names (`Stalled`). TLC reaches it: without the exception
  the run finds a violation.
* `MaxLines` 2 lets two lines meet in one batch and in two, in both orders;
  `MaxDay` 2 lets a batch span a midnight; two writers let one be in a FATAL
  flush while the flush thread is in its own.
* Seven guards give each of three threads nested, repeated and mixed locking.
* Three thread objects give nesting, a failed creation beside a living thread,
  and an object destroyed while its thread and a further one run.
* Two tasks, one worker and the root thread give every pair of thread kind and
  switch; fibers may be reset and used again without a bound. A queue holds a
  fiber once.
* Config: `MaxCalls` 4 lets two variables be made, a listener added and a
  document loaded, or two threads race to create one and set it; `MaxDepth` 2
  lets a listener's set wait for its own caller. Cycles over two variables need
  one call more; the one over a single variable blocks in the same way.
* Patterns of 4 characters hold two parts, or two stars with a letter or a question
  mark between, before or behind them; `A` and `B` in the pattern are the capitals
  of the letter `alphabet_equal` raises and of one it does not. Texts of 6 with
  tokens of up to 3 letters out of two give overlapping, adjacent and repeated
  occurrences and every remainder of the lengths, and values shorter, as long and
  longer than the token; empty texts, separators, tokens and values are among them. Documents of 5 nodes hold a repeated key whose first node
  has children, a key with a point beside a list, and an empty list inside a list
  beside a full one. Two changes let an entry be removed and made anew, as another
  kind or while its directory is open or waits on the stack; one directory cannot
  be read.

`CHECK_DEADLOCK FALSE` is set throughout: bounded clocks, lines and calls run
out, threads need not begin a call, and a crashed or aborted process stops.

### Fairness

* `TimerManager!Fairness`: threads inside a call go on, the driver's loop runs,
  time passes. Nobody is obliged to begin a call. The locks are held for single
  actions only, so weak fairness of a step that waits for one is what an
  operating system's scheduler gives.
* `Logger!FairSpec`: a thread inside a call, the flush thread and the closer go
  on; no writer has to log.
* `Thread!FairSpec`: callbacks end, the maker of an object leaves its scope, and
  a semaphore that is posted lets its waiter through.
* `ScopedLock!FairSpec`: a lock that is free is got by some thread that waits for
  it, and guards are destroyed at the end of their scope. `CallsReturnOrStick`
  makes it a condition that threads stop asking: nothing in the code keeps readers
  from keeping a writer out. Threads that wait for each other (`Stuck`) are the
  deadlocks the guards allow, and the property says that there is no other.
* `Config!FairSpec`: a thread inside a call goes on. The read-write lock prefers
  readers; that a writer is not kept out for ever rests on the bound on calls,
  not on the code.

### Findings

* `timer.cpp:184` dereferences `begin()` of a set that may have been emptied
  since the read-locked test of line 175 (`timer_empty_queue`).
* `fiber.cpp:297-309` leaves a fiber whose callback threw in state EXEC: it is
  over, `finish()` denies it, and it can be neither destroyed nor reset
  (`fiber_exception`).
* `config.h:494` registers a new variable without looking again whether there is
  one (`config_race`).

Seen while modelling, where a run would only repeat one line of the code or
nothing in the repository says what is meant:

* logger: `log.cpp:683` drops the lines above the level that is set, where
  `log.h:89` says it keeps only these; `date_now` (40) adds 1970 to a count of years
  since 1900, and `localtime` (27) gives all threads one buffer; `begin_with` and
  `end_with` (260) compare as many bytes as a pointer has; `alphabet_equal` (347)
  leaves `a` and `z` as they are.
* helpers: `replace_string` with an empty token never returns. `find` gives the same
  place for ever (`log.cpp:322`), each round writes the value once more (321-338),
  so that a value that is not empty runs over the end of the buffer, and the size of
  that buffer is the quotient by 0 (304). Nobody in the repository calls the
  function; `ReplaceFits` says of the empty token that this is what happens.
* timer: a driver that stalls for over an hour while another collects takes its
  stale time for a rollover (`timer.cpp:171`), and every timer expires; a stale time
  that is stored as the previous one may also hide that the clock was really set
  back; a timer that is constructed before the clock was set back and inserted after
  the collection that noticed keeps a deadline of the old clock (31);
  `m_previous_time - 1 h` wraps around for a clock within an hour of the epoch (229).
* logger and `close`: `handler.reset()` (664) may close the file the writer of a FATAL
  line is printing to.
* thread: `sem_wait` is not retried after a signal (`thread.cpp:25`); `m_joined` is
  not protected against two threads that join one object (112).
* scheduler and fiber: `schedule` drops `instant` (`scheduler.h:99`); a task that is
  put behind others wakes nobody; `s_fiber_count` is never decremented; `Yield` sets
  HOLD where its comment says READY.
* config: listeners get the old value twice (`config.h:334`); the number
  `addListener` returns is always 0; a map that is read from text keeps the first of
  two equal keys, the registry the last; when a key is repeated, the variables under
  its first node are still set; `output_iter->second = node` (540) assigns a
  `YAML::Node`, which changes the document as well: in `{a: {b: 1}, a.b: 2}` the
  entry `a` then holds `{b: 2}`.

## 4. What is proved

Every invariant and every action property of the passing runs is a theorem, and so
are both refinements. The theorems hold for every value of the constants that meets
the assumption the module names (`TimerAssumption`, `LoggerAssumption`,
`TreeAssumption`, and so on): any sets of threads, timers, locks, guards, objects,
fibers, names and values, any alphabet, any nest of types, and any bound. Beside the
ranges of the bounds these only say that distinct things are distinct and data well
formed: the null pointer is no variable, a thread no fiber, `"."` and `".."` no names
of entries, the keys of a map not empty, the inside of a type an int or a string. The
theorems are about the specifications without fairness. Each module of a component
with a state proves one inductive invariant, `IInv`, action by action, and reads its
properties off it; TLC checked `IInv` on the instances of section 3 before it was
proved.

* **TimerManagerProofs**: `TypeCorrect`, `QueueMatchesCallbacks`
  (`QueuedIffArmed`), `OneShotSafety` (`OneShotFate`), `CancelIsFinal`
  (`CancelledStaysOut`) and `QueueImplementsContract`. `QueuedIffArmed` is not
  inductive: an insertion at the last step could repeat one. `IInv` adds
  `AddingInv` (a timer is being added by one client only, and one that is still
  outside the queue has been touched by nobody, since nobody has its pointer) and
  `DriverInv` (a driver outside its running phase holds no callbacks, so that a
  collection overwrites none). The refinement maps a reset under the lock, a
  refresh and every unlocked step to a stutter, and the first part of `addTimer`
  to `Arm`. That `getNextTimer` finds a first element needs that a finite set of
  timers has a least one under the comparator: `LeastExists`, from the
  well-foundedness of the naturals.
  The second half of the module is about deadlines: `WakesInTime` (`NoLostWakeup`)
  and `ExpiresInTime` (`NoEarlyExpiry`), for any number of drivers. Both properties
  speak of the time until the clock is first set back, which the history variable
  `steady` records; the environment may set it back at any time. Both assume
  `NoWrap`, that no deadline comes near 2^64, and the second `FirstHourOver`, that the
  clock began at least an hour after the epoch; without these they do not hold
  (hazards at `timer.cpp:31` and 229). `Deadlines` says that no period begins after
  now; `NoLostWakeup` is then inductive beside it, because a driver is given a wait
  that ends by the first deadline, and whoever puts a timer before the first still has
  its wake-up to post. `ReadBefore` says that nothing any driver has read, and nothing
  a collection has stored, is later than now: so a collection hands out a timer early
  only if it takes its own reading for a rollover, which is then over an hour older
  than what another driver has stored, and therefore than now (`Stalled`).
* **LoggerProofs**: `TypeCorrect`, `LinesOnce` (`EachLineOnce`), `LinesInOrder`
  (`InOrder`), `NothingIsLeft` (`NothingLeftBehind`) and `Implements`
  (`ImplementsContract`). While no two threads have been at `local_` or `handler` together (`overlap`) the lines are three runs of
  consecutive numbers: those that left, those of `local_`, those of `cache_`
  (`Numbered`); those that left are the files' and the lost ones (`Leaving`), and
  only one thread is between the swap and the clear (`OneFlush`). `Ending` relates
  the closer, the flush thread and the two flags, from which the last turn of the
  loop finds an empty `cache_` (`Drained`); `FatalFlushed` keeps the writer of a
  FATAL line on its way to the swap.
* **FiberProofs**: `TypeCorrect`, `RunsAsThis` (`RunningIsThis`), `Resumable`
  (`WaitingIsResumable`), `OnlyKnownFailures` (`FailuresAreKnown`), `TasksAreTickled`
  (`QueuedIsTickled`) and `GoesBack` (`BackToCaller`). A failure ends the program,
  and before it the invariant has a part for the contexts (each holds its own
  object's flow, or nothing that may be resumed), for each thread (where control
  will look for the flows that were left), for each fiber that runs (who swapped it
  in, and that it is in one thread only), for the life of each fiber (its state
  follows its flow, and what a thread, a task or an owner points to is alive), for
  the scheduler's root fiber and for the list, which holds no fiber twice.
* **ConfigProofs**: `TypeCorrect`, `SameVariable` (`SameUnlessRaced`), `LoadsCover`
  (`LoadCovers`) and `StableForListeners` (`StableWhileTold`). `Creation` says that
  who is about to insert a variable is alone with that name or in a race for it;
  `Calling`, that every frame of a nest of `setValue` calls is inside a variable
  that exists and whose listeners still do while they are called; `Owing`, that
  what a load has not set yet is among the entries it still has.
* **FindFilesProofs**: `StayingIsFound` (`SteadyFound`), for directories of any depth
  and others that change them without a bound. For what has been there from the
  start: it lies in directories that have (`SteadyTree`); what the walk has reached
  it will not come to again, since no directory above it is on the stack or has it
  left to be read (`OneWay`); and what is sought is found, or the walk will still
  come to it (`FoundOrAhead`).
* **ScopedLockProofs**: `TypeCorrect`, `GuardsExclude` (`Exclusion`) and
  `GuardsAgree` (`GuardsMatchLocks`). The invariant says, lock by lock, that the
  count of readers is the number of locked reading guards and the writer is the
  owner of the one locked writing guard, as long as no nested call has been
  refused; the work is in the cardinalities.
* **ThreadProofs**: `TypeCorrect` (`TypeOK`), `HandshakeIsSafe` (`HandshakeSafe`, from
  `AssertionHolds` and `PointersValid`) and `AllReleasedOnce` (`ReleasedOnce`, from
  `DataOwned` and `HandleOwned`), from one invariant that relates each
  object's owner, its child's place and the semaphore (`Handshake`) and counts who
  frees what (`Bookkeeping`).
* **FunctionProofs**: `FiltersMatch` (`GlobMatches`), `TextsAreKept` (`TextsKept`, with
  `ReplacementsFit` and `PiecesAreTheStretches` for its parts), `LastEntryWins`
  (`LastOfNameWins`) and `SavedIsLoaded` (`SaveLoad`). The machines of these modules
  only write arguments, so the work is in the functions.
  A recursive definition says of its function only that it is *a* solution of its
  equation, if there is one. `Recursion` shows once that there is, for a function over
  any set whose equation reads it only where a measure is smaller; where the values
  lie in no set given beforehand (the levels of trees, the conversions of a type, the
  tree of a document) the solution is built step by step instead. What the solution
  computes is then shown with the least counterexample: of the arguments with a wrong
  result, one has the smallest measure (`SmallestPlace`).
    * `pattern_match`: the recursion behind a star and the single reading agree place by
      place, from the end of the filter; going back to the last star is enough, because
      what an earlier star could take the last one can take too.
    * `replace_string`, `split_string`: the occurrences taken from the left exist as one
      set (`GreedyExists`) and are what the loop finds in turn; what is written up to
      each is the share of the buffer that the exact product gives it; the pieces
      are counted by the cuts before them. With an empty token the first round finds
      it at its own beginning, and goes on where it was (`EmptyTokenIsEndless`); an
      empty separator covers nothing, and leaves one piece.
    * `TraversalNode`: a document is a tree in the order of its text (`Document`, an
      invariant); the children of a node are found in turn, each one behind the end of
      the one before (`KidsInTurn`), so that the recursion enters the nodes in the
      order of the text (`VisitsInOrder`); and one entry at a time, the output holds
      each name once, in the order of first occurrence, with its last node
      (`EnterLast`).
    * `LexicalCast`: `Keeps` says of a type that whatever its values are written as is
      read as the same value, and is no higher a tree; each container keeps it when
      its elements do. A set is listed in some order, whichever that is (`Listed`); a
      map's pairs have distinct keys (`PairsRead`), so that `insert` refuses none of
      them when they are read again.

Only model-checked: everything under fairness (`OneShotConcludes`,
`EveryLineLeaves`, `CloseReturns`, both `CallsReturn`, `CallsReturnOrStick`), which
TLAPS does not reach.

## 5. What is not modelled

* The text of log lines and of dates; `begin_with`, `end_with`, `load_file`,
  `load_text_file`, `file_size`, `last_modify`, `isfile`: single library calls, or
  functions no other part uses. The product of floats in `replace_string` is exact
  for the lengths checked; where it is rounded is out of a model checker's reach.
  Patterns are shorter than the 500 characters `pattern_match` copies them to.
* The contents `TraversalNode` changes inside the document when two nodes have one
  name: `ConfigTree` follows which node an entry holds, not what is in it. The
  exceptions `Lookup` throws for a name of another type or with a bad character
  (`config.h:464`, 491), which change nothing.
* The text of YAML (quotes, escapes, aliases, keys that are not scalars), and names
  that differ in case only, which `LoadFromYAML` makes equal after `TraversalNode`.
* `Scheduler::run`, `start`, `stop` and `tickle`, which are declared and not
  implemented. Fibers bound to a thread, and tasks that are plain functions, differ
  from the modelled ones only there.
* Timers' reference counts: whoever holds a timer keeps it.
* Thread-local copies of names and ids, `Exception`, `Noncopyable`, `Singleton`, the
  build: no decision of the modelled code reads them.
* Misuse no caller in the repository shows: two threads sharing a `Thread` object
  or a guard, `call` from inside a fiber, an operation on an object that is being
  destroyed.

## 6. Plan

Done, in this order: timer queue with its contract and proofs; guards; threads;
logger with its contract; fibers with their owners and the task list;
configuration; the functions of the configuration and of the logger's helpers.
The concurrent modules stand alone, since the components share no state but locks:
a critical section of one is an atomic action of the others, which is what
`ScopedLock` justifies.

The safety of all of them is proved, the functions last. Left is what a proof could still add to the liveness that is only
checked: the steps of its argument that are plain invariants and action properties,
such as that a thread in a call of `flush`, of `close` or of `setValue` always has a
next step or waits for one that does, and that a measure of what is left to do never
grows.
