---------------------------- MODULE TimerManager ----------------------------
(***************************************************************************)
(* The timer queue of src/timer.cpp: Timer (cancel, reset, refresh) and     *)
(* TimerManager (addTimer, addConditionTimer, getNextTimer,                 *)
(* listExpiredCallback, detectClockRollover), used by several threads.      *)
(*                                                                         *)
(* Every critical section of m_lock is one action, because the sections     *)
(* exclude each other; what the code does outside the lock (constructing a  *)
(* Timer, the first tests of reset, reading the clock and testing for an    *)
(* empty queue in listExpiredCallback, onTimerInsertedAtFirst) is an action *)
(* of its own.  Clients call the Timer and addTimer operations.  A driver   *)
(* is the thread the two query operations exist for: it sleeps for          *)
(* getNextTimer() milliseconds, or until onTimerInsertedAtFirst wakes it,   *)
(* calls listExpiredCallback and runs what that returned.                   *)
(***************************************************************************)
EXTENDS Integers, FiniteSets

CONSTANTS
  Timers,       \* the addresses of the Timer objects a behaviour may create
  Clients,      \* the threads that add, cancel, reset and refresh timers
  Drivers,      \* the threads that wait for timers and run their callbacks
  Conditional,  \* the timers created by addConditionTimer
  Periods,      \* the values passed as ms
  StartTime,    \* the wall clock, in ms, when the manager is constructed
  MaxTime,      \* bound: the clock stops here
  BackSteps,    \* by how much the administrator may set the clock back
  Hour,         \* the 60 * 60 * 1000 of detectClockRollover
  Word,         \* 2^64: the number of values of a uint64_t
  NoTimer

ASSUME TimerAssumption ==
  /\ Timers \subseteq Nat /\ NoTimer \notin Timers
  /\ Clients \cap Drivers = {}
  /\ Conditional \subseteq Timers
  /\ Word \in Nat \ {0}
  /\ Periods \subseteq 0 .. Word - 1
  /\ StartTime \in Nat /\ MaxTime \in StartTime .. Word - 1
  /\ BackSteps \subseteq Nat \ {0}
  /\ Hour \in Nat

VARIABLES
  now,              \* the wall clock read by GetCurrentMS
  m_timers,         \* TimerManager::m_timers
  m_previous_time,  \* TimerManager::m_previous_time
  created,          \* the timers constructed so far
  m_next, m_ms, m_cyclic,  \* the fields of each Timer
  m_fn,             \* TRUE while Timer::m_fn holds a callback
  pc,               \* where each client is
  arg, newMs, fromNow,     \* this, ms and from_now of a client's pending call
  tickled,          \* a wake-up was posted that no driver has consumed
  dpc,              \* where each driver is
  wait,             \* what is left of a sleeping driver's timeout
  nowMs,            \* now_ms of a driver's listExpiredCallback
  fns,              \* the callbacks handed to a driver and not yet run
  condGone,         \* the conditional timers whose condition was released
  ran, skipped,     \* history: callbacks run; callbacks OnTimer refused to run
  cancelled,        \* history: the timers on which cancel returned true
  steady,           \* history: the clock was never set back
  crashed           \* an iterator equal to end() was dereferenced or erased

objects   == <<created, m_next, m_ms, m_cyclic, m_fn>>
queue     == <<m_timers, m_previous_time>>
clientSt  == <<pc, arg, newMs, fromNow>>
driverSt  == <<dpc, wait, nowMs, fns>>
history   == <<condGone, ran, skipped, cancelled, steady>>
vars == <<now, queue, objects, clientSt, driverSt, tickled, history, crashed>>

-----------------------------------------------------------------------------
(* Unsigned arithmetic, the comparator, and the pointers clients hold.      *)

U64(x) == x % Word

\* Comparator on distinct non-null pointers: by m_next, ties by address.
Before(s, t, next) ==
  next[s] < next[t] \/ (next[s] = next[t] /\ s < t)

\* *m_timers.begin()
First == CHOOSE t \in m_timers : \A s \in m_timers : ~Before(s, t, m_next)

\* Wrong variant: the new timer must also come before itself, so never is first.
AtFrontStrict(t, Q, next) == \A s \in Q : Before(t, s, next)

\* it == m_timers.begin() for the iterator of t, inserted into the set Q.
AtFront(t, Q, next) == \A s \in Q \ {t} : Before(t, s, next)

\* addTimer has not yet returned the pointer to t.
Adding(t) == \E c \in Clients : pc[c] \in {"add", "notify"} /\ arg[c] = t

Handles == {t \in created : ~Adding(t)}

\* Wrong variant: any earlier time is a clock that was set back.
RolloverAtOnce(previous, now_ms) == now_ms < previous

\* now_ms < previous and now_ms < previous - Hour, the difference unsigned.
ClockRollover(previous, now_ms) ==
  now_ms < previous /\ now_ms < U64(previous - Hour)

Forever == Word - 1    \* ~0ull, the answer when no timer is queued
-----------------------------------------------------------------------------
Init ==
  /\ now = StartTime /\ m_previous_time = StartTime
  /\ m_timers = {} /\ created = {}
  /\ m_next = [t \in Timers |-> 0]
  /\ m_ms = [t \in Timers |-> 0]
  /\ m_cyclic = [t \in Timers |-> FALSE]
  /\ m_fn = [t \in Timers |-> FALSE]
  /\ pc = [c \in Clients |-> "idle"]
  /\ arg = [c \in Clients |-> NoTimer]
  /\ newMs = [c \in Clients |-> 0]
  /\ fromNow = [c \in Clients |-> FALSE]
  /\ tickled = FALSE
  /\ dpc = [d \in Drivers |-> "run"]
  /\ wait = [d \in Drivers |-> 0]
  /\ nowMs = [d \in Drivers |-> 0]
  /\ fns = [d \in Drivers |-> {}]
  /\ condGone = {} /\ ran = {} /\ skipped = {} /\ cancelled = {}
  /\ steady = TRUE /\ crashed = FALSE
-----------------------------------------------------------------------------
(* addTimer / addConditionTimer *)

\* The constructor runs before the lock is taken: the deadline is fixed here.
NewTimer(c, t, ms, cyclic) ==
  /\ pc[c] = "idle" /\ t \notin created
  /\ created' = created \cup {t}
  /\ m_next' = [m_next EXCEPT ![t] = U64(now + ms)]
  /\ m_ms' = [m_ms EXCEPT ![t] = ms]
  /\ m_cyclic' = [m_cyclic EXCEPT ![t] = cyclic]
  /\ m_fn' = [m_fn EXCEPT ![t] = TRUE]
  /\ pc' = [pc EXCEPT ![c] = "add"]
  /\ arg' = [arg EXCEPT ![c] = t]
  /\ UNCHANGED <<now, queue, newMs, fromNow, driverSt, tickled, history, crashed>>

\* The private addTimer(timer, lock): insert, unlock, notify if it came first.
\* Only the thread that adds the timer still hides its pointer (hidden).
InsertAndUnlock(c, t, next, hidden) ==
  LET front == AtFront(t, m_timers \cup {t}, next) IN
  /\ m_timers' = m_timers \cup {t}
  /\ m_next' = next
  /\ pc' = [pc EXCEPT ![c] = IF front THEN "notify" ELSE "idle"]
  /\ arg' = [arg EXCEPT ![c] = IF front /\ hidden THEN t ELSE NoTimer]

AddTimerLocked(c) ==
  /\ pc[c] = "add"
  /\ InsertAndUnlock(c, arg[c], m_next, TRUE)
  /\ UNCHANGED <<now, m_previous_time, created, m_ms, m_cyclic, m_fn,
                 newMs, fromNow, driverSt, tickled, history, crashed>>

\* onTimerInsertedAtFirst, called after the unlock: wakes a sleeping driver.
OnTimerInsertedAtFirst(c) ==
  /\ pc[c] = "notify"
  /\ tickled' = TRUE
  /\ pc' = [pc EXCEPT ![c] = "idle"]
  /\ arg' = [arg EXCEPT ![c] = NoTimer]
  /\ UNCHANGED <<now, queue, objects, newMs, fromNow, driverSt, history, crashed>>
-----------------------------------------------------------------------------
(* Timer::cancel, reset, refresh.  The early returns that change nothing are *)
(* the states in which the action is not enabled.                            *)

\* The iterator find returns is erased unchecked.
Cancel(c, t) ==
  /\ pc[c] = "idle" /\ t \in Handles
  /\ m_fn[t]
  /\ m_fn' = [m_fn EXCEPT ![t] = FALSE]
  /\ m_timers' = m_timers \ {t}
  /\ crashed' = (t \notin m_timers)
  /\ cancelled' = cancelled \cup {t}
  /\ UNCHANGED <<now, m_previous_time, created, m_next, m_ms, m_cyclic,
                 clientSt, driverSt, tickled, condGone, ran, skipped, steady>>

\* reset up to the lock: m_ms and m_fn are read with no lock held.
ResetCheck(c, t, ms, from_now) ==
  /\ pc[c] = "idle" /\ t \in Handles
  /\ ~(ms = m_ms[t] /\ ~from_now)
  /\ m_fn[t]
  /\ pc' = [pc EXCEPT ![c] = "reset"]
  /\ arg' = [arg EXCEPT ![c] = t]
  /\ newMs' = [newMs EXCEPT ![c] = ms]
  /\ fromNow' = [fromNow EXCEPT ![c] = from_now]
  /\ UNCHANGED <<now, queue, objects, driverSt, tickled, history, crashed>>

\* Wrong variant: reset without its second test, made under the lock.
FoundAlways(t) == TRUE

\* find(shared_from_this()) != end(): the comparator's order is total.
Found(t) == t \in m_timers

\* reset under the lock: a timer no longer queued is left alone.
ResetLocked(c) ==
  LET t == arg[c]
      start == IF fromNow[c] THEN now ELSE U64(m_next[t] - m_ms[t]) IN
  /\ pc[c] = "reset"
  /\ \/ /\ Found(t)
        /\ m_ms' = [m_ms EXCEPT ![t] = newMs[c]]
        /\ InsertAndUnlock(c, t, [m_next EXCEPT ![t] = U64(start + newMs[c])], FALSE)
     \/ /\ ~Found(t)
        /\ pc' = [pc EXCEPT ![c] = "idle"]
        /\ arg' = [arg EXCEPT ![c] = NoTimer]
        /\ UNCHANGED <<m_timers, m_next, m_ms>>
  /\ newMs' = [newMs EXCEPT ![c] = 0]
  /\ fromNow' = [fromNow EXCEPT ![c] = FALSE]
  /\ UNCHANGED <<now, m_previous_time, created, m_cyclic, m_fn,
                 driverSt, tickled, history, crashed>>

\* refresh re-inserts directly into the set: nobody is notified.
Refresh(c, t) ==
  /\ pc[c] = "idle" /\ t \in Handles
  /\ m_fn[t] /\ Found(t)
  /\ m_next' = [m_next EXCEPT ![t] = U64(now + m_ms[t])]
  /\ UNCHANGED <<now, queue, created, m_ms, m_cyclic, m_fn, clientSt,
                 driverSt, tickled, history, crashed>>
-----------------------------------------------------------------------------
(* The driver: getNextTimer, sleep, listExpiredCallback, run. *)

\* Wrong variant: the unsigned difference without the test for a past deadline.
NextTimeoutUnchecked ==
  IF m_timers = {} THEN Forever ELSE m_next[First] - now

\* What getNextTimer returns.
NextTimeout ==
  IF m_timers = {} THEN Forever
  ELSE IF now >= m_next[First] THEN 0
  ELSE m_next[First] - now

GetNextTimer(d) ==
  /\ dpc[d] = "run" /\ fns[d] = {}
  /\ dpc' = [dpc EXCEPT ![d] = "wait"]
  /\ wait' = [wait EXCEPT ![d] = NextTimeout]
  /\ UNCHANGED <<now, queue, objects, clientSt, nowMs, fns, tickled, history, crashed>>

\* The sleep ends: its timeout elapsed, or a wake-up was posted (and is used up).
Wake(d) ==
  /\ dpc[d] = "wait"
  /\ wait[d] = 0 \/ tickled
  /\ dpc' = [dpc EXCEPT ![d] = "list"]
  /\ wait' = [wait EXCEPT ![d] = 0]
  /\ tickled' = FALSE
  /\ UNCHANGED <<now, queue, objects, clientSt, nowMs, fns, history, crashed>>

\* listExpiredCallback reads the clock before it takes any lock ...
ListReadClock(d) ==
  /\ dpc[d] = "list"
  /\ dpc' = [dpc EXCEPT ![d] = "check"]
  /\ nowMs' = [nowMs EXCEPT ![d] = now]
  /\ UNCHANGED <<now, queue, objects, clientSt, wait, fns, tickled, history, crashed>>

\* ... tests for an empty queue under the read lock, which it then gives up ...
ListCheckEmpty(d) ==
  /\ dpc[d] = "check"
  /\ dpc' = [dpc EXCEPT ![d] = IF m_timers = {} THEN "run" ELSE "collect"]
  /\ nowMs' = [nowMs EXCEPT ![d] = IF m_timers = {} THEN 0 ELSE @]
  /\ UNCHANGED <<now, queue, objects, clientSt, wait, fns, tickled, history, crashed>>

\* The range [begin, it): all timers after a rollover, else those whose time
\* has come, the ones that tie with now_ms included.
Expired(d) ==
  IF ClockRollover(m_previous_time, nowMs[d])
  THEN m_timers ELSE {t \in m_timers : m_next[t] <= nowMs[d]}

\* Wrong variant: the callback of a one-shot timer is not cleared.
CallbacksKept(over) == m_fn

\* m_fn = nullptr for the one-shot timers that are over.
CallbacksLeft(over) == [t \in Timers |-> m_fn[t] /\ t \notin over]

\* ... and collects under the write lock.  With no rollover the first element
\* is dereferenced without a second test for an empty queue.
ListCollect(d) ==
  LET expired == Expired(d)
      again   == {t \in expired : m_cyclic[t]} IN
  /\ dpc[d] = "collect"
  /\ m_previous_time' = nowMs[d]
  /\ crashed' = (m_timers = {} /\ ~ClockRollover(m_previous_time, nowMs[d]))
  /\ m_timers' = (m_timers \ expired) \cup again
  /\ m_next' = [t \in Timers |-> IF t \in again THEN U64(nowMs[d] + m_ms[t])
                                 ELSE m_next[t]]
  /\ m_fn' = CallbacksLeft(expired \ again)
  /\ fns' = [fns EXCEPT ![d] = expired]
  /\ dpc' = [dpc EXCEPT ![d] = "run"]
  /\ nowMs' = [nowMs EXCEPT ![d] = 0]
  /\ UNCHANGED <<now, created, m_ms, m_cyclic, clientSt, wait, tickled, history>>

\* The driver calls a collected callback; for a conditional timer this is
\* OnTimer, which calls the user's function only while the condition lives.
RunCallback(d, t) ==
  /\ dpc[d] = "run" /\ t \in fns[d]
  /\ fns' = [fns EXCEPT ![d] = @ \ {t}]
  /\ IF t \in condGone
     THEN skipped' = skipped \cup {t} /\ UNCHANGED ran
     ELSE ran' = ran \cup {t} /\ UNCHANGED skipped
  /\ UNCHANGED <<now, queue, objects, clientSt, dpc, wait, nowMs, tickled,
                 condGone, cancelled, steady, crashed>>
-----------------------------------------------------------------------------
(* The environment *)

\* A millisecond passes: a sleeping driver's timeout runs down with the clock.
Tick ==
  /\ now < MaxTime
  /\ now' = now + 1
  /\ wait' = [d \in Drivers |->
                IF wait[d] \in {0, Forever} THEN wait[d] ELSE wait[d] - 1]
  /\ UNCHANGED <<queue, objects, clientSt, dpc, nowMs, fns, tickled, history, crashed>>

\* The wall clock is set back; a timeout that is running does not notice.
SetClockBack(k) ==
  /\ k <= now
  /\ now' = now - k
  /\ steady' = FALSE
  /\ UNCHANGED <<queue, objects, clientSt, driverSt, tickled,
                 condGone, ran, skipped, cancelled, crashed>>

\* The last strong reference to a conditional timer's condition goes away.
ReleaseCondition(t) ==
  /\ t \in Conditional \ condGone
  /\ condGone' = condGone \cup {t}
  /\ UNCHANGED <<now, queue, objects, clientSt, driverSt, tickled,
                 ran, skipped, cancelled, steady, crashed>>
-----------------------------------------------------------------------------
ClientCall(c) ==
  \E t \in Timers :
     \/ \E ms \in Periods, cyclic \in BOOLEAN : NewTimer(c, t, ms, cyclic)
     \/ Cancel(c, t)
     \/ \E ms \in Periods, from_now \in BOOLEAN : ResetCheck(c, t, ms, from_now)
     \/ Refresh(c, t)

ClientStep(c) == AddTimerLocked(c) \/ OnTimerInsertedAtFirst(c) \/ ResetLocked(c)

DriverStep(d) ==
  \/ GetNextTimer(d) \/ Wake(d)
  \/ ListReadClock(d) \/ ListCheckEmpty(d) \/ ListCollect(d)
  \/ \E t \in Timers : RunCallback(d, t)

Environment ==
  \/ Tick
  \/ \E k \in BackSteps : SetClockBack(k)
  \/ \E t \in Conditional : ReleaseCondition(t)

\* A crashed process takes no further step.
Next ==
  /\ ~crashed
  /\ \/ \E c \in Clients : ClientCall(c) \/ ClientStep(c)
     \/ \E d \in Drivers : DriverStep(d)
     \/ Environment

Spec == Init /\ [][Next]_vars

\* Threads inside a call go on, time passes; nobody is obliged to start a call.
Fairness ==
  /\ \A c \in Clients : WF_vars(~crashed /\ ClientStep(c))
  /\ \A d \in Drivers : WF_vars(~crashed /\ DriverStep(d))
  /\ WF_vars(~crashed /\ Tick)

FairSpec == Spec /\ Fairness
-----------------------------------------------------------------------------
(* Properties *)

\* The shape of the state: what is queued, handed out or pointed to exists.
TypeOK ==
  /\ now \in Nat /\ m_previous_time \in Nat
  /\ m_timers \subseteq created /\ created \subseteq Timers
  /\ m_next \in [Timers -> Nat] /\ m_ms \in [Timers -> Nat]
  /\ m_cyclic \in [Timers -> BOOLEAN] /\ m_fn \in [Timers -> BOOLEAN]
  /\ pc \in [Clients -> {"idle", "add", "notify", "reset"}]
  /\ arg \in [Clients -> created \cup {NoTimer}]
  /\ newMs \in [Clients -> Nat] /\ fromNow \in [Clients -> BOOLEAN]
  /\ tickled \in BOOLEAN /\ steady \in BOOLEAN /\ crashed \in BOOLEAN
  /\ dpc \in [Drivers -> {"run", "wait", "list", "check", "collect"}]
  /\ wait \in [Drivers -> Nat] /\ nowMs \in [Drivers -> Nat]
  /\ fns \in [Drivers -> SUBSET created]
  /\ condGone \subseteq Conditional
  /\ ran \subseteq created /\ skipped \subseteq created
  /\ cancelled \subseteq created

\* A constructed timer whose insertion is still to come.
Inserting(t) == \E c \in Clients : pc[c] = "add" /\ arg[c] = t

\* m_fn and membership of m_timers are kept in step: a timer is queued exactly
\* when it is created, inserted and still holds its callback.  cancel rests on
\* this when it erases the result of find without comparing it with end().
QueuedIffArmed ==
  \A t \in created : t \in m_timers <=> m_fn[t] /\ ~Inserting(t)

Handed(t) == \E d \in Drivers : t \in fns[d]
Spent == ran \cup skipped

\* A one-shot timer is in exactly one place - armed, handed to one driver,
\* run, or cancelled: it is never lost, never fires twice, and never fires
\* after a cancel that returned true.
OneShotFate ==
  \A t \in created : ~m_cyclic[t] =>
     /\ m_fn[t] \/ Handed(t) \/ t \in Spent \/ t \in cancelled
     /\ m_fn[t] => ~Handed(t) /\ t \notin Spent /\ t \notin cancelled
     /\ Handed(t) => t \notin Spent /\ t \notin cancelled
     /\ t \in cancelled => t \notin Spent
     /\ \A d, e \in Drivers : t \in fns[d] /\ t \in fns[e] => d = e

\* No call that was already under way when cancel returned true (a reset past
\* its unlocked tests, the re-insertion of a periodic timer) queues it again.
CancelledStaysOut == \A t \in cancelled : t \notin m_timers /\ ~m_fn[t]

\* No lost wake-up: when every driver sleeps, no wake-up is pending and no
\* client is about to post one, some driver's timeout ends by the deadline of
\* each queued timer - as long as the clock was never set back.
NoLostWakeup ==
  (/\ steady
   /\ \A d \in Drivers : dpc[d] = "wait"
   /\ ~tickled
   /\ \A c \in Clients : pc[c] # "notify")
  => \A t \in m_timers :
        \E d \in Drivers : wait[d] = 0 \/ wait[d] <= m_next[t] - now

\* When the timer's current period began, by its own fields.
PeriodStart(t) == U64(m_next[t] - m_ms[t])

\* A thread whose now_ms (timer.cpp:171) is over an hour old, while others collect.
Stalled(d) == now > nowMs[d] + Hour /\ \E e \in Drivers : e # d

\* No early expiry on a clock that was never set back: a callback is handed out
\* only when the whole of its period has passed, whatever other threads reset,
\* refreshed, or collected between this thread's reading of the clock and its
\* lock.  What the hour of detectClockRollover is for: a thread that another
\* has overtaken does not take its old time for a clock that was set back,
\* unless it stood still for more than that hour (timer.cpp:171, 182, 224-231).
NoEarlyExpiry ==
  [][steady => \A d \in Drivers : \A t \in fns'[d] \ fns[d] :
        now >= PeriodStart(t) + m_ms[t] \/ Stalled(d)]_vars

\* A one-shot timer whose deadline the clock reaches is run in the end, unless
\* it is cancelled, put off beyond the clock's bound, its condition is gone,
\* or the process crashes.
OneShotConcludes ==
  \A t \in Timers :
     (t \in created /\ ~m_cyclic[t]) ~>
        \/ t \in ran \/ t \in cancelled
        \/ t \in skipped /\ t \in condGone
        \/ m_next[t] > MaxTime
        \/ crashed

\* What a client is promised, with the lock, the clock and the threads'
\* interleavings hidden: see TimerContract.
Contract == INSTANCE TimerContract WITH
  fresh <- Timers \ created,
  armed <- {t \in created : m_fn[t]},
  periodic <- m_cyclic,
  handed <- fns

ImplementsContract == Contract!Spec

\* listExpiredCallback says of its early return "the clock was not set back
\* and no timer has expired" (timer.cpp:183): with no timer at all it should
\* return too, and never look at the first element of an empty queue.
NeverPastTheEnd == ~crashed
=============================================================================
