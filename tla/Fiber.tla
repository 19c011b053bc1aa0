------------------------------- MODULE Fiber -------------------------------
(***************************************************************************)
(* Fibers (src/fiber.cpp) and the task list they wait in (scheduler.h).    *)
(*                                                                         *)
(* A context m_ctx holds a flow of control: the thread's own, or the one   *)
(* on a fiber's stack.  swapcontext stores the flow that runs and resumes  *)
(* another; a context whose flow has since gone on is stale, and to resume *)
(* it is undefined.  Each thread has a master fiber, an object named after *)
(* the thread.  In a worker the scheduler runs in the master; in the root  *)
(* thread (use_caller) it runs in the fiber Root, which the master calls.  *)
(* Scheduler::run, GetMainFiber and the rest of scheduler.cpp are not in   *)
(* the repository: a thread takes a waiting fiber out of the task list,    *)
(* swaps it in, and keeps the task until its own flow goes on.             *)
(*                                                                         *)
(* A fiber lives as long as a shared_ptr to it: its owner's, a task's, or  *)
(* the one MainFunc has on the fiber's own stack.                          *)
(***************************************************************************)
EXTENDS Integers, Sequences, SequencesExt

CONSTANTS Threads,    \* the threads, and the names of their master fibers
          RootThread, \* the thread that constructed the scheduler
          Fibers,     \* the fiber objects
          Root,       \* m_root_fiber
          None        \* a null pointer

FiberAssumption ==
  /\ RootThread \in Threads /\ Root \in Fibers
  /\ Threads \cap Fibers = {}
  /\ {None, "none", "fresh", "stale"} \cap (Threads \union Fibers) = {}
ASSUME FiberAssumption

VARIABLES
  t_fiber,     \* t_fiber[th]: the thread-local pointer
  run,         \* run[th]: the flow that executes; None when th has ended
  pc,          \* pc[th]: "run", or "back" or "swapOut" when such a call is next
  m_state,     \* m_state[o]: a State, "NONE" before and "GONE" after o's life
  m_ctx,       \* m_ctx[o]: the flow stored, "fresh", "stale" or "none"
  flow,        \* flow[f]: "unborn", "begun" or "over", for the stack of f
  caller,      \* history: the flow that swapped f in, while f is swapped in
  m_task_list, \* the scheduler's queue
  held,        \* the fibers to which their owner has a shared_ptr
  taken,       \* taken[th]: the task the scheduler in th has taken, or None
  tickled,     \* history: tickle was called since the queue was last empty
  s_fiber_count,
  thrown,      \* history: an exception has left a callback
  early,       \* history: a fiber was scheduled before it had swapped out
  letGo,       \* history: a fiber was let go of by its owner while in call
  failed       \* "none", "assert", "stale": a stale context was resumed, or
               \* "freed": a fiber was destroyed by the flow on its stack

threadSt == <<t_fiber, run, pc>>
queueSt  == <<m_task_list, taken, tickled>>
history  == <<thrown, early, letGo>>
vars == <<threadSt, m_state, m_ctx, flow, caller, queueSt, held, s_fiber_count,
          history, failed>>

Objects == Threads \union Fibers
Waiting == {"INIT", "READY", "HOLD"}
Over    == {"INIT", "TERM", "EXCEPTION"}

\* Scheduler::GetMainFiber()
MainFiber(th) == IF th = RootThread THEN Root ELSE th

Runs(th) == failed = "none" /\ pc[th] = "run" /\ run[th] # None
HasMaster(th) == m_state[th] = "EXEC"
Queued(f) == Contains(m_task_list, f)

\* A task is a fiber that runs on th, other than the scheduler's own.
InTask(th) == Runs(th) /\ run[th] \in Fibers \ {Root}

Init ==
  /\ t_fiber = [th \in Threads |-> None]
  /\ run = [th \in Threads |-> th]
  /\ pc = [th \in Threads |-> "run"]
  /\ m_state = [o \in Objects |-> "NONE"]
  /\ m_ctx = [o \in Objects |-> "none"]
  /\ flow = [f \in Fibers |-> "unborn"]
  /\ caller = [f \in Fibers |-> None]
  /\ m_task_list = <<>> /\ tickled = FALSE
  /\ held = {} /\ taken = [th \in Threads |-> None]
  /\ s_fiber_count = 0
  /\ thrown = FALSE /\ early = FALSE /\ letGo = FALSE
  /\ failed = "none"

---------------------------------------------------------------------------
(* Construction, reset and destruction. *)

\* GetThis() in a thread without fibers: Fiber::Fiber() makes the master.
GetThis(th) ==
  /\ Runs(th)
  /\ t_fiber[th] = None /\ m_state[th] = "NONE"
  /\ t_fiber' = [t_fiber EXCEPT ![th] = th]
  /\ m_state' = [m_state EXCEPT ![th] = "EXEC"]
  /\ m_ctx' = [m_ctx EXCEPT ![th] = "stale"]
  /\ s_fiber_count' = s_fiber_count + 1
  /\ UNCHANGED <<run, pc, flow, caller, queueSt, held, history, failed>>

Create(th, f) ==
  /\ Runs(th)
  /\ m_state[f] = "NONE"
  /\ m_state' = [m_state EXCEPT ![f] = "INIT"]
  /\ m_ctx' = [m_ctx EXCEPT ![f] = "fresh"]
  /\ s_fiber_count' = s_fiber_count + 1
  /\ held' = held \union {f}
  /\ UNCHANGED <<threadSt, flow, caller, queueSt, history, failed>>

\* What the owner of a fiber may reset: one that nobody has swapped in or
\* queued, and that has not begun, or is over.
Spare(f) ==
  /\ f \in held
  /\ caller[f] = None /\ ~Queued(f)
  /\ flow[f] # "begun"

Reset(th, f) ==
  /\ Runs(th) /\ Spare(f)
  /\ IF m_state[f] \in Over
     THEN /\ m_state' = [m_state EXCEPT ![f] = "INIT"]
          /\ m_ctx' = [m_ctx EXCEPT ![f] = "fresh"]
          /\ flow' = [flow EXCEPT ![f] = "unborn"]
          /\ UNCHANGED failed
     ELSE failed' = "assert" /\ UNCHANGED <<m_state, m_ctx, flow>>
  /\ UNCHANGED <<threadSt, caller, queueSt, held, s_fiber_count, history>>

Taken(f) == \E th \in Threads : taken[th] = f

\* Wrong variant: the scheduler gives up the shared_ptr when it takes a task.
OnlyQueued(f) == Queued(f)

\* A task, in the list or taken out, has a shared_ptr to its fiber.
TaskOwns(f) == Queued(f) \/ Taken(f)

\* So has MainFunc, on the fiber's own stack, until the callback is over.
OwnsItself(f) == flow[f] = "begun"

\* Fiber::~Fiber of a fiber with a stack, run by whoever has the last
\* shared_ptr, the fiber having come to the state s: with its stack, on which
\* a flow may still run.  The counter is left alone.
Destroyed(f, s) ==
  LET runs == caller[f] # None IN
  /\ m_state' = [m_state EXCEPT ![f] = IF s \in Over /\ ~runs THEN "GONE" ELSE s]
  /\ failed' = IF s \notin Over THEN "assert" ELSE IF runs THEN "freed" ELSE failed

\* The owner lets go of a fiber at any time; the scheduler's own fiber is a
\* member of the scheduler, and stays while it runs.
Drop(th, f) ==
  /\ Runs(th) /\ f \in held
  /\ f = Root => flow[f] # "begun"
  /\ held' = held \ {f}
  /\ letGo' = (letGo \/ \E o \in Threads : run[o] = f /\ taken[o] # f)
  /\ IF TaskOwns(f) \/ OwnsItself(f)
     THEN UNCHANGED <<m_state, failed>> ELSE Destroyed(f, m_state[f])
  /\ UNCHANGED <<threadSt, m_ctx, flow, caller, queueSt, s_fiber_count, thrown,
                 early>>

\* The scheduler's flow goes on and is done with the task it took.
LetGo(th) ==
  LET f == taken[th] IN
  /\ Runs(th) /\ run[th] = MainFiber(th) /\ f # None
  /\ taken' = [taken EXCEPT ![th] = None]
  /\ IF \/ f \in held \/ Queued(f) \/ OwnsItself(f)
        \/ \E other \in Threads \ {th} : taken[other] = f
     THEN UNCHANGED <<m_state, failed>> ELSE Destroyed(f, m_state[f])
  /\ UNCHANGED <<threadSt, m_ctx, flow, caller, m_task_list, tickled, held,
                 s_fiber_count, history>>

\* Wrong variant: the master's destructor leaves t_fiber alone.
ThisKept(th) == t_fiber

ThisCleared(th) ==
  IF t_fiber[th] = th THEN [t_fiber EXCEPT ![th] = None] ELSE t_fiber

\* The thread ends, and with it t_master_fiber.
ThreadExit(th) ==
  /\ Runs(th) /\ run[th] = th
  /\ m_state[th] \notin {"NONE", "GONE"}
  /\ IF m_state[th] = "EXEC"
     THEN /\ m_state' = [m_state EXCEPT ![th] = "GONE"]
          /\ t_fiber' = ThisCleared(th)
          /\ run' = [run EXCEPT ![th] = None]
          /\ UNCHANGED failed
     ELSE failed' = "assert" /\ UNCHANGED <<m_state, t_fiber, run>>
  /\ UNCHANGED <<pc, m_ctx, flow, caller, queueSt, held, s_fiber_count, history>>

---------------------------------------------------------------------------
(* Switching. *)

\* Wrong variant: the context is not stored (setcontext for swapcontext).
NotStored(th, from) == m_ctx

Stored(th, from) == [m_ctx EXCEPT ![from] = run[th]]

\* swapcontext(&from->m_ctx, &to->m_ctx) in thread th.  The flow that goes on
\* leaves every context that holds it stale.
SwapContext(th, from, to) ==
  LET stored == Stored(th, from)
      next   == IF stored[to] = "fresh" THEN to ELSE stored[to] IN
  IF stored[to] \in {"none", "stale"}
  THEN failed' = "stale" /\ UNCHANGED <<m_ctx, run>>
  ELSE /\ m_ctx' = [o \in Objects |-> IF o = to \/ stored[o] = next
                                      THEN "stale" ELSE stored[o]]
       /\ run' = [run EXCEPT ![th] = next]
       /\ UNCHANGED failed

\* What call and both swapIn do with the fiber f, storing into from.  A fresh
\* flow enters MainFunc, where GetThis() is f.
SwapInFrom(th, from, f) ==
  /\ t_fiber' = [t_fiber EXCEPT ![th] = f]
  /\ m_state' = [m_state EXCEPT ![f] = "EXEC"]
  /\ flow' = [flow EXCEPT ![f] = "begun"]
  /\ caller' = [caller EXCEPT ![f] = run[th]]
  /\ SwapContext(th, from, f)
  /\ UNCHANGED <<pc, held, s_fiber_count, history>>

\* call(): by the thread's own flow; in the root thread, to start Root.
Call(th, f) ==
  /\ Runs(th) /\ run[th] = th /\ HasMaster(th)
  /\ (th = RootThread) <=> (f = Root)
  /\ caller[f] = None /\ ~Queued(f)
  /\ m_state[f] \in Waiting /\ f \in held
  /\ SwapInFrom(th, th, f)
  /\ UNCHANGED queueSt

\* swapIn(), or swapIn(fiber) with the scheduler's own fiber: the scheduler
\* takes a task that waits, and only such a task, out of the list.
SwapIn(th, f) ==
  /\ Runs(th) /\ run[th] = MainFiber(th) /\ HasMaster(th)
  /\ m_state[f] \in Waiting /\ taken[th] = None
  /\ \E i \in 1 .. Len(m_task_list) :
       m_task_list[i] = f /\ m_task_list' = RemoveAt(m_task_list, i)
  /\ taken' = [taken EXCEPT ![th] = f]
  /\ tickled' = (tickled /\ m_task_list' # <<>>)
  /\ SwapInFrom(th, MainFiber(th), f)

\* swapOut(fiber) with the scheduler's own fiber.  It leaves m_state alone.
SwapOutTo(th) ==
  LET f == run[th] to == MainFiber(th) IN
  /\ InTask(th)
  /\ t_fiber' = [t_fiber EXCEPT ![th] = to]
  /\ caller' = [caller EXCEPT ![f] = None]
  /\ SwapContext(th, f, to)
  /\ UNCHANGED <<pc, m_state, flow, queueSt, held, s_fiber_count, history>>

\* Yield and YieldToHold up to the call of back or swapOut: from here on other
\* threads see the state HOLD.
Yield(th) ==
  /\ InTask(th)
  /\ m_state' = [m_state EXCEPT ![t_fiber[th]] = "HOLD"]
  /\ pc' = [pc EXCEPT ![th] = "back"]
  /\ UNCHANGED <<t_fiber, run, m_ctx, flow, caller, queueSt, held,
                 s_fiber_count, history, failed>>

YieldToHold(th) ==
  /\ InTask(th)
  /\ m_state' = [m_state EXCEPT ![t_fiber[th]] = "HOLD"]
  /\ pc' = [pc EXCEPT ![th] = "swapOut"]
  /\ UNCHANGED <<t_fiber, run, m_ctx, flow, caller, queueSt, held,
                 s_fiber_count, history, failed>>

\* Wrong variant: the end of a fiber goes back to the master everywhere.
NeverReturnsToMain(th) == FALSE

\* MainFunc's choice between swapOut and back.
ReturnsToMain(th) == th = RootThread /\ run[th] # Root

EndState == "TERM"

\* The rest of MainFunc, the callback over: an exception leaves the state EXEC.
\* MainFunc then gives up its shared_ptr.  If that was the last, the fiber and
\* the stack it runs on are gone.
MainFunc(th) ==
  LET f == run[th] IN
  /\ Runs(th) /\ f \in Fibers
  /\ \E end \in {EndState, "EXEC"} :
       /\ thrown' = (thrown \/ end # EndState)
       /\ IF f \in held \/ TaskOwns(f)
          THEN m_state' = [m_state EXCEPT ![f] = end] /\ UNCHANGED failed
          ELSE Destroyed(f, end)
  /\ flow' = [flow EXCEPT ![f] = "over"]
  /\ pc' = [pc EXCEPT ![th] = IF ReturnsToMain(th) THEN "swapOut" ELSE "back"]
  /\ UNCHANGED <<t_fiber, run, m_ctx, caller, queueSt, held, s_fiber_count,
                 early, letGo>>

\* Wrong variant: t_fiber still points to the fiber that was left.
ThisUnchanged(th) == t_fiber

ThisIsMaster(th) == [t_fiber EXCEPT ![th] = th]

\* back() and swapOut() on the current fiber, which for Yield is t_fiber and
\* for MainFunc the fiber that was current when it began.
Leave(th) ==
  LET f  == IF flow[run[th]] = "over" THEN run[th] ELSE t_fiber[th]
      to == IF pc[th] = "back" THEN th ELSE MainFiber(th) IN
  /\ failed = "none" /\ pc[th] \in {"back", "swapOut"}
  /\ pc' = [pc EXCEPT ![th] = "run"]
  /\ t_fiber' = ThisIsMaster(th)
  /\ caller' = [caller EXCEPT ![run[th]] = None]
  /\ SwapContext(th, f, to)
  /\ UNCHANGED <<m_state, flow, queueSt, held, s_fiber_count, history>>

---------------------------------------------------------------------------
(* schedule *)

\* Who has a shared_ptr to f to schedule: its owner, or th, in which it runs
\* or the scheduler has taken it.  A task may be scheduled while it runs.
MaySchedule(th, f) ==
  /\ f # Root /\ ~Queued(f)
  /\ m_state[f] \in Waiting \union {"EXEC"} /\ flow[f] # "over"
  /\ f \in held \/ run[th] = f \/ taken[th] = f

\* Wrong variant: the batch goes by the answer for its last task.
AnswerOfLast(tasks) == (m_task_list \o Front(tasks)) = <<>>

\* Every task is asked for an answer, and one that found the list empty is
\* enough.  The first does if any does; also a null task may be the one.
NeedTickle(tasks) == m_task_list = <<>>

\* scheduleNonBlock for each task in turn: it goes to the end of the list,
\* instant or not, and a null task nowhere.
Pushed(f) == IF f = None THEN <<>> ELSE <<f>>
AllPushed(tasks) ==
  IF Len(tasks) = 1 THEN Pushed(tasks[1]) ELSE Pushed(tasks[1]) \o Pushed(tasks[2])

Schedule(th, tasks) ==
  LET some == AllPushed(tasks) IN
  /\ Runs(th)
  /\ \A f \in ToSet(some) : MaySchedule(th, f)
  /\ m_task_list' = m_task_list \o some
  /\ early' = (early \/ \E f \in ToSet(some) : caller[f] # None)
  /\ pc' = [pc EXCEPT ![th] = IF NeedTickle(tasks) THEN "tickle" ELSE "run"]
  /\ UNCHANGED <<t_fiber, run, m_state, m_ctx, flow, caller, taken, tickled, held,
                 s_fiber_count, thrown, letGo, failed>>

\* After the unlock.
Tickle(th) ==
  /\ failed = "none" /\ pc[th] = "tickle"
  /\ pc' = [pc EXCEPT ![th] = "run"]
  /\ tickled' = TRUE
  /\ UNCHANGED <<t_fiber, run, m_state, m_ctx, flow, caller, m_task_list, taken,
                 held, s_fiber_count, history, failed>>

\* One task, or a batch of two.
Batches ==
  LET Tasks == (Fibers \ {Root}) \union {None} IN
  {<<f>> : f \in Tasks} \union {<<f, g>> : f \in Tasks, g \in Tasks}

Next ==
  \E th \in Threads :
    \/ GetThis(th) \/ ThreadExit(th)
    \/ SwapOutTo(th) \/ Yield(th) \/ YieldToHold(th) \/ MainFunc(th) \/ Leave(th)
    \/ LetGo(th) \/ Tickle(th)
    \/ \E tasks \in Batches : IsInjective(tasks) /\ Schedule(th, tasks)
    \/ \E f \in Fibers :
         \/ Create(th, f) \/ Reset(th, f) \/ Drop(th, f)
         \/ Call(th, f) \/ SwapIn(th, f)

Spec == Init /\ [][Next]_vars

---------------------------------------------------------------------------
(* Properties. *)

\* The shape of the state; t_fiber is null or points to a living object.
TypeOK ==
  /\ t_fiber \in [Threads -> {o \in Objects : m_state[o] \notin {"NONE", "GONE"}}
                               \union {None}]
  /\ run \in [Threads -> Objects \union {None}]
  /\ pc \in [Threads -> {"run", "back", "swapOut", "tickle"}]
  /\ m_state \in [Objects -> Waiting \union Over \union {"NONE", "EXEC", "GONE"}]
  /\ m_ctx \in [Objects -> Objects \union {"none", "fresh", "stale"}]
  /\ flow \in [Fibers -> {"unborn", "begun", "over"}]
  /\ caller \in [Fibers -> Objects \union {None}]
  /\ m_task_list \in Seq(Fibers) /\ tickled \in BOOLEAN
  /\ held \subseteq Fibers /\ taken \in [Threads -> Fibers \union {None}]
  /\ s_fiber_count \in Nat
  /\ thrown \in BOOLEAN /\ early \in BOOLEAN /\ letGo \in BOOLEAN
  /\ failed \in {"none", "assert", "stale", "freed"}

\* t_fiber is the fiber that runs (fiber.h:124), in every thread with a master
\* fiber - but for the scheduler's own fiber in the root thread, to which
\* swapOut returns with t_fiber set to the master (fiber.cpp:163).
RunningIsThis ==
  \A th \in Threads : failed = "none" /\ HasMaster(th) =>
     t_fiber[th] = run[th] \/ (th = RootThread /\ run[th] = Root /\ t_fiber[th] = th)

\* No thread resumes a context whose flow has gone on (fiber.cpp:152 and the
\* other swaps), unless a fiber was scheduled before it had swapped out: its
\* state is HOLD before its context is stored (fiber.cpp:261).
NoStaleResume == failed = "stale" => early

\* A fiber that waits has in its context what will resume it: the entry of
\* MainFunc, or its own flow (fiber.cpp:82, 136 and the swaps that leave it).
WaitingIsResumable ==
  \A f \in Fibers :
    /\ m_state[f] = "INIT" => m_ctx[f] = "fresh"
    /\ m_state[f] = "HOLD" /\ caller[f] = None => m_ctx[f] = f

\* A fiber that is swapped out or ends gives control back to the flow that
\* swapped it in (fiber.cpp:314) - but for a task that calls Yield in the root
\* thread, which goes past the scheduler to the master.
BackToCaller ==
  [][\A f \in Fibers :
       caller[f] # None /\ caller'[f] = None /\ failed' = "none" =>
         \E th \in Threads :
           /\ run[th] = f
           /\ \/ run'[th] = caller[f]
              \/ flow[f] = "begun" /\ pc[th] = "back" /\ th = RootThread]_vars

\* The assertions of reset and of both destructors (fiber.cpp:110, 117, 128)
\* hold for fibers that are unborn or over, until an exception leaves one.
AssertionsHold == failed = "assert" => thrown

\* A task that is scheduled and forgotten lives until its end has been left: a
\* fiber is destroyed by the flow on its stack (fiber.cpp:313), or under it by
\* another thread, only when its owner let go of it while it was in call.
ForgottenTasksAreSafe == failed = "freed" => letGo

\* Nothing undefined happens and no assertion fails, in any order of calls of
\* several threads, but after an exception has left a callback, a fiber was
\* scheduled before it had swapped out, or its owner let go of it in call.
FailuresAreKnown == NoStaleResume /\ AssertionsHold /\ ForgottenTasksAreSafe

\* While tasks are queued, tickle was called after the first of them came, or
\* a thread is about to call it, whoever schedules, one or a batch, and takes
\* tasks meanwhile (scheduler.h:100 and 120).
QueuedIsTickled ==
  m_task_list # <<>> => tickled \/ \E th \in Threads : pc[th] = "tickle"

\* finish() tells whether a fiber's execution has ended (fiber.h:78), so that
\* a fiber that is over is found to be.
OverIsFinished ==
  \A f \in Fibers :
    flow[f] = "over" => m_state[f] \in {"TERM", "EXCEPTION", "GONE"}
=============================================================================
