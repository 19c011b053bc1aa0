------------------------------ MODULE Thread ------------------------------
(***************************************************************************)
(* Class Thread and struct ThreadData: src/thread.cpp.  A thread object is *)
(* made, joined and destroyed by one process, main or the callback of      *)
(* another thread; an object made in a callback lives in its scope, so it  *)
(* is gone when the callback is left.  The handshake between constructor   *)
(* and child goes over the semaphore and two pointers into the object.     *)
(* pthread_create, sem_wait and pthread_join are external.                 *)
(***************************************************************************)
EXTENDS Integers

CONSTANTS Threads, \* the thread objects, each with the child it starts
          Main     \* the main thread

ThreadAssumption == Main \notin Threads
ASSUME ThreadAssumption

VARIABLES
  obj,       \* obj[t]: "none", "starting" (inside the constructor), "built",
             \* "joining", "threw" (the constructor did) or "destroyed"
  maker,     \* maker[t]: the process that constructs t
  child,     \* child[t]: "none", "born", "half" (id written), "running" (inside
             \* m_callback) or "ended"
  m_id,      \* m_id[t]: the member, -1 until the child writes its id
  sem,       \* sem[t]: the count of m_semaphore
  m_started, \* the members m_started and m_joined of each object
  m_joined,
  data,      \* data[t]: how often the ThreadData was allocated and freed
  handle,    \* handle[t]: how often the pthread was created and released
  dangling,  \* history: the objects a child wrote into when they were gone
  failed     \* "none", or what ended the process: "abort", "terminate",
             \* or a failed assertion, "id" (line 100) or "joined" (line 111)

object == <<obj, maker, m_started, m_joined>>
vars == <<object, child, m_id, sem, data, handle, dangling, failed>>

Procs == Threads \union {Main}
Running(p) == failed = "none" /\ (p \in Threads => child[p] = "running")
Busy(p) == \E t \in Threads : maker[t] = p /\ obj[t] \in {"starting", "joining"}
Live(t) == obj[t] \in {"starting", "built", "joining"}

Init ==
  /\ obj = [t \in Threads |-> "none"]
  /\ maker = [t \in Threads |-> Main]
  /\ child = [t \in Threads |-> "none"]
  /\ m_id = [t \in Threads |-> -1]
  /\ sem = [t \in Threads |-> 0]
  /\ m_started = [t \in Threads |-> TRUE]
  /\ m_joined = [t \in Threads |-> FALSE]
  /\ data = [t \in Threads |-> [made |-> 0, freed |-> 0]]
  /\ handle = [t \in Threads |-> [made |-> 0, released |-> 0]]
  /\ dangling = {}
  /\ failed = "none"

Freed(t) == [data EXCEPT ![t].freed = @ + 1]
Released(t) == [handle EXCEPT ![t].released = @ + 1]

\* FATAL(...): the process aborts, or goes on when the level drops the line.
Fatal == failed' \in {"none", "abort"}

---------------------------------------------------------------------------
(* The constructor. *)

\* Wrong variant: the constructor goes on without waiting for the child.
BuiltAtOnce == "built"

Pending == "starting"

\* Thread::Thread up to m_semaphore.wait().
Construct(p, t) ==
  /\ Running(p) /\ ~Busy(p)
  /\ obj[t] = "none"
  /\ obj' = [obj EXCEPT ![t] = Pending]
  /\ maker' = [maker EXCEPT ![t] = p]
  /\ data' = [data EXCEPT ![t].made = 1]
  /\ handle' = [handle EXCEPT ![t].made = 1]
  /\ child' = [child EXCEPT ![t] = "born"]
  /\ UNCHANGED <<m_started, m_joined, m_id, sem, dangling, failed>>

DataAfterFailure(t) == [data EXCEPT ![t] = [made |-> 1, freed |-> 1]]

\* pthread_create fails: the constructor frees the data and throws, and the
\* object is never there.
ConstructFails(p, t) ==
  /\ Running(p) /\ ~Busy(p)
  /\ obj[t] = "none"
  /\ data' = DataAfterFailure(t)
  /\ m_started' = [m_started EXCEPT ![t] = FALSE]
  /\ obj' = [obj EXCEPT ![t] = "threw"]
  /\ maker' = [maker EXCEPT ![t] = p]
  /\ Fatal
  /\ UNCHANGED <<m_joined, child, m_id, sem, handle, dangling>>

\* wait() comes back, and the assertion on m_id is tested.
Constructed(t) ==
  /\ Running(maker[t])
  /\ obj[t] = "starting"
  /\ sem[t] > 0
  /\ sem' = [sem EXCEPT ![t] = @ - 1]
  /\ IF m_id[t] > 0
     THEN obj' = [obj EXCEPT ![t] = "built"] /\ UNCHANGED failed
     ELSE failed' = "id" /\ UNCHANGED obj
  /\ UNCHANGED <<maker, m_started, m_joined, child, m_id, data, handle, dangling>>

\* A signal handler interrupts sem_wait: wait() throws and the object is gone,
\* while its child goes on.
WaitInterrupted(t) ==
  /\ Running(maker[t])
  /\ obj[t] = "starting"
  /\ sem[t] = 0
  /\ obj' = [obj EXCEPT ![t] = "threw"]
  /\ Fatal
  /\ UNCHANGED <<maker, m_started, m_joined, child, m_id, sem, data, handle, dangling>>

---------------------------------------------------------------------------
(* The child: Thread::Run and ThreadData::runInThread. *)

\* A write through m_id or m_semaphore reaches the object, or freed memory.
Touch(t) == dangling' = IF Live(t) THEN dangling ELSE dangling \union {t}

\* What the child writes next, the id (line 56) or the semaphore (line 58).
Writes(stage) == IF stage = "born" THEN "id" ELSE "notify"

\* The stage after a write.
After(stage) == IF stage = "born" THEN "half" ELSE "running"

WriteId(t) ==
  /\ failed = "none"
  /\ child[t] \in {"born", "half"} /\ Writes(child[t]) = "id"
  /\ child' = [child EXCEPT ![t] = After(@)]
  /\ m_id' = [m_id EXCEPT ![t] = 1]
  /\ Touch(t)
  /\ UNCHANGED <<object, sem, data, handle, failed>>

\* Wrong variant: the semaphore is not posted.
NotPosted(t) == sem

Posted(t) == [sem EXCEPT ![t] = @ + 1]

Notify(t) ==
  /\ failed = "none"
  /\ child[t] \in {"born", "half"} /\ Writes(child[t]) = "notify"
  /\ child' = [child EXCEPT ![t] = After(@)]
  /\ sem' = Posted(t)
  /\ Touch(t)
  /\ UNCHANGED <<object, m_id, data, handle, failed>>

\* What a callback leaves behind: no object of its scope, no call under way.
ScopeLeft(t) ==
  /\ ~Busy(t)
  /\ \A u \in Threads : maker[u] = t => ~Live(u)

Ends(t) ==
  /\ child' = [child EXCEPT ![t] = "ended"]
  /\ data' = Freed(t)
  /\ UNCHANGED <<object, m_id, sem, handle, dangling>>

\* The callback returns and the unique_ptr in Run frees the data.
CallbackReturns(t) ==
  /\ Running(t) /\ ScopeLeft(t)
  /\ Ends(t)
  /\ UNCHANGED failed

\* A std::exception leaves the callback and is caught in runInThread.
CallbackThrows(t) ==
  /\ Running(t) /\ ScopeLeft(t)
  /\ Fatal
  /\ IF failed' = "none" THEN Ends(t)
     ELSE UNCHANGED <<object, child, m_id, sem, data, handle, dangling>>

\* Anything else that is thrown leaves Run too.
CallbackThrowsOther(t) ==
  /\ Running(t) /\ ScopeLeft(t)
  /\ failed' = "terminate"
  /\ UNCHANGED <<object, child, m_id, sem, data, handle, dangling>>

---------------------------------------------------------------------------
(* The other operations. *)

\* Wrong variant: join leaves m_joined alone.
NotNoted(t) == m_joined

Joined(t) == [m_joined EXCEPT ![t] = TRUE]

\* join() up to pthread_join; a second call fails the assertion.
Join(t) ==
  LET p == maker[t] IN
  /\ Running(p) /\ ~Busy(p)
  /\ obj[t] = "built"
  /\ m_started[t]
  /\ IF m_joined[t]
     THEN failed' = "joined" /\ UNCHANGED <<obj, m_joined>>
     ELSE /\ m_joined' = Joined(t)
          /\ obj' = [obj EXCEPT ![t] = "joining"]
          /\ UNCHANGED failed
  /\ UNCHANGED <<maker, m_started, child, m_id, sem, data, handle, dangling>>

\* pthread_join returns when the child has ended.
JoinReturns(t) ==
  /\ Running(maker[t])
  /\ obj[t] = "joining"
  /\ child[t] = "ended"
  /\ obj' = [obj EXCEPT ![t] = "built"]
  /\ handle' = Released(t)
  /\ UNCHANGED <<maker, m_started, m_joined, child, m_id, sem, data, dangling, failed>>

MustDetach(t) == m_started[t] /\ ~m_joined[t]

\* Thread::~Thread.
Destroy(t) ==
  LET p == maker[t] IN
  /\ Running(p) /\ ~Busy(p)
  /\ obj[t] = "built"
  /\ obj' = [obj EXCEPT ![t] = "destroyed"]
  /\ handle' = IF MustDetach(t) THEN Released(t) ELSE handle
  /\ UNCHANGED <<maker, m_started, m_joined, child, m_id, sem, data, dangling, failed>>

Make == \E p \in Procs, t \in Threads : Construct(p, t) \/ ConstructFails(p, t)
Child(t) ==
  \/ WriteId(t) \/ Notify(t)
  \/ CallbackReturns(t) \/ CallbackThrows(t) \/ CallbackThrowsOther(t)
Use(t) ==
  \/ Constructed(t) \/ WaitInterrupted(t)
  \/ Join(t) \/ JoinReturns(t) \/ Destroy(t)

Next == Make \/ \E t \in Threads : Child(t) \/ Use(t)

Spec == Init /\ [][Next]_vars

(***************************************************************************)
(* Threads that can run do run.  A callback is assumed to come to its end, *)
(* with the objects of its scope destroyed; nobody has to construct        *)
(* anything, or to interrupt anything.                                     *)
(***************************************************************************)
Fairness ==
  \A t \in Threads :
    /\ WF_vars(WriteId(t)) /\ WF_vars(Notify(t))
    /\ WF_vars(Constructed(t)) /\ WF_vars(JoinReturns(t))
    /\ SF_vars(Destroy(t)) /\ WF_vars(CallbackReturns(t))

FairSpec == Spec /\ Fairness

---------------------------------------------------------------------------
(* Properties. *)

\* The shape of the state; nothing is posted, freed or released twice.
TypeOK ==
  /\ obj \in [Threads -> {"none", "starting", "built", "joining", "threw", "destroyed"}]
  /\ maker \in [Threads -> Procs]
  /\ child \in [Threads -> {"none", "born", "half", "running", "ended"}]
  /\ m_id \in [Threads -> {-1, 1}]
  /\ sem \in [Threads -> 0 .. 1]
  /\ m_started \in [Threads -> BOOLEAN]
  /\ m_joined \in [Threads -> BOOLEAN]
  /\ data \in [Threads -> [made : 0 .. 1, freed : 0 .. 1]]
  /\ handle \in [Threads -> [made : 0 .. 1, released : 0 .. 1]]
  /\ dangling \in SUBSET Threads
  /\ failed \in {"none", "abort", "terminate", "id", "joined"}

\* When the constructor's wait is over the child has written its id: the
\* assertion assert(m_id > 0) of thread.cpp:100 never fails.
HandshakeHolds == failed # "id"

\* The child stops using the pointers into the object before the constructor
\* lets anybody destroy it (runInThread clears m_id and m_semaphore for that,
\* thread.cpp:57): the only objects it can write into when they are gone are
\* those whose constructor was interrupted by a signal.
NoDanglingWrite == \A t \in dangling : obj[t] = "threw"

\* The constructor and its child keep their bargain: the child has written
\* before the constructor looks, and not after it has returned (thread.cpp:57
\* and 100).
HandshakeSafe == HandshakeHolds /\ NoDanglingWrite

\* The ThreadData has one owner at any time, the constructor or the child
\* (thread.cpp:93 and 117): it is freed when the child has ended or could not
\* be created, not before, and once.
DataFreedOnce ==
  \A t \in Threads :
    data[t].freed = IF child[t] = "ended" \/ (obj[t] = "threw" /\ ~m_started[t])
                    THEN 1 ELSE 0

\* join and the destructor share one pthread (m_joined, thread.cpp:106): it
\* is joined or detached once, and when the object is destroyed it has been.
HandleReleasedOnce ==
  \A t \in Threads :
    /\ handle[t].released <= handle[t].made
    /\ obj[t] = "destroyed" => handle[t].released = 1

\* What a thread object acquires is released once, on every path: ended or
\* not, joined or not, created or not (thread.cpp:93, 106 and 117).
ReleasedOnce == DataFreedOnce /\ HandleReleasedOnce

\* A constructor returns or throws, and a call of join comes back, in every
\* nesting of threads that make threads (thread.cpp:99 and 113).
CallsReturn ==
  \A t \in Threads :
    obj[t] \in {"starting", "joining"} ~>
      obj[t] \in {"built", "threw", "destroyed"} \/ failed # "none"
=============================================================================
