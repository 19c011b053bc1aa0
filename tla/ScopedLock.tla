---------------------------- MODULE ScopedLock ----------------------------
(***************************************************************************)
(* The guards of include/thread.h: ScopedLockImpl over a Mutex, and        *)
(* ReadScopedLockImpl and WriteScopedLockImpl over an RWLock.  A guard is  *)
(* a local of one thread; it may be unlocked and locked again before its   *)
(* scope ends.  The pthread locks below are external: what is modelled of  *)
(* them is what the guards rely on, together with the error that           *)
(* pthread_rwlock_rdlock and _wrlock return to a thread that already holds *)
(* the lock for writing.  Mutex and RWLock hand such errors on and every   *)
(* guard drops them.                                                       *)
(***************************************************************************)
EXTENDS Integers, FiniteSets

CONSTANTS Threads,  \* the threads
          Locks,    \* the objects of class Mutex and RWLock
          Guards,   \* the guard objects
          Owner,    \* Owner[g]: the thread in whose scope g lives
          Target,   \* Target[g]: the lock g was constructed with
          Kind,     \* Kind[g]: which of the three classes g is of
          NoThread, \* no thread has the lock
          NoGuard   \* the thread is in no lock call

ScopedLockAssumption ==
  /\ IsFiniteSet(Guards)
  /\ Owner \in [Guards -> Threads]
  /\ Target \in [Guards -> Locks]
  /\ Kind \in [Guards -> {"scoped", "read", "write"}]
  /\ NoThread \notin Threads
  /\ NoGuard \notin Guards
  /\ \A g, h \in Guards :
        Target[g] = Target[h] => (Kind[g] = "scoped" <=> Kind[h] = "scoped")
ASSUME ScopedLockAssumption

VARIABLES
  writer,   \* writer[l]: the thread that has l for itself, or NoThread
  readers,  \* readers[l]: how many read locks on l are held
  alive,    \* alive[g]: g is constructed and not destroyed
  m_locked, \* the member m_locked of each guard
  want,     \* want[t]: the guard for which t is inside pthread's lock call
  refused,  \* history: the guards whose lock call came back with an error
  misused   \* history: a lock that was not held has been unlocked

vars == <<writer, readers, alive, m_locked, want, refused, misused>>

Idle(t) == want[t] = NoGuard
Reads(g) == Kind[g] = "read"

Init ==
  /\ writer = [l \in Locks |-> NoThread]
  /\ readers = [l \in Locks |-> 0]
  /\ alive = [g \in Guards |-> FALSE]
  /\ m_locked = [g \in Guards |-> FALSE]
  /\ want = [t \in Threads |-> NoGuard]
  /\ refused = {}
  /\ misused = FALSE

---------------------------------------------------------------------------
(* The pthread locks. *)

Free(g) ==
  /\ writer[Target[g]] = NoThread
  /\ Reads(g) \/ readers[Target[g]] = 0

Take(g) ==
  IF Reads(g)
  THEN /\ readers' = [readers EXCEPT ![Target[g]] = @ + 1]
       /\ UNCHANGED writer
  ELSE /\ writer' = [writer EXCEPT ![Target[g]] = Owner[g]]
       /\ UNCHANGED readers

\* Wrong variant: the count of readers is taken down without a look at it.
GiveUnchecked(g) ==
  LET l == Target[g] IN
  /\ UNCHANGED misused
  /\ IF writer[l] = Owner[g]
     THEN writer' = [writer EXCEPT ![l] = NoThread] /\ UNCHANGED readers
     ELSE readers' = [readers EXCEPT ![l] = @ - 1] /\ UNCHANGED writer

\* pthread_rwlock_unlock is the same call for readers and writers, and
\* neither it nor pthread_mutex_unlock knows which guard called it.  To
\* unlock what is not held is undefined; the model only notes it.
Give(g) ==
  LET l == Target[g] IN
  \/ /\ writer[l] = Owner[g]
     /\ writer' = [writer EXCEPT ![l] = NoThread]
     /\ UNCHANGED <<readers, misused>>
  \/ /\ writer[l] = NoThread /\ readers[l] > 0
     /\ readers' = [readers EXCEPT ![l] = @ - 1]
     /\ UNCHANGED <<writer, misused>>
  \/ /\ writer[l] # Owner[g]
     /\ writer[l] # NoThread \/ readers[l] = 0
     /\ misused' = TRUE
     /\ UNCHANGED <<writer, readers>>

---------------------------------------------------------------------------
(* The guards. *)

\* The constructor locks without looking at m_locked, which has no value.
Construct(g) ==
  /\ Idle(Owner[g])
  /\ ~alive[g]
  /\ alive' = [alive EXCEPT ![g] = TRUE]
  /\ want' = [want EXCEPT ![Owner[g]] = g]
  /\ UNCHANGED <<writer, readers, m_locked, refused, misused>>

MayLock(g) == ~m_locked[g]

\* lock(): nothing happens to a guard that has its lock.
Lock(g) ==
  /\ Idle(Owner[g])
  /\ alive[g]
  /\ MayLock(g)
  /\ want' = [want EXCEPT ![Owner[g]] = g]
  /\ UNCHANGED <<writer, readers, alive, m_locked, refused, misused>>

\* The lock call returns with the lock.
Enter(g) ==
  /\ want[Owner[g]] = g
  /\ Free(g)
  /\ Take(g)
  /\ m_locked' = [m_locked EXCEPT ![g] = TRUE]
  /\ want' = [want EXCEPT ![Owner[g]] = NoGuard]
  /\ UNCHANGED <<alive, refused, misused>>

\* The lock call returns EDEADLK, which the guard does not see.
EnterRefused(g) ==
  /\ want[Owner[g]] = g
  /\ Kind[g] # "scoped"
  /\ writer[Target[g]] = Owner[g]
  /\ m_locked' = [m_locked EXCEPT ![g] = TRUE]
  /\ want' = [want EXCEPT ![Owner[g]] = NoGuard]
  /\ refused' = refused \union {g}
  /\ UNCHANGED <<writer, readers, alive, misused>>

\* Wrong variant: the destructor leaves the lock to whoever comes next.
UnlockNever(g) == FALSE
\* Wrong variant: unlock does not look at m_locked.
UnlockAlways(g) == TRUE
\* Wrong variant: unlock leaves m_locked set.
NotCleared(g) == m_locked

MustUnlock(g) == m_locked[g]
Cleared(g) == [m_locked EXCEPT ![g] = FALSE]

\* unlock(), the body shared by unlock and the destructor.
Release(g) ==
  \/ /\ MustUnlock(g)
     /\ m_locked' = Cleared(g)
     /\ Give(g)
  \/ /\ ~MustUnlock(g)
     /\ UNCHANGED <<writer, readers, m_locked, misused>>

Unlock(g) ==
  /\ Idle(Owner[g])
  /\ alive[g]
  /\ Release(g)
  /\ UNCHANGED <<alive, want, refused>>

Destroy(g) ==
  /\ Idle(Owner[g])
  /\ alive[g]
  /\ alive' = [alive EXCEPT ![g] = FALSE]
  /\ Release(g)
  /\ UNCHANGED <<want, refused>>

Next ==
  \E g \in Guards :
    \/ Construct(g) \/ Lock(g) \/ Enter(g) \/ EnterRefused(g)
    \/ Unlock(g) \/ Destroy(g)

Spec == Init /\ [][Next]_vars

\* A lock call returns when its lock stays free, and the scope of a guard ends
\* unless its thread waits.  pthread promises no more: nothing is said about
\* which of several waiting threads is next.
Fairness ==
  \A g \in Guards :
    /\ WF_vars(Enter(g) \/ EnterRefused(g))
    /\ WF_vars(Destroy(g))

FairSpec == Spec /\ Fairness

---------------------------------------------------------------------------
(* Properties. *)

\* The shape of the state; readers never falls below zero.
TypeOK ==
  /\ writer \in [Locks -> Threads \union {NoThread}]
  /\ readers \in [Locks -> Nat]
  /\ alive \in [Guards -> BOOLEAN]
  /\ m_locked \in [Guards -> BOOLEAN]
  /\ want \in [Threads -> Guards \union {NoGuard}]
  /\ refused \in SUBSET Guards
  /\ misused \in BOOLEAN

ReadersOf(l) == {g \in Guards : Target[g] = l /\ Reads(g) /\ m_locked[g]}
WritersOf(l) == {g \in Guards : Target[g] = l /\ ~Reads(g) /\ m_locked[g]}

\* Mutual exclusion as the guards' users see it: while a guard of class
\* ScopedLock or WriteScopedLock says that it is locked, no other guard on
\* the same lock says so.  It fails when a lock is given back twice, or by a
\* guard that does not have it (unlock and the destructor, thread.h:51).
Exclusion ==
  refused = {} =>
    \A l \in Locks : \A g \in WritersOf(l) :
       WritersOf(l) \union ReadersOf(l) = {g}

\* What the guards say is what the pthread lock holds: as many read locks as
\* there are read guards that say so, and a writer exactly when a guard of
\* its says so.  So nothing is unlocked twice, and since only a living guard
\* says so, a lock is free again when every guard on it is unlocked or gone,
\* whatever lock and unlock calls its destructor came after (thread.h:40).
GuardsMatchLocks ==
  /\ \A g \in Guards : m_locked[g] => alive[g]
  /\ refused = {} =>
       /\ ~misused
       /\ \A l \in Locks :
            /\ readers[l] = Cardinality(ReadersOf(l))
            /\ \A t \in Threads :
                 writer[l] = t <=> \E g \in WritersOf(l) : Owner[g] = t

\* A thread of S keeps u, which waits, from its lock.
KeptWaiting(u, S) ==
  /\ ~Idle(u)
  /\ LET l == Target[want[u]] IN
     \E h \in IF Reads(want[u]) THEN WritersOf(l) ELSE WritersOf(l) \union ReadersOf(l) :
        Owner[h] \in S

\* The thread is in a set whose members wait for each other: threads that
\* nest guards of several locks, or one that constructs a write guard while it
\* reads (thread.h:108).
Stuck(t) == \E S \in SUBSET Threads : t \in S /\ \A u \in S : KeptWaiting(u, S)

\* When the threads stop asking for locks, every call that waits returns, but
\* for those of threads that wait for each other: no destructor and no unlock
\* leaves a lock behind that nobody has (thread.h:40 and 112).
CallsReturnOrStick ==
  /\ <>[][\A g \in Guards : ~Construct(g) /\ ~Lock(g)]_vars
  /\ [](refused = {})
  => <>[](\A t \in Threads : Idle(t) \/ Stuck(t))

=============================================================================
