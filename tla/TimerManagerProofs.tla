------------------------- MODULE TimerManagerProofs -------------------------
(***************************************************************************)
(* Proofs about TimerManager, for every number of timers and threads, every *)
(* set of periods and every clock bound.                                    *)
(***************************************************************************)
EXTENDS TimerManager, WellFoundedInduction, TLAPS

-----------------------------------------------------------------------------
(* Arithmetic and the order of the queue *)

\* An unsigned result is a natural number below 2^64.
LEMMA U64Range ==
  ASSUME NEW x \in Int
  PROVE  U64(x) \in 0 .. Word - 1
BY TimerAssumption DEF U64

\* A non-empty set of numbers has a least one.
LEMMA LeastExists ==
  ASSUME NEW S \in SUBSET Nat, S # {}
  PROVE  \E m \in S : \A n \in S : m <= n
<1>1. PICK m \in S : \A n \in S : ~(<<n, m>> \in OpToRel(<, Nat))
  BY NatLessThanWellFounded, WFMin, Zenon
<1>2. \A n \in S : ~(n < m)
  BY <1>1, Zenon DEF OpToRel
<1>3. QED
  BY <1>2

\* The comparator has a minimum on every non-empty queue: *m_timers.begin().
LEMMA FirstExists ==
  ASSUME TypeOK, m_timers # {}
  PROVE  /\ First \in m_timers
         /\ \A s \in m_timers : m_next[First] <= m_next[s]
<1>1. m_timers \subseteq Nat /\ m_timers \subseteq Timers /\ m_next \in [Timers -> Nat]
  BY TimerAssumption DEF TypeOK
<1>2. PICK m \in m_timers : \A s \in m_timers : m_next[m] <= m_next[s]
  <2> DEFINE D == {m_next[s] : s \in m_timers}
  <2>1. D \in SUBSET Nat /\ D # {}
    BY <1>1
  <2>2. PICK n \in D : \A k \in D : n <= k
    BY <2>1, LeastExists
  <2>3. QED
    BY <2>2
<1>3. PICK t \in m_timers : /\ m_next[t] = m_next[m]
                            /\ \A s \in m_timers : m_next[s] = m_next[m] => t <= s
  <2> DEFINE T == {s \in m_timers : m_next[s] = m_next[m]}
  <2>1. T \in SUBSET Nat /\ T # {}
    BY <1>1
  <2>2. PICK t \in T : \A s \in T : t <= s
    BY <2>1, LeastExists
  <2>3. QED
    BY <2>2
<1>4. \A s \in m_timers : ~Before(s, t, m_next)
  BY <1>1, <1>2, <1>3 DEF Before
<1>5. First \in m_timers /\ \A s \in m_timers : ~Before(s, First, m_next)
  BY <1>4 DEF First
<1>6. QED
  BY <1>1, <1>5 DEF Before

\* getNextTimer returns a number of milliseconds.
LEMMA NextTimeoutType ==
  ASSUME TypeOK
  PROVE  NextTimeout \in Nat
<1>1. CASE m_timers = {}
  BY <1>1, TimerAssumption DEF NextTimeout, Forever
<1>2. CASE m_timers # {}
  <2>1. First \in Timers
    BY <1>2, FirstExists DEF TypeOK
  <2>2. m_next[First] \in Nat /\ now \in Nat
    BY <2>1 DEF TypeOK
  <2>3. QED
    BY <1>2, <2>2 DEF NextTimeout
<1>3. QED
  BY <1>1, <1>2
-----------------------------------------------------------------------------
(* The inductive invariant *)

\* Between the constructor and the insertion a timer belongs to the one client
\* that adds it: nobody else has its pointer, so its callback is still there.
AddingInv ==
  \A c \in Clients :
     /\ pc[c] \in {"add", "reset"} => arg[c] # NoTimer
     /\ pc[c] = "add" => m_fn[arg[c]]
     /\ \A e \in Clients : pc[c] = "add" /\ pc[e] = "add" /\ arg[c] = arg[e] => c = e

\* A driver has run everything it was handed before it asks for more.
DriverInv == \A d \in Drivers : dpc[d] # "run" => fns[d] = {}

IInv ==
  /\ TypeOK /\ AddingInv /\ DriverInv
  /\ QueuedIffArmed /\ OneShotFate /\ CancelledStaysOut

LEMMA InitIInv == Init => IInv
<1> SUFFICES ASSUME Init PROVE IInv
  OBVIOUS
<1> USE TimerAssumption DEF Init
<1>1. TypeOK
  BY DEF TypeOK
<1>2. AddingInv /\ DriverInv
  BY DEF AddingInv, DriverInv
<1>3. QueuedIffArmed /\ OneShotFate /\ CancelledStaysOut
  BY DEF QueuedIffArmed, OneShotFate, CancelledStaysOut
<1>4. QED
  BY <1>1, <1>2, <1>3 DEF IInv

\* The constructed timer is new, so no thread, queue or record knows it yet.
LEMMA NewTimerKeeps ==
  ASSUME IInv, NEW c \in Clients, NEW t \in Timers, NEW ms \in Periods,
         NEW cyclic \in BOOLEAN, NewTimer(c, t, ms, cyclic)
  PROVE  IInv'
<1> USE DEF IInv
<1>1. /\ t \notin created /\ t \notin m_timers /\ t # NoTimer
      /\ \A e \in Clients : arg[e] # t
  BY TimerAssumption DEF NewTimer, TypeOK
<1>2. TypeOK'
  <2>1. ms \in Nat /\ U64(now + ms) \in Nat
    BY TimerAssumption, U64Range DEF TypeOK
  <2>2. QED
    BY <2>1 DEF TypeOK, NewTimer, queue, driverSt, history
<1>3. AddingInv'
  BY <1>1 DEF AddingInv, NewTimer, TypeOK
<1>4. DriverInv'
  BY DEF DriverInv, NewTimer, driverSt
<1>5. QueuedIffArmed'
  BY <1>1 DEF QueuedIffArmed, Inserting, NewTimer, queue, TypeOK
<1>6. OneShotFate'
  BY <1>1 DEF OneShotFate, Handed, Spent, NewTimer, driverSt, history, TypeOK
<1>7. CancelledStaysOut'
  BY <1>1 DEF CancelledStaysOut, NewTimer, queue, history, TypeOK
<1>8. QED
  BY <1>2, <1>3, <1>4, <1>5, <1>6, <1>7

\* The inserted timer still holds its callback, and only its own client was
\* about to insert it.
LEMMA AddTimerLockedKeeps ==
  ASSUME IInv, NEW c \in Clients, AddTimerLocked(c)
  PROVE  IInv'
<1> USE DEF IInv
<1>1. /\ arg[c] \in created /\ arg[c] \in Timers /\ m_fn[arg[c]]
      /\ arg[c] \notin cancelled
  BY DEF AddTimerLocked, AddingInv, TypeOK, CancelledStaysOut
<1>2. TypeOK'
  BY <1>1 DEF TypeOK, AddTimerLocked, InsertAndUnlock, driverSt, history
<1>3. AddingInv'
  BY <1>1 DEF AddingInv, AddTimerLocked, InsertAndUnlock, TypeOK
<1>4. DriverInv'
  BY DEF DriverInv, AddTimerLocked, driverSt
<1>5. QueuedIffArmed'
  <2> SUFFICES ASSUME NEW t \in created
               PROVE  t \in m_timers' <=> m_fn[t] /\ ~Inserting(t)'
    BY DEF QueuedIffArmed, AddTimerLocked
  <2>1. CASE t = arg[c]
    BY <1>1, <2>1 DEF AddingInv, Inserting, AddTimerLocked, InsertAndUnlock, TypeOK
  <2>2. CASE t # arg[c]
    BY <2>2 DEF QueuedIffArmed, Inserting, AddTimerLocked, InsertAndUnlock, TypeOK
  <2>3. QED
    BY <2>1, <2>2
<1>6. OneShotFate'
  BY DEF OneShotFate, Handed, Spent, AddTimerLocked, driverSt, history
<1>7. CancelledStaysOut'
  BY <1>1 DEF CancelledStaysOut, AddTimerLocked, InsertAndUnlock, history
<1>8. QED
  BY <1>2, <1>3, <1>4, <1>5, <1>6, <1>7

LEMMA OnTimerInsertedAtFirstKeeps ==
  ASSUME IInv, NEW c \in Clients, OnTimerInsertedAtFirst(c)
  PROVE  IInv'
<1> USE DEF IInv
<1>1. TypeOK'
  BY DEF TypeOK, OnTimerInsertedAtFirst, queue, objects, driverSt, history
<1>2. AddingInv' /\ DriverInv'
  BY DEF AddingInv, DriverInv, OnTimerInsertedAtFirst, objects, driverSt, TypeOK
<1>3. QueuedIffArmed'
  BY DEF QueuedIffArmed, Inserting, OnTimerInsertedAtFirst, queue, objects, TypeOK
<1>4. OneShotFate' /\ CancelledStaysOut'
  BY DEF OneShotFate, Handed, Spent, CancelledStaysOut, OnTimerInsertedAtFirst,
         queue, objects, driverSt, history
<1>5. QED
  BY <1>1, <1>2, <1>3, <1>4

\* The cancelled timer held its callback, so it was neither handed out nor
\* run, and nobody was inserting it.
LEMMA CancelKeeps ==
  ASSUME IInv, NEW c \in Clients, NEW t \in Timers, Cancel(c, t)
  PROVE  IInv'
<1> USE DEF IInv
<1>1. t \in created /\ m_fn[t] /\ ~Inserting(t)
  BY DEF Cancel, Handles, Adding, Inserting
<1>2. TypeOK'
  BY <1>1 DEF TypeOK, Cancel, clientSt, driverSt
<1>3. AddingInv'
  BY <1>1 DEF AddingInv, Inserting, Cancel, clientSt, TypeOK
<1>4. DriverInv'
  BY DEF DriverInv, Cancel, driverSt
<1>5. QueuedIffArmed'
  BY DEF QueuedIffArmed, Inserting, Cancel, clientSt, TypeOK
<1>6. OneShotFate'
  BY <1>1 DEF OneShotFate, Handed, Spent, Cancel, driverSt, TypeOK
<1>7. CancelledStaysOut'
  BY DEF CancelledStaysOut, Cancel, TypeOK
<1>8. QED
  BY <1>2, <1>3, <1>4, <1>5, <1>6, <1>7

LEMMA ResetCheckKeeps ==
  ASSUME IInv, NEW c \in Clients, NEW t \in Timers, NEW ms \in Periods,
         NEW from_now \in BOOLEAN, ResetCheck(c, t, ms, from_now)
  PROVE  IInv'
<1> USE DEF IInv
<1>1. t \in created /\ t # NoTimer /\ ms \in Nat
  BY TimerAssumption DEF ResetCheck, Handles
<1>2. TypeOK'
  BY <1>1 DEF TypeOK, ResetCheck, queue, objects, driverSt, history
<1>3. AddingInv' /\ DriverInv'
  BY <1>1 DEF AddingInv, DriverInv, ResetCheck, objects, driverSt, TypeOK
<1>4. QueuedIffArmed'
  BY DEF QueuedIffArmed, Inserting, ResetCheck, queue, objects, TypeOK
<1>5. OneShotFate' /\ CancelledStaysOut'
  BY DEF OneShotFate, Handed, Spent, CancelledStaysOut, ResetCheck,
         queue, objects, driverSt, history
<1>6. QED
  BY <1>2, <1>3, <1>4, <1>5

\* A timer that is no longer queued is left alone; a queued one stays queued.
LEMMA ResetLockedKeeps ==
  ASSUME IInv, NEW c \in Clients, ResetLocked(c)
  PROVE  IInv'
<1> USE DEF IInv
<1>1. arg[c] \in created /\ arg[c] \in Timers
  BY DEF ResetLocked, AddingInv, TypeOK
<1>2. /\ m_timers' = m_timers
      /\ UNCHANGED <<created, m_cyclic, m_fn, driverSt, history>>
      /\ pc' \in [Clients -> {"idle", "add", "notify", "reset"}]
      /\ pc[c] = "reset" /\ pc'[c] \in {"idle", "notify"} /\ arg'[c] = NoTimer
      /\ arg' \in [Clients -> created \cup {NoTimer}]
      /\ \A e \in Clients \ {c} : pc'[e] = pc[e] /\ arg'[e] = arg[e]
  <2>1. /\ pc[c] = "reset"
        /\ UNCHANGED <<created, m_cyclic, m_fn, driverSt, history>>
    BY DEF ResetLocked
  <2>2. /\ m_timers' = m_timers
        /\ \E to \in {"idle", "notify"} : pc' = [pc EXCEPT ![c] = to]
        /\ arg' = [arg EXCEPT ![c] = NoTimer]
    BY DEF ResetLocked, Found, InsertAndUnlock
  <2>3. QED
    BY <2>1, <2>2 DEF TypeOK
<1>3. TypeOK'
  <2> DEFINE start == IF fromNow[c] THEN now ELSE U64(m_next[arg[c]] - m_ms[arg[c]])
  <2>1. start \in Nat
    BY <1>1, U64Range DEF TypeOK
  <2>2. U64(start + newMs[c]) \in Nat
    BY <2>1, U64Range DEF TypeOK
  <2>3. m_next' \in [Timers -> Nat] /\ m_ms' \in [Timers -> Nat]
    BY <2>2 DEF ResetLocked, InsertAndUnlock, TypeOK
  <2>4. newMs' \in [Clients -> Nat] /\ fromNow' \in [Clients -> BOOLEAN]
    BY DEF ResetLocked, TypeOK
  <2>5. QED
    BY <1>2, <2>3, <2>4 DEF TypeOK, ResetLocked, driverSt, history
<1>4. AddingInv' /\ DriverInv'
  BY <1>2 DEF AddingInv, DriverInv, driverSt
<1>5. QueuedIffArmed'
  BY <1>2, TimerAssumption DEF QueuedIffArmed, Inserting, TypeOK
<1>6. OneShotFate' /\ CancelledStaysOut'
  BY <1>2 DEF OneShotFate, Handed, Spent, CancelledStaysOut, driverSt, history
<1>7. QED
  BY <1>3, <1>4, <1>5, <1>6

LEMMA RefreshKeeps ==
  ASSUME IInv, NEW c \in Clients, NEW t \in Timers, Refresh(c, t)
  PROVE  IInv'
<1> USE DEF IInv
<1>1. U64(now + m_ms[t]) \in Nat
  BY U64Range DEF TypeOK
<1>2. TypeOK'
  BY <1>1 DEF TypeOK, Refresh, queue, clientSt, driverSt, history
<1>3. AddingInv' /\ DriverInv' /\ QueuedIffArmed'
  BY DEF AddingInv, DriverInv, QueuedIffArmed, Inserting, Refresh,
         queue, clientSt, driverSt
<1>4. OneShotFate' /\ CancelledStaysOut'
  BY DEF OneShotFate, Handed, Spent, CancelledStaysOut, Refresh,
         queue, driverSt, history
<1>5. QED
  BY <1>2, <1>3, <1>4

LEMMA GetNextTimerKeeps ==
  ASSUME IInv, NEW d \in Drivers, GetNextTimer(d)
  PROVE  IInv'
<1> USE DEF IInv
<1>1. TypeOK'
  BY NextTimeoutType DEF TypeOK, GetNextTimer, queue, objects, clientSt, history
<1>2. AddingInv' /\ DriverInv' /\ QueuedIffArmed'
  BY DEF AddingInv, DriverInv, QueuedIffArmed, Inserting, GetNextTimer,
         queue, objects, clientSt, TypeOK
<1>3. OneShotFate' /\ CancelledStaysOut'
  BY DEF OneShotFate, Handed, Spent, CancelledStaysOut, GetNextTimer,
         queue, objects, history
<1>4. QED
  BY <1>1, <1>2, <1>3

LEMMA WakeKeeps ==
  ASSUME IInv, NEW d \in Drivers, Wake(d)
  PROVE  IInv'
<1> USE DEF IInv
<1>1. TypeOK'
  BY DEF TypeOK, Wake, queue, objects, clientSt, history
<1>2. AddingInv' /\ DriverInv' /\ QueuedIffArmed'
  BY DEF AddingInv, DriverInv, QueuedIffArmed, Inserting, Wake,
         queue, objects, clientSt, TypeOK
<1>3. OneShotFate' /\ CancelledStaysOut'
  BY DEF OneShotFate, Handed, Spent, CancelledStaysOut, Wake,
         queue, objects, history
<1>4. QED
  BY <1>1, <1>2, <1>3

LEMMA ListReadClockKeeps ==
  ASSUME IInv, NEW d \in Drivers, ListReadClock(d)
  PROVE  IInv'
<1> USE DEF IInv
<1>1. TypeOK'
  BY DEF TypeOK, ListReadClock, queue, objects, clientSt, history
<1>2. AddingInv' /\ DriverInv' /\ QueuedIffArmed'
  BY DEF AddingInv, DriverInv, QueuedIffArmed, Inserting, ListReadClock,
         queue, objects, clientSt, TypeOK
<1>3. OneShotFate' /\ CancelledStaysOut'
  BY DEF OneShotFate, Handed, Spent, CancelledStaysOut, ListReadClock,
         queue, objects, history
<1>4. QED
  BY <1>1, <1>2, <1>3

LEMMA ListCheckEmptyKeeps ==
  ASSUME IInv, NEW d \in Drivers, ListCheckEmpty(d)
  PROVE  IInv'
<1> USE DEF IInv
<1>1. TypeOK'
  BY DEF TypeOK, ListCheckEmpty, queue, objects, clientSt, history
<1>2. AddingInv' /\ DriverInv' /\ QueuedIffArmed'
  BY DEF AddingInv, DriverInv, QueuedIffArmed, Inserting, ListCheckEmpty,
         queue, objects, clientSt, TypeOK
<1>3. OneShotFate' /\ CancelledStaysOut'
  BY DEF OneShotFate, Handed, Spent, CancelledStaysOut, ListCheckEmpty,
         queue, objects, history
<1>4. QED
  BY <1>1, <1>2, <1>3

\* What is collected was queued, hence armed: a one-shot timer moves from the
\* queue into the hands of this driver, and of no other.
LEMMA ListCollectKeeps ==
  ASSUME IInv, NEW d \in Drivers, ListCollect(d)
  PROVE  IInv'
<1> USE DEF IInv
<1> DEFINE expired == Expired(d)
           again == {t \in expired : m_cyclic[t]}
<1>1. /\ expired \subseteq m_timers /\ again \subseteq expired
      /\ \A t \in expired : t \in created /\ t \in Timers /\ m_fn[t] /\ ~Inserting(t)
  BY DEF Expired, QueuedIffArmed, TypeOK
<1>2. /\ m_timers' = (m_timers \ expired) \cup again
      /\ m_fn' = [t \in Timers |-> m_fn[t] /\ t \notin expired \ again]
      /\ fns' = [fns EXCEPT ![d] = expired]
      /\ fns[d] = {}
      /\ dpc' = [dpc EXCEPT ![d] = "run"]
      /\ UNCHANGED <<created, m_cyclic, clientSt, history>>
  BY DEF ListCollect, CallbacksLeft, DriverInv
<1> HIDE DEF expired, again
<1>3. TypeOK'
  <2>1. m_next' \in [Timers -> Nat]
    <3>1. \A t \in Timers : U64(nowMs[d] + m_ms[t]) \in Nat
      BY U64Range DEF TypeOK
    <3>2. QED
      BY <3>1 DEF ListCollect, TypeOK
  <2>2. m_timers' \subseteq created' /\ fns' \in [Drivers -> SUBSET created']
    BY <1>1, <1>2 DEF TypeOK
  <2>3. m_fn' \in [Timers -> BOOLEAN]
    BY <1>2
  <2>4. m_previous_time' \in Nat /\ nowMs' \in [Drivers -> Nat] /\ crashed' \in BOOLEAN
    BY DEF ListCollect, TypeOK
  <2>5. dpc' \in [Drivers -> {"run", "wait", "list", "check", "collect"}]
    BY <1>2 DEF TypeOK
  <2>6. UNCHANGED <<now, created, m_ms, m_cyclic, clientSt, wait, tickled, history>>
    BY DEF ListCollect
  <2>7. QED
    BY <2>1, <2>2, <2>3, <2>4, <2>5, <2>6 DEF TypeOK, clientSt, history
<1>4. AddingInv'
  <2> SUFFICES ASSUME NEW c \in Clients, pc[c] = "add"
               PROVE  m_fn'[arg[c]]
    BY <1>2 DEF AddingInv, clientSt
  <2>1. arg[c] \in Timers /\ m_fn[arg[c]] /\ Inserting(arg[c])
    BY DEF AddingInv, Inserting, TypeOK
  <2>2. QED
    BY <1>1, <1>2, <2>1
<1>5. DriverInv'
  BY <1>2 DEF DriverInv, TypeOK
<1>6. QueuedIffArmed'
  <2> SUFFICES ASSUME NEW t \in created
               PROVE  t \in m_timers' <=> m_fn'[t] /\ ~Inserting(t)
    BY <1>2 DEF QueuedIffArmed, Inserting, clientSt
  <2>1. t \in Timers /\ (t \in m_timers <=> m_fn[t] /\ ~Inserting(t))
    BY DEF QueuedIffArmed, TypeOK
  <2>2. QED
    BY <1>1, <1>2, <2>1
<1>7. OneShotFate'
  <2> SUFFICES ASSUME NEW t \in created, ~m_cyclic[t]
      PROVE  /\ m_fn'[t] \/ Handed(t)' \/ t \in Spent \/ t \in cancelled
             /\ m_fn'[t] => ~Handed(t)' /\ t \notin Spent /\ t \notin cancelled
             /\ Handed(t)' => t \notin Spent /\ t \notin cancelled
             /\ t \in cancelled => t \notin Spent
             /\ \A e, f \in Drivers : t \in fns'[e] /\ t \in fns'[f] => e = f
    BY <1>2 DEF OneShotFate, Spent, history
  <2>1. t \in Timers /\ t \notin again
    BY DEF again, TypeOK
  <2>2. /\ m_fn[t] \/ Handed(t) \/ t \in Spent \/ t \in cancelled
        /\ m_fn[t] => ~Handed(t) /\ t \notin Spent /\ t \notin cancelled
        /\ Handed(t) => t \notin Spent /\ t \notin cancelled
        /\ t \in cancelled => t \notin Spent
        /\ \A e, f \in Drivers : t \in fns[e] /\ t \in fns[f] => e = f
    BY DEF OneShotFate
  <2>3. CASE t \in expired
    <3>1. m_fn[t] /\ ~Handed(t) /\ ~m_fn'[t] /\ t \in fns'[d]
      BY <1>1, <1>2, <2>1, <2>2, <2>3 DEF TypeOK
    <3>2. \A e \in Drivers : t \in fns'[e] => e = d
      BY <1>2, <3>1 DEF Handed, TypeOK
    <3>3. QED
      BY <2>2, <3>1, <3>2 DEF Handed
  <2>4. CASE t \notin expired
    <3>1. m_fn'[t] = m_fn[t]
      BY <1>2, <2>1, <2>4 DEF TypeOK
    <3>2. \A e \in Drivers : t \in fns'[e] <=> t \in fns[e]
      BY <1>2, <2>4 DEF TypeOK
    <3>3. QED
      BY <2>2, <3>1, <3>2 DEF Handed
  <2>5. QED
    BY <2>3, <2>4
<1>8. CancelledStaysOut'
  BY <1>1, <1>2 DEF CancelledStaysOut, history, TypeOK
<1>9. QED
  BY <1>3, <1>4, <1>5, <1>6, <1>7, <1>8

\* A one-shot timer a driver still holds is held by no other, and was neither
\* run nor cancelled before.
LEMMA RunCallbackKeeps ==
  ASSUME IInv, NEW d \in Drivers, NEW t \in Timers, RunCallback(d, t)
  PROVE  IInv'
<1> USE DEF IInv
<1>1. /\ t \in created /\ t \in fns[d]
      /\ fns' = [fns EXCEPT ![d] = @ \ {t}]
      /\ ran' \cup skipped' = ran \cup skipped \cup {t}
      /\ ran' \subseteq created /\ skipped' \subseteq created
      /\ UNCHANGED <<queue, objects, clientSt, dpc, condGone, cancelled>>
  BY DEF RunCallback, TypeOK
<1>2. TypeOK'
  BY <1>1 DEF TypeOK, RunCallback, queue, objects, clientSt
<1>3. AddingInv' /\ DriverInv' /\ QueuedIffArmed'
  BY <1>1 DEF AddingInv, DriverInv, QueuedIffArmed, Inserting,
              queue, objects, clientSt, TypeOK
<1>4. OneShotFate'
  <2> SUFFICES ASSUME NEW s \in created, ~m_cyclic[s]
      PROVE  /\ m_fn[s] \/ Handed(s)' \/ s \in Spent' \/ s \in cancelled
             /\ m_fn[s] => ~Handed(s)' /\ s \notin Spent' /\ s \notin cancelled
             /\ Handed(s)' => s \notin Spent' /\ s \notin cancelled
             /\ s \in cancelled => s \notin Spent'
             /\ \A e, f \in Drivers : s \in fns'[e] /\ s \in fns'[f] => e = f
    BY <1>1 DEF OneShotFate, objects
  <2>1. /\ m_fn[s] \/ Handed(s) \/ s \in Spent \/ s \in cancelled
        /\ m_fn[s] => ~Handed(s) /\ s \notin Spent /\ s \notin cancelled
        /\ Handed(s) => s \notin Spent /\ s \notin cancelled
        /\ s \in cancelled => s \notin Spent
        /\ \A e, f \in Drivers : s \in fns[e] /\ s \in fns[f] => e = f
    BY DEF OneShotFate
  <2>2. \A e \in Drivers : s \in fns'[e] <=> s \in fns[e] /\ ~(e = d /\ s = t)
    BY <1>1 DEF TypeOK
  <2>3. s \in Spent' <=> s \in Spent \/ s = t
    BY <1>1 DEF Spent
  <2>4. CASE s = t
    BY <1>1, <2>1, <2>2, <2>3, <2>4 DEF Handed
  <2>5. CASE s # t
    BY <2>1, <2>2, <2>3, <2>5 DEF Handed
  <2>6. QED
    BY <2>4, <2>5
<1>5. CancelledStaysOut'
  BY <1>1 DEF CancelledStaysOut, queue, objects
<1>6. QED
  BY <1>2, <1>3, <1>4, <1>5

LEMMA EnvironmentKeeps ==
  ASSUME IInv, Environment
  PROVE  IInv'
<1> USE DEF IInv
<1>1. /\ now' \in Nat /\ wait' \in [Drivers -> Nat] /\ condGone' \subseteq Conditional
      /\ steady' \in BOOLEAN
      /\ UNCHANGED <<queue, objects, clientSt, dpc, nowMs, fns, tickled,
                     ran, skipped, cancelled, crashed>>
  <2>1. CASE Tick
    BY <2>1 DEF Tick, TypeOK, history
  <2>2. CASE \E k \in BackSteps : SetClockBack(k)
    <3>1. PICK k \in BackSteps : SetClockBack(k)
      BY <2>2
    <3>2. k \in Nat /\ now \in Nat /\ k <= now /\ now' = now - k /\ steady' = FALSE
      BY <3>1, TimerAssumption DEF SetClockBack, TypeOK
    <3>3. UNCHANGED <<wait, condGone, queue, objects, clientSt, dpc, nowMs, fns,
                      tickled, ran, skipped, cancelled, crashed>>
      BY <3>1 DEF SetClockBack, driverSt
    <3>4. now' \in Nat
      BY <3>2
    <3>5. wait' \in [Drivers -> Nat] /\ condGone' \subseteq Conditional
      BY <3>3 DEF TypeOK
    <3>6. QED
      BY <3>2, <3>3, <3>4, <3>5
  <2>3. CASE \E t \in Conditional : ReleaseCondition(t)
    BY <2>3 DEF ReleaseCondition, TypeOK, driverSt
  <2>4. QED
    BY <2>1, <2>2, <2>3 DEF Environment
<1>2. TypeOK'
  BY <1>1 DEF TypeOK, queue, objects, clientSt
<1>3. AddingInv' /\ DriverInv' /\ QueuedIffArmed'
  BY <1>1 DEF AddingInv, DriverInv, QueuedIffArmed, Inserting,
              queue, objects, clientSt
<1>4. OneShotFate' /\ CancelledStaysOut'
  BY <1>1 DEF OneShotFate, Handed, Spent, CancelledStaysOut, queue, objects
<1>5. QED
  BY <1>2, <1>3, <1>4

LEMMA StutterKeeps ==
  ASSUME IInv, UNCHANGED vars
  PROVE  IInv'
<1> USE DEF IInv, vars, queue, objects, clientSt, driverSt, history
<1>1. TypeOK'
  BY DEF TypeOK
<1>2. AddingInv' /\ DriverInv' /\ QueuedIffArmed'
  BY DEF AddingInv, DriverInv, QueuedIffArmed, Inserting
<1>3. OneShotFate' /\ CancelledStaysOut'
  BY DEF OneShotFate, Handed, Spent, CancelledStaysOut
<1>4. QED
  BY <1>1, <1>2, <1>3

LEMMA NextKeeps == IInv /\ [Next]_vars => IInv'
<1> SUFFICES ASSUME IInv, [Next]_vars PROVE IInv'
  OBVIOUS
<1>1. ASSUME NEW c \in Clients, ClientCall(c) PROVE IInv'
  BY <1>1, NewTimerKeeps, CancelKeeps, ResetCheckKeeps, RefreshKeeps DEF ClientCall
<1>2. ASSUME NEW c \in Clients, ClientStep(c) PROVE IInv'
  BY <1>2, AddTimerLockedKeeps, OnTimerInsertedAtFirstKeeps, ResetLockedKeeps
     DEF ClientStep
<1>3. ASSUME NEW d \in Drivers, DriverStep(d) PROVE IInv'
  BY <1>3, GetNextTimerKeeps, WakeKeeps, ListReadClockKeeps, ListCheckEmptyKeeps,
     ListCollectKeeps, RunCallbackKeeps DEF DriverStep
<1>4. CASE Environment
  BY <1>4, EnvironmentKeeps
<1>5. CASE UNCHANGED vars
  BY <1>5, StutterKeeps
<1>6. QED
  BY <1>1, <1>2, <1>3, <1>4, <1>5 DEF Next

LEMMA Invariance == Spec => []IInv
BY InitIInv, NextKeeps, PTL DEF Spec

-----------------------------------------------------------------------------
(* The theorems *)

\* Every variable keeps its type; in particular the queue only ever holds
\* constructed timers and getNextTimer always answers with a number.
THEOREM TypeCorrect == Spec => []TypeOK
BY Invariance, PTL DEF IInv

\* A timer is queued exactly when it is inserted and armed, whatever clients
\* and drivers do in between: the find of cancel never misses.
THEOREM QueueMatchesCallbacks == Spec => []QueuedIffArmed
BY Invariance, PTL DEF IInv

\* A one-shot timer is armed, or held by one driver, or run, or cancelled, and
\* never two of these.
THEOREM OneShotSafety == Spec => []OneShotFate
BY Invariance, PTL DEF IInv

\* After a cancel that returned true the timer never comes back.
THEOREM CancelIsFinal == Spec => []CancelledStaysOut
BY Invariance, PTL DEF IInv

-----------------------------------------------------------------------------
(* The contract *)

Armed == {t \in created : m_fn[t]}

LEMMA ContractInit == Init => Contract!Init
BY DEF Init, Contract!Init

\* The constructor arms a timer, cancel disarms it, collecting hands over only
\* armed timers, a call is a call, and no other step shows.
LEMMA ContractStep == IInv /\ [Next]_vars => [Contract!Next]_(Contract!vars)
<1> SUFFICES ASSUME IInv, [Next]_vars
             PROVE  Contract!Next \/ UNCHANGED Contract!vars
  OBVIOUS
<1> USE DEF IInv, objects
<1>1. ASSUME UNCHANGED <<created, m_cyclic, m_fn, fns>>
      PROVE  UNCHANGED Contract!vars
  BY <1>1 DEF Contract!vars
<1>2. ASSUME NEW c \in Clients, ClientCall(c)
      PROVE  Contract!Next \/ UNCHANGED Contract!vars
  <2>1. ASSUME NEW t \in Timers, NEW ms \in Periods, NEW cyclic \in BOOLEAN,
               NewTimer(c, t, ms, cyclic)
        PROVE  Contract!Next
    <3>1. t \in Timers \ created /\ fns' = fns /\ created' = created \cup {t}
          /\ m_cyclic' = [m_cyclic EXCEPT ![t] = cyclic]
          /\ m_fn' = [m_fn EXCEPT ![t] = TRUE]
      BY <2>1 DEF NewTimer, driverSt
    <3>2. Timers \ created' = (Timers \ created) \ {t}
      BY <3>1
    <3>3. Armed' = Armed \cup {t}
      BY <3>1 DEF Armed, TypeOK
    <3>4. Contract!Arm(t)
      BY <3>1, <3>2, <3>3 DEF Contract!Arm, Armed
    <3>5. QED
      BY <3>4 DEF Contract!Next
  <2>2. ASSUME NEW t \in Timers, Cancel(c, t)
        PROVE  Contract!Next
    <3>1. t \in Armed /\ Armed' = Armed \ {t}
      BY <2>2 DEF Armed, Cancel, Handles, TypeOK
    <3>2. Contract!Disarm(t)
      BY <2>2, <3>1 DEF Contract!Disarm, Armed, Cancel, driverSt
    <3>3. QED
      BY <3>2 DEF Contract!Next
  <2>3. ASSUME NEW t \in Timers, NEW ms \in Periods, NEW from_now \in BOOLEAN,
               ResetCheck(c, t, ms, from_now)
        PROVE  UNCHANGED Contract!vars
    BY <1>1, <2>3 DEF ResetCheck, driverSt
  <2>4. ASSUME NEW t \in Timers, Refresh(c, t)
        PROVE  UNCHANGED Contract!vars
    BY <1>1, <2>4 DEF Refresh, driverSt
  <2>5. QED
    BY <1>2, <2>1, <2>2, <2>3, <2>4 DEF ClientCall
<1>3. ASSUME NEW c \in Clients, ClientStep(c)
      PROVE  UNCHANGED Contract!vars
  BY <1>1, <1>3 DEF ClientStep, AddTimerLocked, OnTimerInsertedAtFirst,
                    ResetLocked, driverSt
<1>4. ASSUME NEW d \in Drivers, DriverStep(d)
      PROVE  Contract!Next \/ UNCHANGED Contract!vars
  <2>1. CASE GetNextTimer(d) \/ Wake(d) \/ ListReadClock(d) \/ ListCheckEmpty(d)
    BY <1>1, <2>1 DEF GetNextTimer, Wake, ListReadClock, ListCheckEmpty
  <2>2. Expired(d) \in SUBSET Armed
    BY DEF Expired, Armed, QueuedIffArmed, TypeOK
  <2>3. ASSUME ListCollect(d), NEW S \in SUBSET Armed, S = Expired(d)
        PROVE  Contract!Next
    <3>1. /\ m_fn' = [t \in Timers |-> m_fn[t] /\ t \notin S \ {s \in S : m_cyclic[s]}]
          /\ fns' = [fns EXCEPT ![d] = S]
          /\ fns[d] = {} /\ UNCHANGED <<created, m_cyclic>>
      BY <2>3 DEF ListCollect, CallbacksLeft, DriverInv
    <3>2. Armed' = {t \in Armed : t \in S => m_cyclic[t]}
      BY <3>1 DEF Armed, TypeOK
    <3>3. Contract!Expire(d, S)
      BY <3>1, <3>2 DEF Contract!Expire, Armed
    <3>4. QED
      BY <3>3 DEF Contract!Next, Armed
  <2>4. ASSUME NEW t \in Timers, RunCallback(d, t)
        PROVE  Contract!Next
    <3>1. Contract!Call(d, t)
      BY <2>4 DEF RunCallback, Contract!Call
    <3>2. QED
      BY <3>1 DEF Contract!Next
  <2>5. QED
    BY <1>4, <2>1, <2>2, <2>3, <2>4 DEF DriverStep
<1>5. CASE Environment
  BY <1>1, <1>5 DEF Environment, Tick, SetClockBack, ReleaseCondition, driverSt
<1>6. CASE UNCHANGED vars
  BY <1>1, <1>6 DEF vars, driverSt
<1>7. QED
  BY <1>2, <1>3, <1>4, <1>5, <1>6 DEF Next

\* The queue, with its lock, its clock and its order, implements the contract.
THEOREM QueueImplementsContract == Spec => ImplementsContract
BY ContractInit, ContractStep, Invariance, PTL DEF Spec, ImplementsContract, Contract!Spec

-----------------------------------------------------------------------------
(* What TimerManager promises as long as nobody has set the clock back, if  *)
(* no deadline comes near 2^64 and the epoch's first hour is over: no       *)
(* wake-up is lost, and no timer expires early.                             *)

NoWrap == \A ms \in Periods : MaxTime + ms < Forever

FirstHourOver == Hour <= StartTime

(***************************************************************************)
(* The inductive invariants.                                                *)
(***************************************************************************)

\* A period begins no later than now, and ends when it has lasted for m_ms.
Deadlines ==
  /\ now <= MaxTime
  /\ \A t \in created :
       m_ms[t] \in Periods /\ m_ms[t] <= m_next[t] /\ m_next[t] <= now + m_ms[t]
  /\ \A c \in Clients : pc[c] = "reset" => newMs[c] \in Periods
  /\ \A d \in Drivers : nowMs[d] <= now

WInv == IInv /\ (steady => Deadlines) /\ NoLostWakeup

\* What the drivers read from the clock was the time once.  Two of them may
\* collect in another order than they read; one driver cannot.
ReadBefore ==
  /\ StartTime <= m_previous_time /\ m_previous_time <= now
  /\ \A d \in Drivers : dpc[d] \in {"check", "collect"} =>
       /\ StartTime <= nowMs[d]
       /\ m_previous_time <= nowMs[d] \/ \E e \in Drivers : e # d

EInv == IInv /\ (steady => Deadlines /\ ReadBefore)
-----------------------------------------------------------------------------
(* Deadlines *)

\* A clock that was set back stays a clock that was set back.
LEMMA SteadyBefore ==
  ASSUME TypeOK, [Next]_vars, steady'
  PROVE  steady
<1>1. ASSUME NEW c \in Clients, ClientCall(c) \/ ClientStep(c) PROVE steady
  BY <1>1 DEF ClientCall, ClientStep, NewTimer, Cancel, ResetCheck, Refresh,
              AddTimerLocked, OnTimerInsertedAtFirst, ResetLocked, history
<1>2. ASSUME NEW d \in Drivers, DriverStep(d) PROVE steady
  BY <1>2 DEF DriverStep, GetNextTimer, Wake, ListReadClock, ListCheckEmpty,
              ListCollect, RunCallback, history
<1>3. Environment \/ UNCHANGED vars => steady
  BY DEF Environment, Tick, SetClockBack, ReleaseCondition, vars, history
<1>4. QED
  BY <1>1, <1>2, <1>3 DEF Next

LEMMA Unwrapped ==
  ASSUME NEW x \in 0 .. Word - 1
  PROVE  U64(x) = x
BY TimerAssumption DEF U64

\* A deadline ms from a time that has come does not wrap.
LEMMA DeadlineOf ==
  ASSUME NoWrap, TypeOK, Deadlines, NEW start \in Nat, start <= now, NEW ms \in Periods
  PROVE  U64(start + ms) = start + ms /\ ms \in Nat /\ now \in Nat /\ ms < Forever
<1>1. ms \in Nat /\ now \in Nat /\ now <= MaxTime /\ MaxTime \in Nat /\ Word \in Nat
  BY TimerAssumption DEF TypeOK, Deadlines
<1>2. MaxTime + ms < Word - 1
  BY DEF NoWrap, Forever
<1>3. start + ms \in 0 .. Word - 1 /\ ms < Word - 1
  BY <1>1, <1>2
<1>4. QED
  BY <1>1, <1>3, Unwrapped DEF Forever

\* The time at which a timer's period began.
LEMMA PeriodStarted ==
  ASSUME NoWrap, TypeOK, Deadlines, NEW t \in created
  PROVE  /\ U64(m_next[t] - m_ms[t]) = m_next[t] - m_ms[t]
         /\ m_next[t] - m_ms[t] \in Nat /\ m_next[t] - m_ms[t] <= now
         /\ m_next[t] - now <= m_ms[t] /\ m_ms[t] < Forever
         /\ m_ms[t] \in Nat /\ m_next[t] \in Nat
<1>1. /\ t \in Timers /\ m_ms[t] \in Nat /\ m_next[t] \in Nat /\ m_ms[t] \in Periods
      /\ now \in Nat /\ now <= MaxTime /\ MaxTime \in 0 .. Word - 1 /\ Word \in Nat
  BY TimerAssumption DEF TypeOK, Deadlines
<1>2. m_ms[t] <= m_next[t] /\ m_next[t] <= now + m_ms[t]
  BY DEF Deadlines
<1>3. m_next[t] - m_ms[t] \in 0 .. Word - 1 /\ m_next[t] - m_ms[t] <= now
  BY <1>1, <1>2
<1>4. m_ms[t] < Forever
  BY <1>1, 0 \in Nat, 0 <= now, DeadlineOf
<1>5. QED
  BY <1>1, <1>2, <1>3, <1>4, Unwrapped

LEMMA DeadlinesStep ==
  ASSUME NoWrap, IInv, Deadlines, [Next]_vars, steady'
  PROVE  Deadlines'
<1>1. TypeOK
  BY DEF IInv
<1>2. ASSUME NEW c \in Clients, NEW t \in Timers, NEW ms \in Periods, NEW cyclic \in BOOLEAN,
             NewTimer(c, t, ms, cyclic)
      PROVE  Deadlines'
  <2>1. U64(now + ms) = now + ms /\ ms \in Nat /\ now \in Nat
    BY <1>1, DeadlineOf DEF TypeOK
  <2>2. QED
    BY <1>1, <1>2, <2>1 DEF NewTimer, Deadlines, TypeOK, driverSt
<1>3. ASSUME NEW c \in Clients, ResetLocked(c)
      PROVE  Deadlines'
  <2> DEFINE t == arg[c]
             start == IF fromNow[c] THEN now ELSE U64(m_next[t] - m_ms[t])
  <2>1. /\ t \in created /\ t \in Timers /\ newMs[c] \in Periods
        /\ UNCHANGED <<now, created, nowMs>>
        /\ newMs' = [newMs EXCEPT ![c] = 0]
    BY <1>1, <1>3 DEF ResetLocked, IInv, AddingInv, TypeOK, Deadlines, driverSt
  <2>2. \A e \in Clients : pc'[e] = "reset" => pc[e] = "reset" /\ e # c
    BY <1>1, <1>3 DEF ResetLocked, InsertAndUnlock, TypeOK
  <2>3. start \in Nat /\ start <= now
    BY <1>1, <2>1, PeriodStarted DEF TypeOK
  <2>4. U64(start + newMs[c]) = start + newMs[c] /\ newMs[c] \in Nat /\ now \in Nat
    BY <1>1, <2>1, <2>3, DeadlineOf
  <2>5. \/ UNCHANGED <<m_next, m_ms>>
        \/ /\ m_next' = [m_next EXCEPT ![t] = U64(start + newMs[c])]
           /\ m_ms' = [m_ms EXCEPT ![t] = newMs[c]]
    BY <1>3 DEF ResetLocked, InsertAndUnlock
  <2> HIDE DEF t, start
  <2>6. ASSUME NEW s \in created
        PROVE  /\ m_ms'[s] \in Periods /\ m_ms'[s] <= m_next'[s]
               /\ m_next'[s] <= now + m_ms'[s]
    <3>1. s \in Timers
      BY <1>1 DEF TypeOK
    <3>2. m_ms[s] \in Periods /\ m_ms[s] <= m_next[s] /\ m_next[s] <= now + m_ms[s]
      BY DEF Deadlines
    <3>3. CASE m_next'[s] = m_next[s] /\ m_ms'[s] = m_ms[s]
      BY <3>2, <3>3
    <3>4. CASE m_next'[s] = start + newMs[c] /\ m_ms'[s] = newMs[c]
      BY <2>1, <2>3, <2>4, <3>4
    <3>5. QED
      BY <1>1, <2>4, <2>5, <3>1, <3>3, <3>4 DEF TypeOK
  <2>7. QED
    BY <1>1, <2>1, <2>2, <2>6 DEF Deadlines, TypeOK
<1>4. ASSUME NEW c \in Clients, NEW t \in Timers, Refresh(c, t)
      PROVE  Deadlines'
  <2>1. t \in created /\ m_ms[t] \in Periods
    BY <1>4 DEF Refresh, Handles, Deadlines
  <2>2. U64(now + m_ms[t]) = now + m_ms[t] /\ m_ms[t] \in Nat /\ now \in Nat
    BY <1>1, <2>1, DeadlineOf DEF TypeOK
  <2>3. QED
    BY <1>1, <1>4, <2>1, <2>2 DEF Refresh, Deadlines, TypeOK, clientSt, driverSt
<1>5. ASSUME NEW d \in Drivers, ListCollect(d)
      PROVE  Deadlines'
  <2>1. /\ UNCHANGED <<now, created, m_ms, pc, newMs>>
        /\ nowMs' = [nowMs EXCEPT ![d] = 0]
        /\ \A t \in Timers : m_next'[t] = m_next[t] \/ m_next'[t] = U64(nowMs[d] + m_ms[t])
    BY <1>5 DEF ListCollect, clientSt
  <2>2. nowMs[d] \in Nat /\ nowMs[d] <= now /\ now \in Nat
    BY <1>1 DEF TypeOK, Deadlines
  <2>3. ASSUME NEW t \in created
        PROVE  /\ m_ms[t] \in Periods /\ m_ms[t] <= m_next'[t]
               /\ m_next'[t] <= now + m_ms[t]
    <3>1. /\ t \in Timers /\ m_ms[t] \in Periods /\ m_ms[t] <= m_next[t]
          /\ m_next[t] <= now + m_ms[t]
      BY <1>1 DEF TypeOK, Deadlines
    <3>2. U64(nowMs[d] + m_ms[t]) = nowMs[d] + m_ms[t] /\ m_ms[t] \in Nat
      BY <1>1, <2>2, <3>1, DeadlineOf
    <3>3. QED
      BY <2>1, <2>2, <3>1, <3>2
  <2>4. QED
    BY <1>1, <2>1, <2>2, <2>3 DEF Deadlines, TypeOK
<1>6. ASSUME NEW c \in Clients, NEW t \in Timers, NEW ms \in Periods,
             NEW from_now \in BOOLEAN, ResetCheck(c, t, ms, from_now)
      PROVE  Deadlines'
  BY <1>1, <1>6 DEF ResetCheck, Deadlines, TypeOK, objects, driverSt
<1>7. ASSUME NEW c \in Clients,
             \/ \E t \in Timers : Cancel(c, t)
             \/ AddTimerLocked(c) \/ OnTimerInsertedAtFirst(c)
      PROVE  Deadlines'
  <2>1. /\ UNCHANGED <<now, created, m_ms, m_next, nowMs, newMs>>
        /\ \A e \in Clients : pc'[e] = "reset" => pc[e] = "reset"
    BY <1>1, <1>7 DEF Cancel, AddTimerLocked, InsertAndUnlock, OnTimerInsertedAtFirst,
                      TypeOK, objects, clientSt, driverSt
  <2>2. QED
    BY <2>1 DEF Deadlines
<1>8. ASSUME NEW d \in Drivers,
             \/ GetNextTimer(d) \/ Wake(d) \/ ListReadClock(d) \/ ListCheckEmpty(d)
             \/ \E t \in Timers : RunCallback(d, t)
      PROVE  Deadlines'
  <2>1. /\ UNCHANGED <<now, created, m_ms, m_next, pc, newMs>>
        /\ \A e \in Drivers : nowMs'[e] \in {nowMs[e], now, 0}
    BY <1>1, <1>8 DEF GetNextTimer, Wake, ListReadClock, ListCheckEmpty, RunCallback,
                      TypeOK, objects, clientSt
  <2>2. now \in Nat
    BY <1>1 DEF TypeOK
  <2>3. QED
    BY <2>1, <2>2 DEF Deadlines
<1>9. CASE Environment
  <2>1. /\ UNCHANGED <<created, m_ms, m_next, pc, newMs, nowMs>>
        /\ now' = now \/ (now' = now + 1 /\ now < MaxTime)
    BY <1>9 DEF Environment, Tick, SetClockBack, ReleaseCondition,
                objects, clientSt, driverSt
  <2>2. now \in Nat /\ MaxTime \in Nat
    BY <1>1, TimerAssumption DEF TypeOK
  <2>3. ASSUME NEW t \in created PROVE m_ms[t] \in Nat /\ m_next[t] \in Nat
    BY <1>1 DEF TypeOK
  <2>4. ASSUME NEW d \in Drivers PROVE nowMs[d] \in Nat
    BY <1>1 DEF TypeOK
  <2>5. QED
    BY <2>1, <2>2, <2>3, <2>4 DEF Deadlines
<1>10. CASE UNCHANGED vars
  BY <1>10 DEF Deadlines, vars, objects, clientSt, driverSt
<1>11. QED
  BY <1>2, <1>3, <1>4, <1>5, <1>6, <1>7, <1>8, <1>9, <1>10
     DEF Next, ClientCall, ClientStep, DriverStep
-----------------------------------------------------------------------------
(* Wake-ups *)

\* Nobody is awake, or about to wake a driver, and the clock was not set back.
Quiet ==
  /\ steady
  /\ \A d \in Drivers : dpc[d] = "wait"
  /\ ~tickled
  /\ \A c \in Clients : pc[c] # "notify"

\* Some driver's timeout ends by the deadline of t.
Covered(t) == \E d \in Drivers : wait[d] = 0 \/ wait[d] <= m_next[t] - now

LEMMA WakeupsDefined == NoLostWakeup <=> (Quiet => \A t \in m_timers : Covered(t))
BY DEF NoLostWakeup, Quiet, Covered

\* A timer that is not first comes no earlier than one that is queued.
LEMMA NotFirstIsLater ==
  ASSUME TypeOK, NEW t \in Timers, NEW next \in [Timers -> Nat],
         ~AtFront(t, m_timers \cup {t}, next)
  PROVE  \E s \in m_timers : s # t /\ next[s] <= next[t]
<1>1. PICK s \in (m_timers \cup {t}) \ {t} : ~Before(t, s, next)
  BY DEF AtFront
<1>2. s \in m_timers /\ s # t /\ s \in Timers /\ s \in Nat /\ t \in Nat
  BY <1>1, TimerAssumption DEF TypeOK
<1>3. next[s] \in Nat /\ next[t] \in Nat
  BY <1>2
<1>4. QED
  BY <1>1, <1>2, <1>3 DEF Before

\* The wake-up a queued timer has does for a later one too.
LEMMA CoversLater ==
  ASSUME TypeOK, NEW s \in Timers, Covered(s), NEW deadline \in Nat, m_next[s] <= deadline
  PROVE  \E d \in Drivers : wait[d] = 0 \/ wait[d] <= deadline - now
<1>1. PICK d \in Drivers : wait[d] = 0 \/ wait[d] <= m_next[s] - now
  BY DEF Covered
<1>2. wait[d] \in Nat /\ m_next[s] \in Nat /\ now \in Nat
  BY DEF TypeOK
<1>3. QED
  BY <1>1, <1>2

LEMMA WakeupsStep ==
  ASSUME NoWrap, WInv, [Next]_vars
  PROVE  NoLostWakeup'
<1> SUFFICES ASSUME Quiet', NEW t \in m_timers' PROVE Covered(t)'
  BY DEF NoLostWakeup, Quiet, Covered
<1>1. /\ TypeOK /\ IInv /\ Deadlines /\ TypeOK' /\ steady
      /\ Quiet => \A s \in m_timers : Covered(s)
  <2>1. TypeOK /\ IInv /\ TypeOK'
    BY NextKeeps DEF WInv, IInv
  <2>2. steady
    BY <2>1, SteadyBefore DEF Quiet
  <2>3. QED
    BY <2>1, <2>2, WakeupsDefined DEF WInv
<1>2. /\ m_timers \subseteq created /\ m_timers \subseteq Timers
      /\ t \in Timers /\ m_next[t] \in Nat /\ m_next'[t] \in Nat /\ now \in Nat
      /\ \A d \in Drivers : wait[d] \in Nat
  BY <1>1 DEF TypeOK
<1>3. ASSUME UNCHANGED <<wait, now>>, Quiet,
             \/ t \in m_timers /\ m_next[t] <= m_next'[t]
             \/ \E s \in m_timers : m_next[s] <= m_next'[t]
      PROVE  Covered(t)'
  BY <1>1, <1>2, <1>3, CoversLater DEF Covered
<1>4. ASSUME NEW c \in Clients, NEW u \in Timers, NEW ms \in Periods, NEW cyclic \in BOOLEAN,
             NewTimer(c, u, ms, cyclic)
      PROVE  Covered(t)'
  <2>1. Quiet /\ t \in m_timers /\ UNCHANGED <<wait, now>>
    BY <1>1, <1>4 DEF NewTimer, Quiet, TypeOK, queue, driverSt
  <2>2. m_next'[t] = m_next[t]
    BY <1>1, <1>2, <1>4, <2>1 DEF NewTimer, TypeOK
  <2>3. QED
    BY <1>2, <1>3, <2>1, <2>2
<1>5. ASSUME NEW c \in Clients, AddTimerLocked(c)
      PROVE  Covered(t)'
  <2> DEFINE a == arg[c]
  <2>1. /\ pc[c] = "add" /\ a \in Timers /\ m_timers' = m_timers \cup {a}
        /\ pc' = [pc EXCEPT ![c] = IF AtFront(a, m_timers \cup {a}, m_next)
                                   THEN "notify" ELSE "idle"]
        /\ UNCHANGED <<m_next, wait, now, dpc, tickled>>
    BY <1>1, <1>5 DEF AddTimerLocked, InsertAndUnlock, IInv, AddingInv, TypeOK, driverSt
  <2> HIDE DEF a
  <2>2. Quiet /\ ~AtFront(a, m_timers \cup {a}, m_next)
    BY <1>1, <2>1 DEF Quiet, TypeOK
  <2>3. \E s \in m_timers : m_next[s] <= m_next[a]
    BY <1>1, <2>1, <2>2, NotFirstIsLater DEF TypeOK
  <2>4. QED
    BY <1>2, <1>3, <2>1, <2>2, <2>3
<1>6. ASSUME NEW c \in Clients, ResetLocked(c)
      PROVE  Covered(t)'
  <2> DEFINE a == arg[c]
  <2>1. pc[c] = "reset" /\ a \in Timers /\ UNCHANGED <<wait, now, dpc, tickled>>
    BY <1>1, <1>6 DEF ResetLocked, IInv, AddingInv, TypeOK, driverSt
  <2>2. CASE ~Found(a)
    <3>1. UNCHANGED <<m_next, m_timers>> /\ pc' = [pc EXCEPT ![c] = "idle"]
      BY <1>6, <2>2 DEF ResetLocked
    <3>2. Quiet
      BY <1>1, <2>1, <3>1 DEF Quiet, TypeOK
    <3>3. QED
      BY <1>2, <1>3, <2>1, <3>1, <3>2
  <2>3. CASE Found(a)
    <3>1. \E n : /\ m_next' = [m_next EXCEPT ![a] = n]
                 /\ pc' = [pc EXCEPT ![c] = IF AtFront(a, m_timers \cup {a}, m_next')
                                            THEN "notify" ELSE "idle"]
                 /\ m_timers' = m_timers \cup {a}
      BY <1>6, <2>3 DEF ResetLocked, InsertAndUnlock
    <3> HIDE DEF a
    <3>2. m_timers' = m_timers /\ \A s \in Timers : s # a => m_next'[s] = m_next[s]
      BY <1>1, <2>3, <3>1 DEF Found, TypeOK
    <3>3. Quiet /\ ~AtFront(a, m_timers \cup {a}, m_next')
      BY <1>1, <2>1, <3>1 DEF Quiet, TypeOK
    <3>4. \E s \in m_timers : s # a /\ m_next'[s] <= m_next'[a]
      BY <1>1, <2>1, <3>3, NotFirstIsLater DEF TypeOK
    <3>5. CASE t = a
      BY <1>2, <1>3, <2>1, <3>2, <3>3, <3>4, <3>5
    <3>6. CASE t # a
      BY <1>2, <1>3, <2>1, <3>2, <3>3, <3>6
    <3>7. QED
      BY <3>5, <3>6
  <2>4. QED
    BY <2>2, <2>3
<1>7. ASSUME NEW c \in Clients, NEW u \in Timers, Refresh(c, u)
      PROVE  Covered(t)'
  <2>1. /\ u \in created /\ m_next' = [m_next EXCEPT ![u] = U64(now + m_ms[u])]
        /\ UNCHANGED <<m_timers, wait, now, dpc, tickled, pc>>
    BY <1>7 DEF Refresh, Handles, queue, clientSt, driverSt
  <2>2. m_ms[u] \in Periods /\ m_next[u] <= now + m_ms[u]
    BY <1>1, <2>1 DEF Deadlines
  <2>3. U64(now + m_ms[u]) = now + m_ms[u]
    BY <1>1, <1>2, <2>2, DeadlineOf
  <2>4. m_next[t] <= m_next'[t]
    BY <1>1, <1>2, <2>1, <2>2, <2>3 DEF TypeOK
  <2>5. QED
    BY <1>1, <1>3, <2>1, <2>4 DEF Quiet
<1>8. ASSUME NEW c \in Clients,
             \/ \E u \in Timers : Cancel(c, u)
             \/ \E u \in Timers, ms \in Periods, from_now \in BOOLEAN :
                  ResetCheck(c, u, ms, from_now)
      PROVE  Covered(t)'
  <2>1. m_timers' \subseteq m_timers /\ UNCHANGED <<m_next, wait, now, dpc, tickled>>
    BY <1>8 DEF Cancel, ResetCheck, queue, objects, driverSt
  <2>2. \A e \in Clients : pc[e] = "notify" => pc'[e] = "notify"
    BY <1>1, <1>8 DEF Cancel, ResetCheck, TypeOK, clientSt
  <2>3. QED
    BY <1>1, <1>2, <1>3, <2>1, <2>2 DEF Quiet
<1>9. ASSUME NEW c \in Clients, OnTimerInsertedAtFirst(c)
      PROVE  FALSE
  BY <1>9 DEF OnTimerInsertedAtFirst, Quiet
<1>10. ASSUME NEW d \in Drivers, GetNextTimer(d)
       PROVE  Covered(t)'
  <2>1. /\ wait'[d] = NextTimeout /\ t \in m_timers /\ UNCHANGED <<now, m_next>>
    BY <1>1, <1>10 DEF GetNextTimer, TypeOK, queue, objects
  <2>2. m_next[First] <= m_next[t] /\ First \in Timers
    BY <1>1, <1>2, <2>1, FirstExists
  <2>3. NextTimeout = 0 \/ NextTimeout <= m_next[t] - now
    <3>1. m_next[First] \in Nat
      BY <1>1, <2>2 DEF TypeOK
    <3>2. NextTimeout = 0 \/ NextTimeout = m_next[First] - now
      BY <2>1 DEF NextTimeout
    <3>3. QED
      BY <1>2, <2>2, <3>1, <3>2
  <2>4. QED
    BY <2>1, <2>3 DEF Covered
<1>11. ASSUME NEW d \in Drivers,
              \/ Wake(d) \/ ListReadClock(d) \/ ListCheckEmpty(d) \/ ListCollect(d)
              \/ \E u \in Timers : RunCallback(d, u)
       PROVE  FALSE
  <2>1. dpc'[d] # "wait"
    BY <1>1, <1>11 DEF Wake, ListReadClock, ListCheckEmpty, ListCollect, RunCallback,
                       TypeOK
  <2>2. QED
    BY <2>1 DEF Quiet
<1>12. CASE Tick
  <2>1. /\ now' = now + 1 /\ UNCHANGED <<m_timers, m_next, dpc, tickled, pc>>
        /\ \A d \in Drivers : wait'[d] = IF wait[d] \in {0, Forever} THEN wait[d]
                                         ELSE wait[d] - 1
    BY <1>12 DEF Tick, queue, objects, clientSt
  <2>2. PICK d \in Drivers : wait[d] = 0 \/ wait[d] <= m_next[t] - now
    BY <1>1, <2>1 DEF Quiet, Covered
  <2>3. m_next[t] - now <= m_ms[t] /\ m_ms[t] < Forever /\ m_ms[t] \in Nat
    BY <1>1, <1>2, <2>1, PeriodStarted DEF WInv
  <2>4. wait[d] # Forever \/ wait[d] = 0
    BY <1>2, <2>2, <2>3, TimerAssumption DEF Forever
  <2>5. wait'[d] = 0 \/ wait'[d] <= m_next[t] - (now + 1)
    BY <1>2, <2>1, <2>2, <2>4
  <2>6. QED
    BY <2>1, <2>5 DEF Covered
<1>13. CASE UNCHANGED vars \/ \E u \in Conditional : ReleaseCondition(u)
  BY <1>1, <1>2, <1>3, <1>13
     DEF ReleaseCondition, vars, queue, objects, clientSt, driverSt, Quiet
<1>14. CASE \E k \in BackSteps : SetClockBack(k)
  BY <1>14 DEF SetClockBack, Quiet
<1>15. QED
  BY <1>4, <1>5, <1>6, <1>7, <1>8, <1>9, <1>10, <1>11, <1>12, <1>13, <1>14
     DEF Next, ClientCall, ClientStep, DriverStep, Environment
-----------------------------------------------------------------------------
(* Expiry *)

\* A driver that collects makes what another has read older than the last time
\* read, and never its own.
LEMMA ReadBeforeStep ==
  ASSUME IInv, Deadlines, ReadBefore, [Next]_vars, steady'
  PROVE  ReadBefore'
<1>1. TypeOK
  BY DEF IInv
<1>2. /\ now \in Nat /\ m_previous_time \in Nat /\ StartTime \in Nat
      /\ \A d \in Drivers : nowMs[d] \in Nat
  BY <1>1, TimerAssumption DEF TypeOK
<1>3. ASSUME NEW d \in Drivers, ListReadClock(d) PROVE ReadBefore'
  BY <1>1, <1>2, <1>3 DEF ListReadClock, ReadBefore, TypeOK, queue
<1>4. ASSUME NEW d \in Drivers, ListCheckEmpty(d) PROVE ReadBefore'
  BY <1>1, <1>2, <1>4 DEF ListCheckEmpty, ReadBefore, TypeOK, queue
<1>5. ASSUME NEW d \in Drivers, ListCollect(d) PROVE ReadBefore'
  <2>1. m_previous_time' = nowMs[d] /\ now' = now /\ dpc[d] = "collect"
    BY <1>5 DEF ListCollect
  <2>2. \A e \in Drivers :
          dpc'[e] \in {"check", "collect"} =>
            e # d /\ dpc'[e] = dpc[e] /\ nowMs'[e] = nowMs[e]
    BY <1>1, <1>5 DEF ListCollect, TypeOK
  <2>3. StartTime <= nowMs[d] /\ nowMs[d] <= now
    BY <2>1 DEF ReadBefore, Deadlines
  <2>4. QED
    BY <2>1, <2>2, <2>3 DEF ReadBefore
<1>6. ASSUME NEW d \in Drivers,
             GetNextTimer(d) \/ Wake(d) \/ \E t \in Timers : RunCallback(d, t)
      PROVE  ReadBefore'
  BY <1>1, <1>6 DEF GetNextTimer, Wake, RunCallback, ReadBefore, TypeOK, queue
<1>7. ASSUME NEW c \in Clients, ClientCall(c) \/ ClientStep(c) PROVE ReadBefore'
  <2>1. UNCHANGED <<now, m_previous_time, dpc, nowMs>>
    BY <1>7 DEF ClientCall, ClientStep, NewTimer, Cancel, ResetCheck, Refresh,
                AddTimerLocked, OnTimerInsertedAtFirst, ResetLocked, queue, driverSt
  <2>2. QED
    BY <2>1 DEF ReadBefore
<1>8. CASE Environment
  <2>1. UNCHANGED <<m_previous_time, dpc, nowMs>> /\ now' \in {now, now + 1}
    BY <1>8 DEF Environment, Tick, SetClockBack, ReleaseCondition, queue, driverSt
  <2>2. QED
    BY <1>2, <2>1 DEF ReadBefore
<1>9. CASE UNCHANGED vars
  BY <1>9 DEF ReadBefore, vars, queue, driverSt
<1>10. QED
  BY <1>3, <1>4, <1>5, <1>6, <1>7, <1>8, <1>9 DEF Next, DriverStep

\* Only listExpiredCallback hands out callbacks.
LEMMA HandedByCollect ==
  ASSUME IInv, [Next]_vars, NEW d \in Drivers, NEW t \in fns'[d] \ fns[d]
  PROVE  ListCollect(d)
<1>1. TypeOK
  BY DEF IInv
<1>2. ASSUME NEW e \in Drivers, DriverStep(e), ~ListCollect(d) PROVE FALSE
  <2>1. \/ fns' = fns
        \/ ListCollect(e) /\ e # d
        \/ \E s \in Timers : fns' = [fns EXCEPT ![e] = @ \ {s}]
    BY <1>2 DEF DriverStep, GetNextTimer, Wake, ListReadClock, ListCheckEmpty, RunCallback
  <2>2. ListCollect(e) /\ e # d => fns'[d] = fns[d]
    BY <1>1 DEF ListCollect, TypeOK
  <2>3. QED
    BY <1>1, <2>1, <2>2 DEF TypeOK
<1>3. ASSUME NEW c \in Clients, ClientCall(c) \/ ClientStep(c) PROVE fns' = fns
  BY <1>3 DEF ClientCall, ClientStep, NewTimer, Cancel, ResetCheck, Refresh,
              AddTimerLocked, OnTimerInsertedAtFirst, ResetLocked, driverSt
<1>4. Environment \/ UNCHANGED vars => fns' = fns
  BY DEF Environment, Tick, SetClockBack, ReleaseCondition, vars, driverSt
<1>5. QED
  BY <1>2, <1>3, <1>4 DEF Next

LEMMA ExpiryStep ==
  ASSUME NoWrap, FirstHourOver, EInv, [Next]_vars, steady,
         NEW d \in Drivers, NEW t \in fns'[d] \ fns[d]
  PROVE  now >= PeriodStart(t) + m_ms[t] \/ Stalled(d)
<1>1. TypeOK /\ Deadlines /\ ReadBefore /\ IInv
  BY DEF EInv, IInv
<1>2. dpc[d] = "collect" /\ fns'[d] = Expired(d)
  <2>1. ListCollect(d)
    BY <1>1, HandedByCollect
  <2>2. QED
    BY <1>1, <2>1 DEF ListCollect, TypeOK
<1>3. /\ m_previous_time \in Nat /\ nowMs[d] \in Nat /\ now \in Nat /\ Hour \in Nat
      /\ nowMs[d] <= now /\ m_previous_time <= now
  BY <1>1, TimerAssumption DEF TypeOK, ReadBefore, Deadlines
<1>4. CASE ClockRollover(m_previous_time, nowMs[d])
  <2>1. U64(m_previous_time - Hour) = m_previous_time - Hour
    <3>1. Hour <= m_previous_time /\ m_previous_time <= MaxTime
      BY <1>1, <1>3, TimerAssumption DEF FirstHourOver, ReadBefore, Deadlines
    <3>2. m_previous_time - Hour \in 0 .. Word - 1
      BY <1>3, <3>1, TimerAssumption
    <3>3. QED
      BY <3>2, Unwrapped
  <2>2. nowMs[d] < m_previous_time /\ nowMs[d] < m_previous_time - Hour
    BY <1>4, <2>1 DEF ClockRollover
  <2>3. \E e \in Drivers : e # d
    BY <1>1, <1>2, <1>3, <2>2 DEF ReadBefore
  <2>4. now > nowMs[d] + Hour
    BY <1>3, <2>2
  <2>5. QED
    BY <2>3, <2>4 DEF Stalled
<1>5. CASE ~ClockRollover(m_previous_time, nowMs[d])
  <2>1. t \in m_timers /\ m_next[t] <= nowMs[d]
    BY <1>2, <1>5 DEF Expired
  <2>2. /\ PeriodStart(t) = m_next[t] - m_ms[t]
        /\ m_ms[t] \in Nat /\ m_next[t] \in Nat
    BY <1>1, <2>1, PeriodStarted DEF PeriodStart, TypeOK
  <2>3. QED
    BY <1>3, <2>1, <2>2
<1>6. QED
  BY <1>4, <1>5
-----------------------------------------------------------------------------
(* The theorems *)

LEMMA DeadlinesInit ==
  ASSUME Init
  PROVE  Deadlines /\ NoLostWakeup /\ ReadBefore
<1> USE TimerAssumption
<1>1. /\ now = StartTime /\ m_previous_time = StartTime
      /\ created = {} /\ m_timers = {}
      /\ pc = [c \in Clients |-> "idle"]
      /\ nowMs = [d \in Drivers |-> 0] /\ dpc = [d \in Drivers |-> "run"]
  BY DEF Init
<1>2. StartTime \in Nat /\ StartTime <= MaxTime
  OBVIOUS
<1>3. Deadlines
  BY <1>1, <1>2 DEF Deadlines
<1>4. NoLostWakeup /\ ReadBefore
  BY <1>1, <1>2 DEF NoLostWakeup, ReadBefore
<1>5. QED
  BY <1>3, <1>4

\* Until the clock is set back, a driver that sleeps wakes in time for every
\* queued timer, for any number of drivers (timer.cpp:84, 90 and 121).
THEOREM WakesInTime ==
  ASSUME NoWrap
  PROVE  Spec => []NoLostWakeup
<1>1. Init => WInv
  BY InitIInv, DeadlinesInit DEF WInv
<1>2. WInv /\ [Next]_vars => WInv'
  <2> SUFFICES ASSUME WInv, [Next]_vars PROVE WInv'
    OBVIOUS
  <2>1. IInv' /\ NoLostWakeup' /\ IInv /\ TypeOK
    BY NextKeeps, WakeupsStep DEF WInv, IInv
  <2>2. steady' => Deadlines'
    BY <2>1, SteadyBefore, DeadlinesStep DEF WInv
  <2>3. QED
    BY <2>1, <2>2 DEF WInv
<1>3. WInv => NoLostWakeup
  BY DEF WInv
<1>4. QED
  BY <1>1, <1>2, <1>3, PTL DEF Spec

\* Until the clock is set back, and for any number of drivers, a callback is
\* handed out only when its whole period has passed, unless the driver stood
\* still for over an hour while another collected (timer.cpp:165-231).
THEOREM ExpiresInTime ==
  ASSUME NoWrap, FirstHourOver
  PROVE  Spec => NoEarlyExpiry
<1>1. Init => EInv
  BY InitIInv, DeadlinesInit DEF EInv
<1>2. EInv /\ [Next]_vars => EInv'
  <2> SUFFICES ASSUME EInv, [Next]_vars PROVE EInv'
    OBVIOUS
  <2>1. IInv' /\ IInv /\ TypeOK
    BY NextKeeps DEF EInv, IInv
  <2>2. steady' => Deadlines' /\ ReadBefore'
    BY <2>1, SteadyBefore, DeadlinesStep, ReadBeforeStep DEF EInv
  <2>3. QED
    BY <2>1, <2>2 DEF EInv
<1>3. EInv /\ [Next]_vars =>
        [steady => \A d \in Drivers : \A t \in fns'[d] \ fns[d] :
           now >= PeriodStart(t) + m_ms[t] \/ Stalled(d)]_vars
  BY ExpiryStep
<1>4. QED
  BY <1>1, <1>2, <1>3, PTL DEF Spec, NoEarlyExpiry
===============================================================================
