------------------------- MODULE ScopedLockProofs -------------------------
(***************************************************************************)
(* Mutual exclusion by the guards of thread.h, for every set of threads,   *)
(* locks and guards.                                                       *)
(***************************************************************************)
EXTENDS ScopedLock, FiniteSetTheorems, TLAPS

---------------------------------------------------------------------------
(* The inductive invariant. *)

\* A guard inside its lock call is alive, not locked, and its owner's.
WantInv ==
  \A t \in Threads : want[t] # NoGuard =>
     /\ Owner[want[t]] = t
     /\ alive[want[t]]
     /\ ~m_locked[want[t]]

LivingOnly == \A g \in Guards : m_locked[g] => alive[g]

\* The pthread lock l holds what the guards on it say.
Backed(l) ==
  /\ readers[l] = Cardinality(ReadersOf(l))
  /\ \A g \in WritersOf(l) : writer[l] = Owner[g]
  /\ \A g, h \in WritersOf(l) : g = h
  /\ writer[l] # NoThread => WritersOf(l) # {} /\ ReadersOf(l) = {}

LockInv == refused = {} => ~misused /\ \A l \in Locks : Backed(l)

IInv == TypeOK /\ WantInv /\ LivingOnly /\ LockInv

---------------------------------------------------------------------------
(* The sets of guards that say they are locked. *)

LEMMA GuardSetsFinite ==
  ASSUME NEW l
  PROVE  /\ IsFiniteSet(ReadersOf(l))
         /\ Cardinality(ReadersOf(l)) \in Nat
         /\ Cardinality(ReadersOf(l)) = 0 <=> ReadersOf(l) = {}
<1>1. IsFiniteSet(Guards) /\ ReadersOf(l) \in SUBSET Guards
  BY ScopedLockAssumption DEF ScopedLockAssumption, ReadersOf
<1>2. IsFiniteSet(ReadersOf(l))
  BY <1>1, FS_Subset
<1>3. QED
  BY <1>2, FS_CardinalityType, FS_EmptySet

\* Setting m_locked adds the guard to its lock's set and to no other.
LEMMA SetsWhenLocked ==
  ASSUME TypeOK, NEW g \in Guards, NEW l \in Locks,
         m_locked' = [m_locked EXCEPT ![g] = TRUE]
  PROVE  /\ ReadersOf(l)' = ReadersOf(l) \union
              (IF Target[g] = l /\ Reads(g) THEN {g} ELSE {})
         /\ WritersOf(l)' = WritersOf(l) \union
              (IF Target[g] = l /\ ~Reads(g) THEN {g} ELSE {})
BY DEF TypeOK, ReadersOf, WritersOf, Reads

\* Clearing m_locked takes the guard out.
LEMMA SetsWhenCleared ==
  ASSUME TypeOK, NEW g \in Guards, NEW l \in Locks, m_locked' = Cleared(g)
  PROVE  /\ ReadersOf(l)' = ReadersOf(l) \ {g}
         /\ WritersOf(l)' = WritersOf(l) \ {g}
BY DEF TypeOK, ReadersOf, WritersOf, Cleared, Reads

---------------------------------------------------------------------------
(* The steps that change a lock. *)

LEMMA EnterBacked ==
  ASSUME IInv, NEW g \in Guards, Enter(g), refused = {}, NEW l \in Locks
  PROVE  Backed(l)'
<1>0. /\ TypeOK /\ Backed(l) /\ Free(g) /\ Take(g)
      /\ Owner[g] \in Threads /\ Target[g] \in Locks /\ NoThread \notin Threads
      /\ want[Owner[g]] = g /\ ~m_locked[g]
      /\ m_locked' = [m_locked EXCEPT ![g] = TRUE]
  BY ScopedLockAssumption
     DEF IInv, LockInv, Enter, WantInv, ScopedLockAssumption
<1>1. /\ ReadersOf(l)' = ReadersOf(l) \union
           (IF Target[g] = l /\ Reads(g) THEN {g} ELSE {})
      /\ WritersOf(l)' = WritersOf(l) \union
           (IF Target[g] = l /\ ~Reads(g) THEN {g} ELSE {})
  BY <1>0, SetsWhenLocked
<1>2. CASE Target[g] # l
  <2>1. readers'[l] = readers[l] /\ writer'[l] = writer[l]
    BY <1>0, <1>2 DEF Take, TypeOK
  <2>2. ReadersOf(l)' = ReadersOf(l) /\ WritersOf(l)' = WritersOf(l)
    BY <1>1, <1>2
  <2>3. QED
    BY <1>0, <2>1, <2>2 DEF Backed
<1>3. CASE Target[g] = l /\ Reads(g)
  <2>1. /\ writer[l] = NoThread /\ writer'[l] = NoThread
        /\ readers'[l] = readers[l] + 1
    BY <1>0, <1>3 DEF Free, Take, TypeOK
  <2>2. g \notin ReadersOf(l) /\ ReadersOf(l)' = ReadersOf(l) \union {g}
    BY <1>0, <1>1, <1>3 DEF ReadersOf
  <2>3. Cardinality(ReadersOf(l)') = Cardinality(ReadersOf(l)) + 1
    BY <2>2, FS_AddElement, GuardSetsFinite
  <2>4. WritersOf(l)' = WritersOf(l)
    BY <1>1, <1>3
  <2>5. QED
    BY <1>0, <2>1, <2>3, <2>4 DEF Backed
<1>4. CASE Target[g] = l /\ ~Reads(g)
  <2>1. /\ writer[l] = NoThread /\ readers[l] = 0
        /\ writer'[l] = Owner[g] /\ readers'[l] = 0
    BY <1>0, <1>4 DEF Free, Take, TypeOK
  <2>2. ReadersOf(l)' = ReadersOf(l) /\ ReadersOf(l) = {}
    BY <1>0, <1>1, <1>4, <2>1, GuardSetsFinite DEF Backed
  <2>3. WritersOf(l) = {}
    BY <1>0, <2>1, ScopedLockAssumption
       DEF Backed, WritersOf, ScopedLockAssumption
  <2>4. WritersOf(l)' = {g}
    BY <1>1, <1>4, <2>3
  <2>5. QED
    BY <1>0, <2>1, <2>2, <2>4 DEF Backed
<1>5. QED
  BY <1>2, <1>3, <1>4

\* A guard gives back what it has: no lock is misused, and what the others
\* say still holds.
LEMMA ReleaseBacked ==
  ASSUME IInv, NEW g \in Guards, Release(g), refused = {}
  PROVE  ~misused' /\ \A l \in Locks : Backed(l)'
<1>0. /\ TypeOK /\ ~misused /\ (\A l \in Locks : Backed(l))
      /\ Owner[g] \in Threads /\ Target[g] \in Locks /\ NoThread \notin Threads
  BY ScopedLockAssumption DEF IInv, LockInv, ScopedLockAssumption
<1>1. CASE ~m_locked[g]
  <2>1. UNCHANGED <<writer, readers, m_locked, misused>>
    BY <1>1 DEF Release, MustUnlock
  <2>2. QED
    BY <1>0, <2>1 DEF Backed, ReadersOf, WritersOf
<1>2. CASE m_locked[g]
  <2>0. Give(g) /\ m_locked' = Cleared(g)
    BY <1>2 DEF Release, MustUnlock
  <2>1. \A l \in Locks : /\ ReadersOf(l)' = ReadersOf(l) \ {g}
                         /\ WritersOf(l)' = WritersOf(l) \ {g}
    BY <1>0, <2>0, SetsWhenCleared
  <2>2. CASE Reads(g)
    <3>1. g \in ReadersOf(Target[g])
      BY <1>2, <2>2 DEF ReadersOf
    <3>2. writer[Target[g]] = NoThread /\ readers[Target[g]] > 0
      BY <1>0, <3>1, GuardSetsFinite DEF Backed
    <3>3. /\ readers' = [readers EXCEPT ![Target[g]] = @ - 1]
          /\ UNCHANGED <<writer, misused>>
      BY <1>0, <2>0, <3>2 DEF Give, TypeOK
    <3>4. ASSUME NEW l \in Locks PROVE Backed(l)'
      <4>1. WritersOf(l)' = WritersOf(l)
        BY <2>1, <2>2 DEF WritersOf
      <4>2. readers'[l] = Cardinality(ReadersOf(l)')
        <5>1. CASE l = Target[g]
          BY <1>0, <2>1, <3>1, <3>3, <5>1, GuardSetsFinite, FS_RemoveElement
             DEF Backed, TypeOK
        <5>2. CASE l # Target[g]
          <6>1. ReadersOf(l)' = ReadersOf(l)
            BY <2>1, <5>2 DEF ReadersOf
          <6>2. QED
            BY <1>0, <3>3, <5>2, <6>1 DEF Backed, TypeOK
        <5>3. QED
          BY <5>1, <5>2
      <4>3. writer'[l] = writer[l]
        BY <3>3
      <4>4. ReadersOf(l) = {} => ReadersOf(l)' = {}
        BY <2>1
      <4>5. QED
        BY <1>0, <4>1, <4>2, <4>3, <4>4 DEF Backed
    <3>5. QED
      BY <1>0, <3>3, <3>4
  <2>3. CASE ~Reads(g)
    <3>1. g \in WritersOf(Target[g]) /\ writer[Target[g]] = Owner[g]
      BY <1>0, <1>2, <2>3 DEF WritersOf, Backed
    <3>2. /\ writer' = [writer EXCEPT ![Target[g]] = NoThread]
          /\ UNCHANGED <<readers, misused>>
      BY <1>0, <2>0, <3>1 DEF Give, TypeOK
    <3>3. ASSUME NEW l \in Locks PROVE Backed(l)'
      <4>1. ReadersOf(l)' = ReadersOf(l)
        BY <2>1, <2>3 DEF ReadersOf
      <4>2. CASE l = Target[g]
        <5>1. writer'[l] = NoThread
          BY <1>0, <3>2, <4>2 DEF TypeOK
        <5>2. WritersOf(l)' = {}
          BY <1>0, <2>1, <3>1, <4>2 DEF Backed
        <5>3. QED
          BY <1>0, <3>2, <4>1, <5>1, <5>2 DEF Backed
      <4>3. CASE l # Target[g]
        <5>1. writer'[l] = writer[l] /\ readers'[l] = readers[l]
          BY <1>0, <3>2, <4>3 DEF TypeOK
        <5>2. WritersOf(l)' = WritersOf(l)
          BY <2>1, <4>3 DEF WritersOf
        <5>3. QED
          BY <1>0, <4>1, <5>1, <5>2 DEF Backed
      <4>4. QED
        BY <4>2, <4>3
    <3>4. QED
      BY <1>0, <3>2, <3>3
  <2>4. QED
    BY <2>2, <2>3
<1>3. QED
  BY <1>1, <1>2, <1>0 DEF TypeOK

---------------------------------------------------------------------------
(* The invariant holds. *)

LEMMA TypeStep ==
  ASSUME TypeOK, [Next]_vars
  PROVE  TypeOK'
<1> USE ScopedLockAssumption DEF TypeOK, ScopedLockAssumption
<1>1. CASE UNCHANGED vars
  BY <1>1 DEF vars
<1>2. ASSUME NEW g \in Guards, Construct(g) PROVE TypeOK'
  BY <1>2 DEF Construct
<1>3. ASSUME NEW g \in Guards, Lock(g) PROVE TypeOK'
  BY <1>3 DEF Lock
<1>4. ASSUME NEW g \in Guards, Enter(g) PROVE TypeOK'
  BY <1>4 DEF Enter, Take
<1>5. ASSUME NEW g \in Guards, EnterRefused(g) PROVE TypeOK'
  BY <1>5 DEF EnterRefused
<1>6. ASSUME NEW g \in Guards, Release(g), UNCHANGED <<want, refused>>,
             alive' \in [Guards -> BOOLEAN]
      PROVE  TypeOK'
  <2>1. m_locked' \in [Guards -> BOOLEAN]
    BY <1>6 DEF Release, Cleared
  <2>2. CASE Give(g)
    <3>1. Target[g] \in Locks /\ misused' \in BOOLEAN
      BY <2>2 DEF Give
    <3>2. writer' \in [Locks -> Threads \union {NoThread}]
      BY <2>2, <3>1 DEF Give
    <3>3. readers' \in [Locks -> Nat]
      <4>1. CASE readers[Target[g]] > 0 /\ readers' = [readers EXCEPT ![Target[g]] = @ - 1]
        BY <3>1, <4>1
      <4>2. CASE UNCHANGED readers
        BY <4>2
      <4>3. QED
        BY <2>2, <4>1, <4>2 DEF Give
    <3>4. QED
      BY <1>6, <2>1, <3>1, <3>2, <3>3
  <2>3. CASE UNCHANGED <<writer, readers, m_locked, misused>>
    BY <1>6, <2>1, <2>3
  <2>4. QED
    BY <1>6, <2>2, <2>3 DEF Release
<1>7. ASSUME NEW g \in Guards, Unlock(g) \/ Destroy(g) PROVE TypeOK'
  <2>1. Release(g) /\ UNCHANGED <<want, refused>>
    BY <1>7 DEF Unlock, Destroy
  <2>2. alive' \in [Guards -> BOOLEAN]
    <3>1. CASE Unlock(g)
      BY <3>1 DEF Unlock
    <3>2. CASE Destroy(g)
      BY <3>2 DEF Destroy
    <3>3. QED
      BY <1>7, <3>1, <3>2
  <2>3. QED
    BY <1>6, <2>1, <2>2
<1>8. QED
  BY <1>1, <1>2, <1>3, <1>4, <1>5, <1>7 DEF Next

LEMMA IInvInit ==
  ASSUME Init
  PROVE  IInv
<1>1. TypeOK /\ WantInv /\ LivingOnly
  BY DEF Init, TypeOK, WantInv, LivingOnly
<1>2. \A l \in Locks : ReadersOf(l) = {} /\ WritersOf(l) = {}
  BY DEF Init, ReadersOf, WritersOf
<1>3. \A l \in Locks : Backed(l)
  BY <1>2, FS_EmptySet DEF Init, Backed
<1>4. QED
  BY <1>1, <1>3 DEF Init, IInv, LockInv

LEMMA IInvStep ==
  ASSUME IInv, [Next]_vars
  PROVE  IInv'
<1> USE ScopedLockAssumption DEF ScopedLockAssumption
<1>0. TypeOK /\ WantInv /\ LivingOnly /\ TypeOK'
  BY TypeStep DEF IInv
<1>1. CASE UNCHANGED vars
  <2>1. \A l \in Locks : Backed(l)' <=> Backed(l)
    BY <1>1 DEF vars, Backed, ReadersOf, WritersOf
  <2>2. QED
    BY <1>0, <1>1, <2>1 DEF vars, IInv, WantInv, LivingOnly, LockInv
<1>2. ASSUME NEW g \in Guards, Construct(g) \/ Lock(g) PROVE IInv'
  <2>1. WantInv' /\ LivingOnly'
    BY <1>0, <1>2
       DEF Construct, Lock, MayLock, WantInv, LivingOnly, TypeOK, Idle
  <2>2. UNCHANGED <<writer, readers, m_locked, refused, misused>>
    BY <1>2 DEF Construct, Lock
  <2>3. LockInv'
    BY <2>2 DEF IInv, LockInv, Backed, ReadersOf, WritersOf
  <2>4. QED
    BY <1>0, <2>1, <2>3 DEF IInv
<1>3. ASSUME NEW g \in Guards, Enter(g) PROVE IInv'
  <2>1. WantInv' /\ LivingOnly'
    BY <1>0, <1>3 DEF Enter, WantInv, LivingOnly, TypeOK
  <2>2. LockInv'
    BY <1>3, EnterBacked DEF LockInv, IInv, Enter
  <2>3. QED
    BY <1>0, <2>1, <2>2 DEF IInv
<1>4. ASSUME NEW g \in Guards, EnterRefused(g) PROVE IInv'
  <2>1. WantInv' /\ LivingOnly'
    BY <1>0, <1>4 DEF EnterRefused, WantInv, LivingOnly, TypeOK
  <2>2. refused' # {}
    BY <1>4 DEF EnterRefused
  <2>3. QED
    BY <1>0, <2>1, <2>2 DEF IInv, LockInv
<1>5. ASSUME NEW g \in Guards, Unlock(g) \/ Destroy(g) PROVE IInv'
  <2>1. Release(g) /\ Idle(Owner[g]) /\ UNCHANGED <<want, refused>>
    BY <1>5 DEF Unlock, Destroy
  <2>2. m_locked' = Cleared(g)
    BY <1>0, <2>1 DEF Release, Cleared, MustUnlock, TypeOK
  <2>3. WantInv' /\ LivingOnly'
    BY <1>0, <1>5, <2>1, <2>2
       DEF Unlock, Destroy, Cleared, Idle, WantInv, LivingOnly, TypeOK
  <2>4. LockInv'
    BY <2>1, ReleaseBacked DEF LockInv
  <2>5. QED
    BY <1>0, <2>3, <2>4 DEF IInv
<1>6. QED
  BY <1>1, <1>2, <1>3, <1>4, <1>5 DEF Next

THEOREM Invariance == Spec => []IInv
BY IInvInit, IInvStep, PTL DEF Spec

---------------------------------------------------------------------------
(* The properties the runs check. *)

\* Type correctness of the guards and the locks.
THEOREM TypeCorrect == Spec => []TypeOK
<1>1. IInv => TypeOK
  BY DEF IInv
<1>2. QED
  BY <1>1, Invariance, PTL

\* The guards give mutual exclusion (unlock and the destructor, thread.h:51).
THEOREM GuardsExclude == Spec => []Exclusion
<1>1. IInv => Exclusion
  <2> SUFFICES ASSUME IInv, refused = {},
                      NEW l \in Locks, NEW g \in WritersOf(l)
               PROVE  WritersOf(l) \union ReadersOf(l) = {g}
    BY DEF Exclusion
  <2>1. Backed(l) /\ Owner[g] \in Threads /\ NoThread \notin Threads
    BY ScopedLockAssumption
       DEF IInv, LockInv, WritersOf, ScopedLockAssumption
  <2>2. writer[l] # NoThread
    BY <2>1 DEF Backed
  <2>3. QED
    BY <2>1, <2>2 DEF Backed
<1>2. QED
  BY <1>1, Invariance, PTL

\* The guards and the pthread locks agree (thread.h:40).
THEOREM GuardsAgree == Spec => []GuardsMatchLocks
<1>1. IInv => GuardsMatchLocks
  <2>1. ASSUME IInv, refused = {}, NEW l \in Locks, NEW t \in Threads
        PROVE  writer[l] = t <=> \E g \in WritersOf(l) : Owner[g] = t
    BY <2>1, ScopedLockAssumption
       DEF IInv, LockInv, Backed, ScopedLockAssumption
  <2>2. QED
    BY <2>1 DEF IInv, LockInv, LivingOnly, Backed, GuardsMatchLocks
<1>2. QED
  BY <1>1, Invariance, PTL

=============================================================================
