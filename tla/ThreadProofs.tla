--------------------------- MODULE ThreadProofs ---------------------------
(***************************************************************************)
(* Safety of Thread for every set of thread objects.                       *)
(***************************************************************************)
EXTENDS Thread, TLAPS

(***************************************************************************)
(* The inductive invariant, object by object.  The constructor is left by  *)
(* way of the semaphore only when the child has passed both its writes, so *)
(* an object that can be destroyed has a child that no longer points to it.*)
(***************************************************************************)
Handshake(t) ==
  /\ child[t] \in {"born", "half"} =>
        sem[t] = 0 /\ (obj[t] = "starting" \/ obj[t] = "threw")
  /\ child[t] \in {"half", "running", "ended"} => m_id[t] = 1
  /\ obj[t] \in {"built", "joining", "destroyed"} => child[t] \in {"running", "ended"}
  /\ obj[t] = "starting" => child[t] # "none"
  /\ obj[t] = "starting" /\ child[t] \in {"running", "ended"} => sem[t] = 1
  /\ obj[t] = "none" => child[t] = "none"

Bookkeeping(t) ==
  /\ child[t] = "none" => sem[t] = 0
  /\ obj[t] \in {"none", "starting", "built", "joining", "destroyed"} => m_started[t]
  /\ child[t] # "none" => m_started[t]
  /\ child[t] = "none" => obj[t] = "none" \/ (obj[t] = "threw" /\ ~m_started[t])
  /\ data[t].freed = IF child[t] = "ended" \/ (obj[t] = "threw" /\ ~m_started[t])
                     THEN 1 ELSE 0
  /\ handle[t].made = IF child[t] = "none" THEN 0 ELSE 1
  /\ handle[t].released =
       IF obj[t] = "destroyed" \/ (obj[t] = "built" /\ m_joined[t]) THEN 1 ELSE 0
  /\ obj[t] \in {"none", "starting", "threw"} => ~m_joined[t]
  /\ obj[t] = "joining" => m_joined[t]

IInv ==
  /\ TypeOK
  /\ HandshakeHolds
  /\ NoDanglingWrite
  /\ \A t \in Threads : Handshake(t) /\ Bookkeeping(t)

LEMMA IInvInit == ASSUME Init PROVE IInv
BY ThreadAssumption
   DEF Init, IInv, TypeOK, HandshakeHolds, NoDanglingWrite, Handshake,
       Bookkeeping, ThreadAssumption, Procs

LEMMA FatalOutcome ==
  ASSUME Fatal
  PROVE  failed' \in {"none", "abort"}
BY DEF Fatal

(***************************************************************************)
(* One lemma per group of actions.                                         *)
(***************************************************************************)
LEMMA MakeKeeps ==
  ASSUME IInv, Make
  PROVE  IInv'
<1> USE DEF IInv, TypeOK, HandshakeHolds, NoDanglingWrite, Handshake, Bookkeeping
<1>1. PICK p \in Procs, t \in Threads : Construct(p, t) \/ ConstructFails(p, t)
  BY DEF Make
<1>2. CASE Construct(p, t)
  BY <1>2 DEF Construct, Pending
<1>3. CASE ConstructFails(p, t)
  <2>1. failed' \in {"none", "abort"}
    BY <1>3, FatalOutcome DEF ConstructFails
  <2>2. QED
    BY <1>3, <2>1 DEF ConstructFails, DataAfterFailure
<1>4. QED
  BY <1>1, <1>2, <1>3

LEMMA ChildKeeps ==
  ASSUME IInv, NEW t \in Threads, Child(t)
  PROVE  IInv'
<1> USE DEF IInv, TypeOK, HandshakeHolds, NoDanglingWrite, Handshake,
            Bookkeeping, object
<1>1. CASE WriteId(t)
  BY <1>1 DEF WriteId, Writes, After, Touch, Live
<1>2. CASE Notify(t)
  BY <1>2 DEF Notify, Posted, Writes, After, Touch, Live
<1>3. ASSUME Running(t), Ends(t), failed' = "none"
      PROVE  IInv'
  <2>1. child[t] = "running" /\ data[t].freed = 0
    BY <1>3 DEF Running
  <2>2. /\ child' = [child EXCEPT ![t] = "ended"]
        /\ data' = [data EXCEPT ![t].freed = @ + 1]
        /\ UNCHANGED <<obj, maker, m_started, m_joined, m_id, sem, handle, dangling>>
    BY <1>3 DEF Ends, Freed
  <2>3. data'[t].freed = 1 /\ \A u \in Threads \ {t} : data'[u] = data[u]
    BY <2>1, <2>2
  <2>4. TypeOK' /\ HandshakeHolds' /\ NoDanglingWrite'
    <3>1. data' \in [Threads -> [made : 0 .. 1, freed : 0 .. 1]]
      BY <2>1, <2>2
    <3>2. child' \in [Threads -> {"none", "born", "half", "running", "ended"}]
      BY <2>2
    <3>3. QED
      BY <1>3, <2>2, <3>1, <3>2
  <2>5. ASSUME NEW u \in Threads PROVE Handshake(u)' /\ Bookkeeping(u)'
    <3>1. CASE u = t
      BY <2>1, <2>2, <2>3, <3>1
    <3>2. CASE u # t
      <4>1. child'[u] = child[u] /\ data'[u] = data[u]
        BY <2>2, <2>3, <3>2
      <4>2. QED
        BY <2>2, <4>1
    <3>3. QED
      BY <3>1, <3>2
  <2>6. QED
    BY <2>4, <2>5
<1>4. CASE CallbackReturns(t)
  BY <1>3, <1>4 DEF CallbackReturns, Running
<1>5. CASE CallbackThrows(t)
  <2>1. CASE failed' = "none"
    BY <1>3, <1>5, <2>1 DEF CallbackThrows
  <2>2. CASE failed' # "none"
    <3>1. failed' = "abort"
      BY <1>5, <2>2, FatalOutcome DEF CallbackThrows
    <3>2. QED
      BY <1>5, <2>2, <3>1 DEF CallbackThrows
  <2>3. QED
    BY <2>1, <2>2
<1>6. CASE CallbackThrowsOther(t)
  BY <1>6 DEF CallbackThrowsOther
<1>7. QED
  BY <1>1, <1>2, <1>4, <1>5, <1>6 DEF Child

LEMMA UseKeeps ==
  ASSUME IInv, NEW t \in Threads, Use(t)
  PROVE  IInv'
<1> USE DEF IInv, TypeOK, HandshakeHolds, NoDanglingWrite, Handshake, Bookkeeping
<1>1. CASE Constructed(t)
  BY <1>1 DEF Constructed
<1>2. CASE WaitInterrupted(t)
  <2>1. failed' \in {"none", "abort"}
    BY <1>2, FatalOutcome DEF WaitInterrupted
  <2>2. QED
    BY <1>2, <2>1 DEF WaitInterrupted
<1>3. CASE Join(t)
  <2>1. CASE m_joined[t]
    BY <1>3, <2>1 DEF Join
  <2>2. CASE ~m_joined[t]
    <3>1. /\ obj[t] = "built" /\ m_joined' = [m_joined EXCEPT ![t] = TRUE]
          /\ obj' = [obj EXCEPT ![t] = "joining"]
          /\ UNCHANGED <<maker, m_started, child, m_id, sem, data, handle,
                        dangling, failed>>
      BY <1>3, <2>2 DEF Join, Joined
    <3>2. TypeOK' /\ HandshakeHolds' /\ NoDanglingWrite'
      BY <3>1
    <3>3. ASSUME NEW u \in Threads PROVE Handshake(u)' /\ Bookkeeping(u)'
      <4>1. CASE u = t
        BY <2>2, <3>1, <4>1
      <4>2. CASE u # t
        BY <3>1, <4>2
      <4>3. QED
        BY <4>1, <4>2
    <3>4. QED
      BY <3>2, <3>3
  <2>3. QED
    BY <2>1, <2>2
<1>4. CASE JoinReturns(t)
  BY <1>4 DEF JoinReturns, Released
<1>5. CASE Destroy(t)
  BY <1>5 DEF Destroy, MustDetach, Released
<1>6. QED
  BY <1>1, <1>2, <1>3, <1>4, <1>5 DEF Use

THEOREM Invariance == Spec => []IInv
<1>1. IInv /\ [Next]_vars => IInv'
  <2> SUFFICES ASSUME IInv, [Next]_vars PROVE IInv'
    OBVIOUS
  <2>1. CASE UNCHANGED vars
    BY <2>1 DEF vars, object, IInv, TypeOK, HandshakeHolds, NoDanglingWrite,
                Handshake, Bookkeeping
  <2>2. CASE Next
    BY <2>2, MakeKeeps, ChildKeeps, UseKeeps DEF Next
  <2>3. QED
    BY <2>1, <2>2
<1>2. QED
  BY <1>1, IInvInit, PTL DEF Spec

---------------------------------------------------------------------------
(* The properties the runs check. *)

\* Type correctness: no semaphore is posted and nothing freed twice.
THEOREM TypeCorrect == Spec => []TypeOK
<1>1. IInv => TypeOK
  BY DEF IInv
<1>2. QED
  BY <1>1, Invariance, PTL

\* The assertion of thread.cpp:100 holds.
THEOREM AssertionHolds == Spec => []HandshakeHolds
<1>1. IInv => HandshakeHolds
  BY DEF IInv
<1>2. QED
  BY <1>1, Invariance, PTL

\* The child's pointers dangle only where a signal ended the constructor.
THEOREM PointersValid == Spec => []NoDanglingWrite
<1>1. IInv => NoDanglingWrite
  BY DEF IInv
<1>2. QED
  BY <1>1, Invariance, PTL

\* The ThreadData is freed once (thread.cpp:93 and 117).
THEOREM DataOwned == Spec => []DataFreedOnce
<1>1. IInv => DataFreedOnce
  BY DEF IInv, Bookkeeping, DataFreedOnce
<1>2. QED
  BY <1>1, Invariance, PTL

\* The pthread is joined or detached once (thread.cpp:106 and 113).
THEOREM HandleOwned == Spec => []HandleReleasedOnce
<1>1. IInv => HandleReleasedOnce
  <2> SUFFICES ASSUME IInv, NEW t \in Threads
               PROVE  /\ handle[t].released <= handle[t].made
                      /\ obj[t] = "destroyed" => handle[t].released = 1
    BY DEF HandleReleasedOnce
  <2>1. obj[t] \in {"destroyed", "built"} => handle[t].made = 1
    BY DEF IInv, Handshake, Bookkeeping
  <2>2. handle[t].made \in 0 .. 1
    BY DEF IInv, TypeOK
  <2>3. QED
    BY <2>1, <2>2 DEF IInv, Bookkeeping
<1>2. QED
  BY <1>1, Invariance, PTL

\* The child has written before the constructor looks, and writes no more when
\* it has returned (thread.cpp:57 and 100).
THEOREM HandshakeIsSafe == Spec => []HandshakeSafe
<1>1. HandshakeHolds /\ NoDanglingWrite => HandshakeSafe
  BY DEF HandshakeSafe
<1>2. QED
  BY <1>1, AssertionHolds, PointersValid, PTL

\* ThreadData and pthread are each released once (thread.cpp:93, 106 and 117).
THEOREM AllReleasedOnce == Spec => []ReleasedOnce
<1>1. DataFreedOnce /\ HandleReleasedOnce => ReleasedOnce
  BY DEF ReleasedOnce
<1>2. QED
  BY <1>1, DataOwned, HandleOwned, PTL
=============================================================================
