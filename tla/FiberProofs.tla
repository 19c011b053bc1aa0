----------------------------- MODULE FiberProofs -----------------------------
(***************************************************************************)
(* Safety of Fiber for every set of threads and of fibers.                  *)
(***************************************************************************)
EXTENDS Fiber, SequenceTheorems, TLAPS

Alive(o) == m_state[o] \notin {"NONE", "GONE"}

\* No element occurs twice in s.
Distinct(s) == \A i, j \in 1 .. Len(s) : s[i] = s[j] => i = j

(***************************************************************************)
(* The inductive invariant.  After a failure the program does nothing more, *)
(* so that most of it is about the time before.                             *)
(***************************************************************************)
Typed ==
  /\ t_fiber \in [Threads -> Objects \union {None}]
  /\ run \in [Threads -> Objects \union {None}]
  /\ pc \in [Threads -> {"run", "back", "swapOut", "tickle"}]
  /\ m_state \in [Objects -> Waiting \union Over \union {"NONE", "EXEC", "GONE"}]
  /\ m_ctx \in [Objects -> Objects \union {"none", "fresh", "stale"}]
  /\ flow \in [Fibers -> {"unborn", "begun", "over"}]
  /\ caller \in [Fibers -> Objects \union {None}]
  /\ m_task_list \in Seq(Fibers) /\ tickled \in BOOLEAN
  /\ held \subseteq Fibers /\ taken \in [Threads -> Fibers \union {None}]
  /\ s_fiber_count \in Nat
  /\ thrown \in BOOLEAN /\ early \in BOOLEAN /\ letGo \in BOOLEAN
  /\ failed \in {"none", "assert", "stale", "freed"}

ThisIsAlive == \A th \in Threads : t_fiber[th] # None => Alive(t_fiber[th])

\* A context is only ever used for the flow of its own object.
OwnContext == \A o \in Objects : m_ctx[o] \in {o, "none", "fresh", "stale"}

\* A thread has a master fiber when fibers run in it, and the flows that were
\* left for the one that runs are where it will look for them.
Thread(th) ==
  /\ m_state[th] \in {"NONE", "EXEC", "GONE"}
  /\ ~HasMaster(th) => t_fiber[th] = None /\ run[th] \in {th, None}
  /\ HasMaster(th) =>
       /\ run[th] \in Fibers \union {th}
       /\ \/ t_fiber[th] = run[th]
          \/ th = RootThread /\ run[th] = Root /\ t_fiber[th] = th
  /\ run[th] \in Fibers => m_ctx[th] = th
  /\ th = RootThread /\ run[th] \in Fibers \ {Root} =>
       m_ctx[Root] = Root /\ flow[Root] = "begun"
  /\ pc[th] \in {"back", "swapOut"} => run[th] \in Fibers
  /\ pc[th] = "swapOut" => run[th] # Root
  /\ pc[th] = "back" /\ run[th] = Root => flow[Root] = "over"
  /\ pc[th] = "back" /\ th = RootThread /\ run[th] # Root => flow[run[th]] = "begun"
  /\ taken[th] # Root

\* A fiber runs in one thread, knows who swapped it in, and lasts until it
\* leaves unless its owner lets go of it.
Running(th, f) ==
  /\ caller[f] = IF f = Root THEN RootThread ELSE MainFiber(th)
  /\ f = Root => th = RootThread
  /\ m_ctx[f] = "stale"
  /\ flow[f] \in {"begun", "over"}
  /\ flow[f] = "over" => pc[th] \in {"back", "swapOut"}
  /\ taken[th] = f \/ f \in held \/ letGo
  /\ \A u \in Threads : run[u] = f => u = th

\* The state of a fiber follows its flow, and it lives while it is used.
Life(f) ==
  /\ flow[f] = "unborn" => m_state[f] \in {"NONE", "INIT", "GONE"}
  /\ flow[f] = "begun" => m_state[f] \in {"EXEC", "HOLD"}
  /\ flow[f] = "over" => m_state[f] \in {"TERM", "EXEC", "GONE"}
  /\ flow[f] = "over" /\ m_state[f] = "EXEC" => thrown
  /\ caller[f] # None =>
       Alive(f) /\ ((\E th \in Threads : run[th] = f) \/ (f = Root /\ flow[f] = "begun"))
  /\ f \in held \/ TaskOwns(f) => Alive(f)
  /\ Queued(f) /\ caller[f] # None => early

RootFiber ==
  /\ flow[Root] = "begun" => Root \in held /\ caller[Root] = RootThread
  /\ m_state[Root] # "HOLD"

Queue == Distinct(m_task_list) /\ ~Queued(Root)

Core ==
  /\ OwnContext /\ RootFiber /\ Queue
  /\ \A th \in Threads : Thread(th)
  /\ \A th \in Threads : run[th] \in Fibers => Running(th, run[th])
  /\ \A f \in Fibers : Life(f)

IInv ==
  /\ Typed /\ ThisIsAlive
  /\ WaitingIsResumable /\ FailuresAreKnown /\ QueuedIsTickled
  /\ failed = "none" => Core
-----------------------------------------------------------------------------
(* The objects, and the task list. *)

LEMMA ObjectsDiffer ==
  /\ RootThread \in Threads /\ Root \in Fibers
  /\ \A th \in Threads : th \notin Fibers /\ th # None /\ th \in Objects
  /\ \A f \in Fibers : f \notin Threads /\ f # None /\ f \in Objects
  /\ \A o \in Objects : o # None /\ o \notin {"none", "fresh", "stale"}
  /\ \A th \in Threads : MainFiber(th) \in {th, Root}
BY FiberAssumption DEF FiberAssumption, Objects, MainFiber

LEMMA RemoveAtProperties ==
  ASSUME NEW S, NEW s \in Seq(S), NEW i \in 1 .. Len(s), Distinct(s)
  PROVE  /\ RemoveAt(s, i) \in Seq(S)
         /\ Distinct(RemoveAt(s, i))
         /\ \A e : Contains(RemoveAt(s, i), e) <=> Contains(s, e) /\ e # s[i]
<1> DEFINE a == SubSeq(s, 1, i - 1)
           b == SubSeq(s, i + 1, Len(s))
           t == RemoveAt(s, i)
<1>1. Len(s) \in Nat /\ i \in Nat /\ \A j \in 1 .. Len(s) : s[j] \in S
  BY LenProperties
<1>2. /\ a \in Seq(S) /\ Len(a) = i - 1
      /\ \A j \in 1 .. i - 1 : a[j] = s[j]
  <2>1. \A j \in 1 .. i - 1 : s[j] \in S
    BY <1>1
  <2>2. /\ a \in Seq(S) /\ Len(a) = IF 1 <= i - 1 THEN (i - 1) - 1 + 1 ELSE 0
        /\ \A j \in 1 .. (i - 1) - 1 + 1 : a[j] = s[1 + j - 1]
    BY <1>1, <2>1, SubSeqProperties, SMTT(30)
  <2>3. QED
    BY <1>1, <2>2
<1>3. /\ b \in Seq(S) /\ Len(b) = Len(s) - i
      /\ \A j \in 1 .. Len(s) - i : b[j] = s[j + i]
  <2>1. \A j \in i + 1 .. Len(s) : s[j] \in S
    BY <1>1
  <2>2. /\ b \in Seq(S) /\ Len(b) = IF i + 1 <= Len(s) THEN Len(s) - (i + 1) + 1 ELSE 0
        /\ \A j \in 1 .. Len(s) - (i + 1) + 1 : b[j] = s[(i + 1) + j - 1]
    BY <1>1, <2>1, SubSeqProperties, SMTT(30)
  <2>3. QED
    BY <1>1, <2>2
<1>4. t = a \o b
  BY DEF RemoveAt
<1>5. /\ t \in Seq(S) /\ Len(t) = Len(s) - 1
      /\ \A j \in 1 .. Len(t) : t[j] = IF j < i THEN s[j] ELSE s[j + 1]
  <2> HIDE DEF a, b, t
  <2>1. /\ t \in Seq(S) /\ Len(t) = Len(a) + Len(b)
        /\ \A j \in 1 .. Len(a) + Len(b) :
             t[j] = IF j <= Len(a) THEN a[j] ELSE b[j - Len(a)]
    BY <1>2, <1>3, <1>4, ConcatProperties
  <2>2. Len(t) = Len(s) - 1
    BY <1>1, <1>2, <1>3, <2>1
  <2>3. ASSUME NEW j \in 1 .. Len(t) PROVE t[j] = IF j < i THEN s[j] ELSE s[j + 1]
    <3>1. CASE j < i
      BY ONLY <3>1, <2>1, <2>2, <1>1, <1>2, <1>3, j \in 1 .. Len(t)
    <3>2. CASE ~(j < i)
      <4>1. j - (i - 1) \in 1 .. Len(s) - i /\ ~(j <= Len(a)) /\ j \in 1 .. Len(a) + Len(b)
        BY <3>2, <1>1, <1>2, <2>1, <2>2
      <4>2. t[j] = b[j - (i - 1)] /\ b[j - (i - 1)] = s[(j - (i - 1)) + i]
        BY <4>1, <2>1, <1>2, <1>3
      <4>3. (j - (i - 1)) + i = j + 1
        BY <1>1
      <4>4. QED
        BY <3>2, <4>2, <4>3
    <3>3. QED
      BY <3>1, <3>2
  <2>4. QED
    BY <2>1, <2>2, <2>3
<1> HIDE DEF a, b, t
<1>6. Distinct(t)
  <2> DEFINE at(j) == IF j < i THEN j ELSE j + 1
  <2>1. ASSUME NEW j \in 1 .. Len(t) PROVE at(j) \in 1 .. Len(s) /\ t[j] = s[at(j)]
    BY <1>1, <1>5
  <2>2. ASSUME NEW j \in 1 .. Len(t), NEW k \in 1 .. Len(t), at(j) = at(k) PROVE j = k
    BY <1>1, <2>2
  <2> HIDE DEF at
  <2>3. ASSUME NEW j \in 1 .. Len(t), NEW k \in 1 .. Len(t), t[j] = t[k] PROVE j = k
    <3>1. at(j) = at(k)
      BY <2>1, <2>3 DEF Distinct
    <3>2. QED
      BY <2>2, <3>1
  <2>4. QED
    BY <2>3 DEF Distinct
<1>7. ASSUME NEW e PROVE Contains(t, e) <=> Contains(s, e) /\ e # s[i]
  <2>1. ASSUME NEW j \in 1 .. Len(t), t[j] = e PROVE Contains(s, e) /\ e # s[i]
    BY <1>1, <1>5, <2>1 DEF Contains, Distinct
  <2>2. ASSUME NEW j \in 1 .. Len(s), s[j] = e, e # s[i] PROVE Contains(t, e)
    <3>1. CASE j < i
      BY <1>1, <1>5, <2>2, <3>1 DEF Contains
    <3>2. CASE j > i
      <4>1. j - 1 \in 1 .. Len(t) /\ ~(j - 1 < i) /\ (j - 1) + 1 = j
        BY <1>1, <1>5, <3>2
      <4>2. t[j - 1] = e
        BY <1>5, <4>1, <2>2
      <4>3. QED
        BY <4>1, <4>2 DEF Contains
    <3>3. QED
      BY <1>1, <2>2, <3>1, <3>2
  <2>3. QED
    BY <2>1, <2>2 DEF Contains
<1>8. QED
  BY <1>5, <1>6, <1>7 DEF t

LEMMA ConcatDistinct ==
  ASSUME NEW S, NEW s \in Seq(S), NEW t \in Seq(S), Distinct(s), Distinct(t),
         \A e \in ToSet(t) : ~Contains(s, e)
  PROVE  /\ s \o t \in Seq(S) /\ Distinct(s \o t)
         /\ \A e : Contains(s \o t, e) <=> Contains(s, e) \/ e \in ToSet(t)
<1> DEFINE u == s \o t
<1>1. /\ Len(s) \in Nat /\ Len(t) \in Nat /\ DOMAIN t = 1 .. Len(t)
      /\ u \in Seq(S) /\ Len(u) = Len(s) + Len(t)
      /\ \A i \in 1 .. Len(s) + Len(t) : u[i] = IF i <= Len(s) THEN s[i] ELSE t[i - Len(s)]
  BY LenProperties, ConcatProperties
<1> HIDE DEF u
<1>2. \A i \in 1 .. Len(s) : i \in 1 .. Len(u) /\ u[i] = s[i]
  BY <1>1
<1>3. \A i \in 1 .. Len(t) : i + Len(s) \in 1 .. Len(u) /\ u[i + Len(s)] = t[i]
  BY <1>1
<1>4. \A i \in 1 .. Len(u) :
        \/ i \in 1 .. Len(s) /\ u[i] = s[i]
        \/ i - Len(s) \in 1 .. Len(t) /\ u[i] = t[i - Len(s)]
  BY <1>1
<1>5. Distinct(u)
  <2> SUFFICES ASSUME NEW i \in 1 .. Len(u), NEW j \in 1 .. Len(u), u[i] = u[j]
               PROVE  i = j
    BY DEF Distinct
  <2>1. \A k \in 1 .. Len(t), l \in 1 .. Len(s) : t[k] # s[l]
    BY <1>1 DEF ToSet, Contains
  <2>2. CASE i \in 1 .. Len(s) /\ u[i] = s[i] /\ j \in 1 .. Len(s) /\ u[j] = s[j]
    BY <2>2 DEF Distinct
  <2>3. CASE /\ i - Len(s) \in 1 .. Len(t) /\ u[i] = t[i - Len(s)]
             /\ j - Len(s) \in 1 .. Len(t) /\ u[j] = t[j - Len(s)]
    <3>1. i - Len(s) = j - Len(s)
      BY <2>3 DEF Distinct
    <3>2. QED
      BY <3>1, <1>1
  <2>4. QED
    BY <1>4, <2>1, <2>2, <2>3
<1>6. ASSUME NEW e PROVE Contains(u, e) <=> Contains(s, e) \/ e \in ToSet(t)
  <2>1. e \in ToSet(t) <=> \E i \in 1 .. Len(t) : t[i] = e
    BY <1>1 DEF ToSet
  <2>2. Contains(u, e) => Contains(s, e) \/ e \in ToSet(t)
    BY <2>1, <1>4 DEF Contains
  <2>3. Contains(s, e) => Contains(u, e)
    BY <1>2 DEF Contains
  <2>4. e \in ToSet(t) => Contains(u, e)
    BY <2>1, <1>3 DEF Contains
  <2>5. QED
    BY <2>2, <2>3, <2>4
<1>7. QED
  BY <1>1, <1>5, <1>6 DEF u

\* A batch holds tasks other than the scheduler's own fiber, none of them twice.
LEMMA BatchProperties ==
  ASSUME NEW tasks \in Batches, IsInjective(tasks)
  PROVE  /\ AllPushed(tasks) \in Seq(Fibers) /\ Distinct(AllPushed(tasks))
         /\ Root \notin ToSet(AllPushed(tasks))
<1> USE ObjectsDiffer
<1>1. ASSUME NEW f \in Fibers PROVE /\ <<f>> \in Seq(Fibers) /\ Len(<<f>>) = 1
                                    /\ <<f>>[1] = f /\ ToSet(<<f>>) = {f}
  BY DEF ToSet
<1>2. /\ <<>> \in Seq(Fibers) /\ Len(<<>>) = 0 /\ ToSet(<<>>) = {}
      /\ Distinct(<<>>)
  BY DEF ToSet, Distinct
<1>3. ASSUME NEW f \in (Fibers \ {Root}) \union {None}
      PROVE  /\ Pushed(f) \in Seq(Fibers) /\ Distinct(Pushed(f))
             /\ Root \notin ToSet(Pushed(f))
             /\ \A e : e \in ToSet(Pushed(f)) => e = f
  BY <1>1, <1>2 DEF Pushed, Distinct
<1>4. CASE \E f \in (Fibers \ {Root}) \union {None} : tasks = <<f>>
  BY <1>3, <1>4 DEF AllPushed
<1>5. CASE \E f, g \in (Fibers \ {Root}) \union {None} : tasks = <<f, g>>
  <2>1. PICK f, g \in (Fibers \ {Root}) \union {None} : tasks = <<f, g>>
    BY <1>5
  <2>2. /\ Len(tasks) = 2 /\ tasks[1] = f /\ tasks[2] = g /\ DOMAIN tasks = 1 .. 2
    BY <2>1
  <2>3. f # g
    BY <2>2 DEF IsInjective
  <2>4. AllPushed(tasks) = Pushed(f) \o Pushed(g)
    BY <2>2 DEF AllPushed
  <2>5. \A s \in Seq(Fibers) : \A e : Contains(s, e) <=> e \in ToSet(s)
    BY LenProperties DEF Contains, ToSet
  <2>6. /\ Pushed(f) \o Pushed(g) \in Seq(Fibers) /\ Distinct(Pushed(f) \o Pushed(g))
        /\ \A e : Contains(Pushed(f) \o Pushed(g), e)
                    <=> Contains(Pushed(f), e) \/ e \in ToSet(Pushed(g))
    <3>1. \A e \in ToSet(Pushed(g)) : ~Contains(Pushed(f), e)
      BY <1>3, <2>3, <2>5
    <3>2. QED
      BY <1>3, <3>1, ConcatDistinct
  <2>7. QED
    BY <1>3, <2>4, <2>5, <2>6
<1>6. QED
  BY <1>4, <1>5 DEF Batches
-----------------------------------------------------------------------------
(* The invariant holds at the start and is kept by every action. *)

LEMMA IInvInit == ASSUME Init PROVE IInv
<1> USE ObjectsDiffer
<1>1. /\ t_fiber = [th \in Threads |-> None] /\ run = [th \in Threads |-> th]
      /\ pc = [th \in Threads |-> "run"]
      /\ m_state = [o \in Objects |-> "NONE"] /\ m_ctx = [o \in Objects |-> "none"]
      /\ flow = [f \in Fibers |-> "unborn"] /\ caller = [f \in Fibers |-> None]
      /\ m_task_list = <<>> /\ tickled = FALSE
      /\ held = {} /\ taken = [th \in Threads |-> None] /\ s_fiber_count = 0
      /\ thrown = FALSE /\ early = FALSE /\ letGo = FALSE /\ failed = "none"
  BY DEF Init
<1>2. m_task_list \in Seq(Fibers) /\ 1 .. Len(m_task_list) = {}
  BY <1>1, EmptySeq
<1>3. Typed
  <2>1. /\ t_fiber \in [Threads -> Objects \union {None}]
        /\ run \in [Threads -> Objects \union {None}]
        /\ pc \in [Threads -> {"run", "back", "swapOut", "tickle"}]
        /\ m_state \in [Objects -> Waiting \union Over \union {"NONE", "EXEC", "GONE"}]
        /\ m_ctx \in [Objects -> Objects \union {"none", "fresh", "stale"}]
        /\ flow \in [Fibers -> {"unborn", "begun", "over"}]
        /\ caller \in [Fibers -> Objects \union {None}]
        /\ taken \in [Threads -> Fibers \union {None}]
    BY <1>1
  <2>2. /\ tickled \in BOOLEAN /\ held \subseteq Fibers /\ s_fiber_count \in Nat
        /\ thrown \in BOOLEAN /\ early \in BOOLEAN /\ letGo \in BOOLEAN
        /\ failed \in {"none", "assert", "stale", "freed"}
    BY <1>1
  <2>3. QED
    BY <1>2, <2>1, <2>2 DEF Typed
<1>4. ThisIsAlive /\ WaitingIsResumable
  BY <1>1 DEF ThisIsAlive, WaitingIsResumable
<1>5. FailuresAreKnown /\ QueuedIsTickled
  BY <1>1 DEF FailuresAreKnown, NoStaleResume, AssertionsHold, ForgottenTasksAreSafe,
              QueuedIsTickled
<1>6. OwnContext /\ RootFiber
  BY <1>1 DEF OwnContext, RootFiber
<1>7. Queue /\ \A f \in Fibers : ~Queued(f)
  BY <1>2 DEF Queue, Queued, Contains, Distinct
<1>8. ASSUME NEW th \in Threads PROVE Thread(th) /\ run[th] \notin Fibers
  BY <1>1 DEF Thread, HasMaster
<1>9. ASSUME NEW f \in Fibers PROVE Life(f)
  BY <1>1, <1>7 DEF Life, Alive, TaskOwns, Taken
<1>10. QED
  BY <1>3, <1>4, <1>5, <1>6, <1>7, <1>8, <1>9 DEF IInv, Core

LEMMA NoFailure == failed' = "none" => FailuresAreKnown'
BY DEF FailuresAreKnown, NoStaleResume, AssertionsHold, ForgottenTasksAreSafe

LEMMA QueueFrame ==
  ASSUME UNCHANGED m_task_list
  PROVE  (Queue <=> Queue') /\ \A f \in Fibers : Queued(f)' <=> Queued(f)
BY DEF Queue, Queued, Contains, Distinct

LEMMA TickleFrame ==
  ASSUME QueuedIsTickled, UNCHANGED <<m_task_list, tickled>>,
         \A u \in Threads : pc[u] = "tickle" => pc'[u] = "tickle"
  PROVE  QueuedIsTickled'
BY DEF QueuedIsTickled

LEMMA GetThisKeeps ==
  ASSUME IInv, NEW th \in Threads, GetThis(th)
  PROVE  IInv'
<1> USE ObjectsDiffer
<1>1. /\ failed = "none" /\ failed' = failed /\ run[th] # None
      /\ m_state[th] = "NONE" /\ t_fiber[th] = None
      /\ t_fiber' = [t_fiber EXCEPT ![th] = th]
      /\ m_state' = [m_state EXCEPT ![th] = "EXEC"]
      /\ m_ctx' = [m_ctx EXCEPT ![th] = "stale"]
      /\ s_fiber_count' = s_fiber_count + 1
      /\ UNCHANGED <<run, pc, flow, caller, m_task_list, taken, tickled, held, thrown,
                     early, letGo>>
  BY DEF GetThis, Runs, queueSt, history
<1>2. Typed /\ ThisIsAlive /\ WaitingIsResumable /\ QueuedIsTickled /\ Core
  BY <1>1 DEF IInv
<1>3. /\ \A u \in Threads : t_fiber'[u] = IF u = th THEN th ELSE t_fiber[u]
      /\ \A o \in Objects : m_state'[o] = IF o = th THEN "EXEC" ELSE m_state[o]
      /\ \A o \in Objects : m_ctx'[o] = IF o = th THEN "stale" ELSE m_ctx[o]
      /\ \A f \in Fibers : m_state'[f] = m_state[f] /\ m_ctx'[f] = m_ctx[f]
  BY <1>1, <1>2 DEF Typed
<1>4. Typed'
  BY <1>1, <1>2 DEF Typed
<1>5. ThisIsAlive' /\ WaitingIsResumable' /\ QueuedIsTickled' /\ FailuresAreKnown'
  BY <1>1, <1>2, <1>3, NoFailure
     DEF ThisIsAlive, Alive, WaitingIsResumable, QueuedIsTickled
<1>6. OwnContext' /\ RootFiber' /\ Queue'
  BY <1>1, <1>2, <1>3, QueueFrame DEF Core, OwnContext, RootFiber
<1>7. run[th] = th
  BY <1>1, <1>2 DEF Core, Thread, HasMaster
<1>8. \A u \in Threads : Thread(u)'
  BY <1>1, <1>2, <1>3, <1>7 DEF Core, Thread, HasMaster
<1>9. \A u \in Threads : run'[u] \in Fibers => Running(u, run[u])'
  BY <1>1, <1>2, <1>3 DEF Core, Running
<1>10. \A f \in Fibers : Life(f)'
  BY <1>1, <1>2, <1>3, QueueFrame DEF Core, Life, Alive, TaskOwns, Taken
<1>11. QED
  BY <1>4, <1>5, <1>6, <1>8, <1>9, <1>10 DEF IInv, Core

LEMMA CreateKeeps ==
  ASSUME IInv, NEW th \in Threads, NEW f \in Fibers, Create(th, f)
  PROVE  IInv'
<1> USE ObjectsDiffer
<1>1. /\ failed = "none" /\ failed' = failed /\ m_state[f] = "NONE"
      /\ m_state' = [m_state EXCEPT ![f] = "INIT"]
      /\ m_ctx' = [m_ctx EXCEPT ![f] = "fresh"]
      /\ held' = held \union {f} /\ s_fiber_count' = s_fiber_count + 1
      /\ UNCHANGED <<t_fiber, run, pc, flow, caller, m_task_list, taken, tickled, thrown,
                     early, letGo>>
  BY DEF Create, Runs, queueSt, threadSt, history
<1>2. Typed /\ ThisIsAlive /\ WaitingIsResumable /\ QueuedIsTickled /\ Core
  BY <1>1 DEF IInv
<1>3. /\ \A o \in Objects : m_state'[o] = IF o = f THEN "INIT" ELSE m_state[o]
      /\ \A o \in Objects : m_ctx'[o] = IF o = f THEN "fresh" ELSE m_ctx[o]
      /\ \A u \in Threads : m_state'[u] = m_state[u] /\ m_ctx'[u] = m_ctx[u]
  BY <1>1, <1>2 DEF Typed
<1>4. /\ flow[f] = "unborn" /\ caller[f] = None /\ ~TaskOwns(f)
      /\ \A u \in Threads : run[u] # f
  BY <1>1, <1>2 DEF Core, Life, Alive, Running, Typed
<1>5. Typed'
  BY <1>1, <1>2 DEF Typed, Waiting
<1>6. ThisIsAlive' /\ WaitingIsResumable' /\ QueuedIsTickled' /\ FailuresAreKnown'
  BY <1>1, <1>2, <1>3, NoFailure
     DEF Typed, ThisIsAlive, Alive, WaitingIsResumable, QueuedIsTickled
<1>7. OwnContext' /\ RootFiber' /\ Queue'
  BY <1>1, <1>2, <1>3, QueueFrame DEF Core, OwnContext, RootFiber
<1>8. \A u \in Threads : Thread(u)'
  BY <1>1, <1>2, <1>3, <1>4 DEF Core, Thread, HasMaster
<1>9. \A u \in Threads : run'[u] \in Fibers => Running(u, run[u])'
  BY <1>1, <1>2, <1>3, <1>4 DEF Core, Running, MainFiber
<1>10. \A g \in Fibers : Life(g)'
  <2> SUFFICES ASSUME NEW g \in Fibers PROVE Life(g)'
    OBVIOUS
  <2>1. (Queued(g)' <=> Queued(g)) /\ (TaskOwns(g)' <=> TaskOwns(g))
    BY <1>1, QueueFrame DEF TaskOwns, Taken
  <2>2. Life(g)
    BY <1>2 DEF Core
  <2>3. QED
    BY <1>1, <1>3, <1>4, <2>1, <2>2 DEF Life, Alive
<1>11. QED
  BY <1>5, <1>6, <1>7, <1>8, <1>9, <1>10 DEF IInv, Core

LEMMA ResetKeeps ==
  ASSUME IInv, NEW th \in Threads, NEW f \in Fibers, Reset(th, f)
  PROVE  IInv'
<1> USE ObjectsDiffer
<1>1. /\ failed = "none" /\ f \in held /\ caller[f] = None /\ ~Queued(f)
      /\ flow[f] # "begun"
      /\ UNCHANGED <<t_fiber, run, pc, caller, m_task_list, taken, tickled, held,
                     s_fiber_count, thrown, early, letGo>>
  BY DEF Reset, Spare, Runs, queueSt, threadSt, history
<1>2. Typed /\ ThisIsAlive /\ WaitingIsResumable /\ QueuedIsTickled /\ Core
  BY <1>1 DEF IInv
<1>3. Life(f) /\ \A u \in Threads : run[u] # f
  BY <1>1, <1>2 DEF Core, Running
<1>4. CASE m_state[f] \notin Over
  <2>1. failed' = "assert" /\ UNCHANGED <<m_state, m_ctx, flow>>
    BY <1>4 DEF Reset
  <2>2. thrown
    BY <1>1, <1>2, <1>3, <1>4 DEF Life, Over, Alive, TaskOwns, Typed
  <2>3. Typed'
    BY <1>1, <1>2, <2>1 DEF Typed
  <2>4. ThisIsAlive' /\ WaitingIsResumable' /\ QueuedIsTickled' /\ FailuresAreKnown'
    BY <1>1, <1>2, <2>1, <2>2
       DEF ThisIsAlive, Alive, WaitingIsResumable, QueuedIsTickled, FailuresAreKnown,
           NoStaleResume, AssertionsHold, ForgottenTasksAreSafe
  <2>5. QED
    BY <2>1, <2>3, <2>4 DEF IInv
<1>5. CASE m_state[f] \in Over
  <2>1. /\ m_state' = [m_state EXCEPT ![f] = "INIT"]
        /\ m_ctx' = [m_ctx EXCEPT ![f] = "fresh"]
        /\ flow' = [flow EXCEPT ![f] = "unborn"]
        /\ failed' = failed
    BY <1>5 DEF Reset
  <2>2. /\ \A o \in Objects : m_state'[o] = IF o = f THEN "INIT" ELSE m_state[o]
        /\ \A o \in Objects : m_ctx'[o] = IF o = f THEN "fresh" ELSE m_ctx[o]
        /\ \A g \in Fibers : flow'[g] = IF g = f THEN "unborn" ELSE flow[g]
        /\ \A u \in Threads : m_state'[u] = m_state[u] /\ m_ctx'[u] = m_ctx[u]
    BY <1>2, <2>1 DEF Typed
  <2>3. Typed'
    BY <1>1, <1>2, <2>1 DEF Typed, Waiting
  <2>4. ThisIsAlive' /\ WaitingIsResumable' /\ QueuedIsTickled' /\ FailuresAreKnown'
    BY <1>1, <1>2, <2>1, <2>2, NoFailure
       DEF Typed, ThisIsAlive, Alive, WaitingIsResumable, QueuedIsTickled
  <2>5. OwnContext' /\ RootFiber' /\ Queue'
    BY <1>1, <1>2, <2>2, QueueFrame DEF Core, OwnContext, RootFiber
  <2>6. \A u \in Threads : Thread(u)'
    BY <1>1, <1>2, <1>3, <2>2 DEF Core, Thread, HasMaster
  <2>7. \A u \in Threads : run'[u] \in Fibers => Running(u, run[u])'
    BY <1>1, <1>2, <1>3, <2>2 DEF Core, Running, MainFiber
  <2>8. \A g \in Fibers : Life(g)'
    <3> SUFFICES ASSUME NEW g \in Fibers PROVE Life(g)'
      OBVIOUS
    <3>1. (Queued(g)' <=> Queued(g)) /\ (TaskOwns(g)' <=> TaskOwns(g))
      BY <1>1, QueueFrame DEF TaskOwns, Taken
    <3>2. Life(g)
      BY <1>2 DEF Core
    <3>3. QED
      BY <1>1, <2>2, <3>1, <3>2 DEF Life, Alive
  <2>9. QED
    BY <2>3, <2>4, <2>5, <2>6, <2>7, <2>8 DEF IInv, Core
<1>6. QED
  BY <1>4, <1>5

LEMMA YieldKeeps ==
  ASSUME IInv, NEW th \in Threads, Yield(th) \/ YieldToHold(th)
  PROVE  IInv'
<1> USE ObjectsDiffer
<1>1. /\ failed = "none" /\ failed' = failed /\ pc[th] = "run"
      /\ run[th] \in Fibers \ {Root}
      /\ m_state' = [m_state EXCEPT ![t_fiber[th]] = "HOLD"]
      /\ UNCHANGED <<t_fiber, run, m_ctx, flow, caller, m_task_list, taken, tickled, held,
                     s_fiber_count, thrown, early, letGo>>
  BY DEF Yield, YieldToHold, InTask, Runs, queueSt, history
<1>2. PICK p \in {"back", "swapOut"} : pc' = [pc EXCEPT ![th] = p]
  BY DEF Yield, YieldToHold
<1>3. Typed /\ ThisIsAlive /\ WaitingIsResumable /\ QueuedIsTickled /\ Core
  BY <1>1 DEF IInv
<1> DEFINE f == run[th]
<1>4. f \in Fibers /\ f # Root /\ Running(th, f) /\ Thread(th)
  BY <1>1, <1>3 DEF Core
<1>5. HasMaster(th) /\ t_fiber[th] = f
  BY <1>4 DEF Thread
<1>6. flow[f] = "begun" /\ caller[f] # None
  BY <1>1, <1>4 DEF Running
<1> HIDE DEF f
<1>7. /\ \A o \in Objects : m_state'[o] = IF o = f THEN "HOLD" ELSE m_state[o]
      /\ \A u \in Threads : m_state'[u] = m_state[u]
      /\ \A u \in Threads : pc'[u] = IF u = th THEN p ELSE pc[u]
  BY <1>1, <1>2, <1>3, <1>4, <1>5 DEF Typed
<1>8. Typed'
  BY <1>1, <1>2, <1>3 DEF Typed, Waiting
<1>9. ThisIsAlive' /\ WaitingIsResumable' /\ FailuresAreKnown'
  BY <1>1, <1>3, <1>6, <1>7, NoFailure
     DEF Typed, ThisIsAlive, Alive, WaitingIsResumable
<1>10. QueuedIsTickled'
  BY <1>1, <1>3, <1>7, TickleFrame
<1>11. OwnContext' /\ RootFiber' /\ Queue'
  BY <1>1, <1>3, <1>4, <1>7, QueueFrame DEF Core, OwnContext, RootFiber
<1>12. \A u \in Threads : Thread(u)'
  BY <1>1, <1>3, <1>4, <1>6, <1>7 DEF Core, Thread, HasMaster, f
<1>13. \A u \in Threads : run'[u] \in Fibers => Running(u, run[u])'
  BY <1>1, <1>3, <1>4, <1>6, <1>7 DEF Core, Running, MainFiber
<1>14. \A g \in Fibers : Life(g)'
  <2> SUFFICES ASSUME NEW g \in Fibers PROVE Life(g)'
    OBVIOUS
  <2>1. (Queued(g)' <=> Queued(g)) /\ (TaskOwns(g)' <=> TaskOwns(g))
    BY <1>1, QueueFrame DEF TaskOwns, Taken
  <2>2. Life(g)
    BY <1>3 DEF Core
  <2>3. QED
    BY <1>1, <1>6, <1>7, <2>1, <2>2 DEF Life, Alive
<1>15. QED
  BY <1>8, <1>9, <1>10, <1>11, <1>12, <1>13, <1>14 DEF IInv, Core

LEMMA TickleKeeps ==
  ASSUME IInv, NEW th \in Threads, Tickle(th)
  PROVE  IInv'
<1> USE ObjectsDiffer
<1>1. /\ failed = "none" /\ failed' = failed /\ pc[th] = "tickle"
      /\ pc' = [pc EXCEPT ![th] = "run"] /\ tickled' = TRUE
      /\ UNCHANGED <<t_fiber, run, m_state, m_ctx, flow, caller, m_task_list, taken, held,
                     s_fiber_count, thrown, early, letGo>>
  BY DEF Tickle, history
<1>2. Typed /\ ThisIsAlive /\ WaitingIsResumable /\ Core
  BY <1>1 DEF IInv
<1>3. \A u \in Threads : pc'[u] = IF u = th THEN "run" ELSE pc[u]
  BY <1>1, <1>2 DEF Typed
<1>4. Typed'
  BY <1>1, <1>2 DEF Typed
<1>5. ThisIsAlive' /\ WaitingIsResumable' /\ QueuedIsTickled' /\ FailuresAreKnown'
  BY <1>1, <1>2, NoFailure DEF ThisIsAlive, Alive, WaitingIsResumable, QueuedIsTickled
<1>6. OwnContext' /\ RootFiber' /\ Queue'
  BY <1>1, <1>2, QueueFrame DEF Core, OwnContext, RootFiber
<1>7. \A u \in Threads : Thread(u)'
  BY <1>1, <1>2, <1>3 DEF Core, Thread, HasMaster
<1>8. \A u \in Threads : run'[u] \in Fibers => Running(u, run[u])'
  BY <1>1, <1>2, <1>3 DEF Core, Running, MainFiber
<1>9. \A g \in Fibers : Life(g)'
  BY <1>1, <1>2, QueueFrame DEF Core, Life, Alive, TaskOwns, Taken
<1>10. QED
  BY <1>4, <1>5, <1>6, <1>7, <1>8, <1>9 DEF IInv, Core

LEMMA ScheduleKeeps ==
  ASSUME IInv, NEW th \in Threads, NEW tasks \in Batches, IsInjective(tasks),
         Schedule(th, tasks)
  PROVE  IInv'
<1> USE ObjectsDiffer
<1> DEFINE some == AllPushed(tasks)
<1>1. /\ failed = "none" /\ failed' = failed /\ pc[th] = "run"
      /\ \A f \in ToSet(some) : MaySchedule(th, f)
      /\ m_task_list' = m_task_list \o some
      /\ early' = (early \/ \E f \in ToSet(some) : caller[f] # None)
      /\ pc' = [pc EXCEPT ![th] = IF m_task_list = <<>> THEN "tickle" ELSE "run"]
      /\ UNCHANGED <<t_fiber, run, m_state, m_ctx, flow, caller, taken, tickled, held,
                     s_fiber_count, thrown, letGo>>
  BY DEF Schedule, Runs, NeedTickle
<1>2. Typed /\ ThisIsAlive /\ WaitingIsResumable /\ QueuedIsTickled /\ Core
  BY <1>1 DEF IInv
<1>3. /\ some \in Seq(Fibers) /\ Distinct(some) /\ Root \notin ToSet(some)
  BY BatchProperties
<1> HIDE DEF some
<1>4. /\ m_task_list' \in Seq(Fibers) /\ Distinct(m_task_list')
      /\ \A f : Queued(f)' <=> Queued(f) \/ f \in ToSet(some)
  <2>1. m_task_list \in Seq(Fibers) /\ Distinct(m_task_list)
    BY <1>2 DEF Typed, Core, Queue
  <2>2. \A f \in ToSet(some) : ~Contains(m_task_list, f)
    BY <1>1 DEF MaySchedule, Queued
  <2>3. /\ m_task_list \o some \in Seq(Fibers) /\ Distinct(m_task_list \o some)
        /\ \A f : Contains(m_task_list \o some, f)
                    <=> Contains(m_task_list, f) \/ f \in ToSet(some)
    BY <1>3, <2>1, <2>2, ConcatDistinct
  <2>4. QED
    BY <1>1, <2>3 DEF Queued
<1>5. \A u \in Threads : pc'[u] = IF u = th
                                  THEN IF m_task_list = <<>> THEN "tickle" ELSE "run"
                                  ELSE pc[u]
  BY <1>1, <1>2 DEF Typed
<1>6. Typed'
  <2>1. pc' \in [Threads -> {"run", "back", "swapOut", "tickle"}] /\ early' \in BOOLEAN
    BY <1>1, <1>2 DEF Typed
  <2>2. QED
    BY <1>1, <1>2, <1>4, <2>1 DEF Typed
<1>7. ThisIsAlive' /\ WaitingIsResumable' /\ FailuresAreKnown'
  BY <1>1, <1>2, NoFailure DEF ThisIsAlive, Alive, WaitingIsResumable
<1>8. QueuedIsTickled'
  BY <1>1, <1>2, <1>5 DEF QueuedIsTickled
<1>9. OwnContext' /\ RootFiber' /\ Queue'
  BY <1>1, <1>2, <1>3, <1>4 DEF Core, OwnContext, RootFiber, Queue, Distinct
<1>10. \A u \in Threads : Thread(u)'
  BY <1>1, <1>2, <1>5 DEF Core, Thread, HasMaster
<1>11. \A u \in Threads : run'[u] \in Fibers => Running(u, run[u])'
  BY <1>1, <1>2, <1>5 DEF Core, Running, MainFiber
<1>12. \A g \in Fibers : Life(g)'
  <2> SUFFICES ASSUME NEW g \in Fibers PROVE Life(g)'
    OBVIOUS
  <2>1. Life(g) /\ (Taken(g)' <=> Taken(g))
    BY <1>1, <1>2 DEF Core, Taken
  <2>2. g \in ToSet(some) => Alive(g) /\ (caller[g] # None => early')
    BY <1>1 DEF MaySchedule, Alive, Waiting
  <2>3. QED
    BY <1>1, <1>4, <2>1, <2>2 DEF Life, Alive, TaskOwns
<1>13. QED
  BY <1>6, <1>7, <1>8, <1>9, <1>10, <1>11, <1>12 DEF IInv, Core
-----------------------------------------------------------------------------
(* Switching. *)

\* A swap out of the context of the flow that runs, x, goes on with the flow of
\* y, or finds that y has no flow to resume.
LEMMA SwapsOwnFlow ==
  ASSUME Typed, OwnContext, NEW th \in Threads, NEW x \in Objects, NEW y \in Objects,
         x # y, run[th] = x, SwapContext(th, x, y)
  PROVE  \/ /\ m_ctx[y] \in {y, "fresh"} /\ failed' = failed
            /\ run' = [run EXCEPT ![th] = y]
            /\ \A u \in Threads : run'[u] = IF u = th THEN y ELSE run[u]
            /\ m_ctx' \in [Objects -> Objects \union {"none", "fresh", "stale"}]
            /\ \A o \in Objects : m_ctx'[o] = IF o = y THEN "stale"
                                              ELSE IF o = x THEN x ELSE m_ctx[o]
         \/ /\ m_ctx[y] \in {"none", "stale"} /\ failed' = "stale"
            /\ UNCHANGED <<m_ctx, run>>
<1> USE ObjectsDiffer
<1> DEFINE stored == [m_ctx EXCEPT ![x] = x]
           next == IF stored[y] = "fresh" THEN y ELSE stored[y]
<1>1. /\ \A o \in Objects : stored[o] = IF o = x THEN x ELSE m_ctx[o]
      /\ m_ctx[y] \in {y, "none", "fresh", "stale"}
      /\ \A o \in Objects : m_ctx[o] \in {o, "none", "fresh", "stale"}
  BY DEF Typed, OwnContext
<1>2. Stored(th, x) = stored
  BY DEF Stored
<1>3. CASE m_ctx[y] \in {"none", "stale"}
  BY <1>1, <1>2, <1>3 DEF SwapContext
<1>4. CASE m_ctx[y] \in {y, "fresh"}
  <2>1. next = y /\ stored[y] \notin {"none", "stale"}
    BY <1>1, <1>4
  <2>2. /\ m_ctx' = [o \in Objects |-> IF o = y \/ stored[o] = next THEN "stale"
                                       ELSE stored[o]]
        /\ run' = [run EXCEPT ![th] = next] /\ failed' = failed
    BY <1>2, <2>1 DEF SwapContext
  <2> HIDE DEF stored, next
  <2>3. \A o \in Objects : stored[o] = y => o = y
    BY <1>1
  <2>4. \A o \in Objects : m_ctx'[o] = IF o = y THEN "stale"
                                       ELSE IF o = x THEN x ELSE m_ctx[o]
    BY <1>1, <2>1, <2>2, <2>3
  <2>5. m_ctx' \in [Objects -> Objects \union {"none", "fresh", "stale"}]
    BY <1>1, <2>2
  <2>6. /\ run' = [run EXCEPT ![th] = y]
        /\ \A u \in Threads : run'[u] = IF u = th THEN y ELSE run[u]
    BY <2>1, <2>2 DEF Typed
  <2>7. QED
    BY <1>4, <2>2, <2>4, <2>5, <2>6
<1>5. QED
  BY <1>1, <1>3, <1>4

\* What call and swapIn have in common.  The queue has lost f, if it held it,
\* and the thread has taken f or its owner holds it.
LEMMA SwapInFromKeeps ==
  ASSUME IInv, NEW th \in Threads, NEW f \in Fibers,
         Runs(th), HasMaster(th), m_state[f] \in Waiting,
         caller[f] = None \/ (f # Root /\ early),
         run[th] = IF f = Root THEN RootThread ELSE MainFiber(th),
         f = Root => th = RootThread /\ f \in held,
         SwapInFrom(th, run[th], f),
         m_task_list' \in Seq(Fibers), Distinct(m_task_list'),
         \A e : Queued(e)' <=> Queued(e) /\ e # f,
         taken' \in [Threads -> Fibers \union {None}], tickled' \in BOOLEAN,
         \A u \in Threads : taken'[u] = taken[u] \/ (u = th /\ taken'[u] = f /\ f # Root),
         taken'[th] = f \/ f \in held,
         QueuedIsTickled'
  PROVE  IInv'
<1> USE ObjectsDiffer
<1> DEFINE x == run[th]
<1>1. /\ failed = "none" /\ pc[th] = "run"
      /\ t_fiber' = [t_fiber EXCEPT ![th] = f]
      /\ m_state' = [m_state EXCEPT ![f] = "EXEC"]
      /\ flow' = [flow EXCEPT ![f] = "begun"]
      /\ caller' = [caller EXCEPT ![f] = x]
      /\ UNCHANGED <<pc, held, s_fiber_count, thrown, early, letGo>>
  BY DEF SwapInFrom, Runs, history
<1>2. Typed /\ ThisIsAlive /\ WaitingIsResumable /\ Core
  BY <1>1 DEF IInv
<1>3. /\ \A u \in Threads : t_fiber'[u] = IF u = th THEN f ELSE t_fiber[u]
      /\ \A o \in Objects : m_state'[o] = IF o = f THEN "EXEC" ELSE m_state[o]
      /\ \A u \in Threads : m_state'[u] = m_state[u]
      /\ \A g \in Fibers : flow'[g] = IF g = f THEN "begun" ELSE flow[g]
      /\ \A g \in Fibers : caller'[g] = IF g = f THEN x ELSE caller[g]
  BY <1>1, <1>2 DEF Typed
<1>4. x \in {th, Root} /\ x # None /\ x # f /\ x \in Objects
  BY DEF MainFiber
<1>5. /\ Life(f) /\ flow[f] # "over"
      /\ m_state[f] \in {"INIT", "HOLD"}
  BY <1>2 DEF Core, Life, Waiting, Typed
<1>6. \A u \in Threads : run[u] \in Fibers => Running(u, run[u])
  BY <1>2 DEF Core
<1>7. caller[f] # None => m_ctx[f] = "stale" /\ early
  BY <1>5, <1>6 DEF Life, Running
<1>8. caller[f] = None => m_ctx[f] \in {f, "fresh"} /\ \A u \in Threads : run[u] # f
  BY <1>2, <1>5, <1>6 DEF WaitingIsResumable, Running, MainFiber
<1>9. ThisIsAlive'
  BY <1>2, <1>3 DEF Typed, ThisIsAlive, Alive
<1>10. SwapContext(th, x, f)
  BY DEF SwapInFrom
<1>11. /\ t_fiber' \in [Threads -> Objects \union {None}]
       /\ pc' \in [Threads -> {"run", "back", "swapOut", "tickle"}]
       /\ m_state' \in [Objects -> Waiting \union Over \union {"NONE", "EXEC", "GONE"}]
       /\ flow' \in [Fibers -> {"unborn", "begun", "over"}]
       /\ caller' \in [Fibers -> Objects \union {None}]
       /\ held' \subseteq Fibers /\ s_fiber_count' \in Nat
       /\ thrown' \in BOOLEAN /\ early' \in BOOLEAN /\ letGo' \in BOOLEAN
  BY <1>1, <1>2, <1>4 DEF Typed
<1> HIDE DEF x
<1>12. CASE /\ m_ctx[f] \in {"none", "stale"} /\ failed' = "stale"
            /\ UNCHANGED <<m_ctx, run>>
  <2>1. caller[f] # None /\ early'
    BY <1>1, <1>7, <1>8, <1>12
  <2>2. Typed'
    BY <1>2, <1>11, <1>12 DEF Typed
  <2>3. WaitingIsResumable' /\ FailuresAreKnown'
    BY <1>2, <1>3, <1>12, <2>1
       DEF WaitingIsResumable, FailuresAreKnown, NoStaleResume, AssertionsHold,
           ForgottenTasksAreSafe
  <2>4. QED
    BY <1>9, <1>12, <2>2, <2>3 DEF IInv
<1>13. CASE /\ m_ctx[f] \in {f, "fresh"} /\ failed' = failed
            /\ run' = [run EXCEPT ![th] = f]
            /\ \A u \in Threads : run'[u] = IF u = th THEN f ELSE run[u]
            /\ m_ctx' \in [Objects -> Objects \union {"none", "fresh", "stale"}]
            /\ \A o \in Objects : m_ctx'[o] = IF o = f THEN "stale"
                                              ELSE IF o = x THEN x ELSE m_ctx[o]
  <2>1. caller[f] = None /\ \A u \in Threads : run[u] # f
    BY <1>7, <1>8, <1>13
  <2>2. x \in Fibers => x = Root /\ th = RootThread /\ f # Root /\ flow[Root] = "begun"
    BY <1>1, <1>4, <1>6 DEF Running, MainFiber, x
  <2>3. Typed'
    <3>1. run' \in [Threads -> Objects \union {None}]
      BY <1>2, <1>13 DEF Typed
    <3>2. failed' \in {"none", "assert", "stale", "freed"}
      BY <1>2, <1>13 DEF Typed
    <3>3. QED
      BY <1>11, <1>13, <3>1, <3>2 DEF Typed
  <2>4. WaitingIsResumable' /\ FailuresAreKnown'
    <3>1. x \in Fibers => m_ctx[x] = "stale" /\ m_state[x] # "INIT"
      BY <1>2, <1>6, <2>2 DEF Running, x, Core, Life
    <3>2. QED
      BY <1>1, <1>2, <1>3, <1>13, <2>1, <3>1, NoFailure DEF WaitingIsResumable
  <2>5. OwnContext' /\ RootFiber' /\ Queue'
    BY <1>1, <1>2, <1>3, <1>4, <1>13 DEF Core, OwnContext, RootFiber, Queue, x
  <2>6. ASSUME NEW u \in Threads PROVE Thread(u)'
    <3>1. Thread(u)
      BY <1>2 DEF Core
    <3>2. CASE u = th
      <4>1. m_ctx'[th] = th
        BY <1>4, <1>13, <3>1, <3>2 DEF Thread, x
      <4>2. th = RootThread /\ f # Root => m_ctx'[Root] = Root /\ flow'[Root] = "begun"
        <5>1. ASSUME th = RootThread, f # Root PROVE x = Root
          BY <5>1 DEF MainFiber, x
        <5>2. QED
          BY <1>3, <1>13, <2>2, <5>1
      <4>3. QED
        BY <1>1, <1>3, <1>13, <3>1, <3>2, <4>1, <4>2 DEF Thread, HasMaster
    <3>3. CASE u # th
      <4>1. run'[u] = run[u] /\ m_ctx'[u] = m_ctx[u] /\ taken'[u] = taken[u]
        BY <1>4, <1>13, <3>3
      <4>2. u = RootThread => f # Root /\ x # Root
        BY <3>3, <1>4, <2>2
      <4>3. QED
        BY <1>1, <1>3, <1>13, <2>1, <3>1, <3>3, <4>1, <4>2 DEF Thread, HasMaster
    <3>4. QED
      BY <3>2, <3>3
  <2>7. ASSUME NEW u \in Threads, run'[u] \in Fibers PROVE Running(u, run[u])'
    <3>1. CASE u = th
      BY <1>1, <1>3, <1>13, <2>1, <3>1 DEF Running, MainFiber, x
    <3>2. CASE u # th
      <4>1. run'[u] = run[u] /\ run[u] # f /\ taken'[u] = taken[u] /\ Running(u, run[u])
        BY <1>6, <1>13, <2>1, <2>7, <3>2
      <4>2. run[u] # x
        BY <4>1, <3>2, <2>7 DEF Running, x
      <4>3. QED
        BY <1>1, <1>3, <1>13, <2>7, <3>2, <4>1, <4>2 DEF Running, MainFiber
    <3>3. QED
      BY <3>1, <3>2
  <2>8. ASSUME NEW g \in Fibers PROVE Life(g)'
    <3>1. Life(g)
      BY <1>2 DEF Core
    <3>2. CASE g = f
      BY <1>3, <1>4, <1>13, <3>2 DEF Life, Alive
    <3>3. CASE g # f
      <4>1. Queued(g)' <=> Queued(g)
        BY <3>3
      <4>2. TaskOwns(g)' => TaskOwns(g)
        BY <3>3, <4>1 DEF TaskOwns, Taken
      <4>3. (\E u \in Threads : run[u] = g)
              => (\E u \in Threads : run'[u] = g) \/ (g = Root /\ flow[g] = "begun")
        BY <1>13, <2>2 DEF x
      <4>4. QED
        BY <1>1, <1>3, <3>1, <3>3, <4>1, <4>2, <4>3 DEF Life, Alive
    <3>4. QED
      BY <3>2, <3>3
  <2>9. QED
    BY <1>9, <2>3, <2>4, <2>5, <2>6, <2>7, <2>8 DEF IInv, Core
<1>14. QED
  BY <1>2, <1>4, <1>10, <1>12, <1>13, SwapsOwnFlow DEF Core, x

LEMMA CallKeeps ==
  ASSUME IInv, NEW th \in Threads, NEW f \in Fibers, Call(th, f)
  PROVE  IInv'
<1> USE ObjectsDiffer
<1>1. /\ Runs(th) /\ HasMaster(th) /\ run[th] = th
      /\ (th = RootThread) <=> (f = Root)
      /\ caller[f] = None /\ ~Queued(f) /\ m_state[f] \in Waiting /\ f \in held
      /\ SwapInFrom(th, run[th], f)
      /\ UNCHANGED <<m_task_list, taken, tickled, pc>>
  BY DEF Call, queueSt, SwapInFrom
<1>2. Typed /\ QueuedIsTickled /\ Core
  BY <1>1 DEF IInv, Runs
<1>3. /\ m_task_list' \in Seq(Fibers) /\ Distinct(m_task_list')
      /\ \A e : Queued(e)' <=> Queued(e) /\ e # f
  BY <1>1, <1>2 DEF Core, Queue, Queued, Typed
<1>4. /\ taken' \in [Threads -> Fibers \union {None}] /\ tickled' \in BOOLEAN
      /\ QueuedIsTickled'
  BY <1>1, <1>2 DEF Typed, QueuedIsTickled
<1>5. QED
  BY <1>1, <1>3, <1>4, SwapInFromKeeps DEF MainFiber

LEMMA SwapInKeeps ==
  ASSUME IInv, NEW th \in Threads, NEW f \in Fibers, SwapIn(th, f)
  PROVE  IInv'
<1> USE ObjectsDiffer
<1>1. /\ Runs(th) /\ HasMaster(th) /\ run[th] = MainFiber(th)
      /\ m_state[f] \in Waiting /\ taken[th] = None
      /\ taken' = [taken EXCEPT ![th] = f]
      /\ tickled' = (tickled /\ m_task_list' # <<>>)
      /\ SwapInFrom(th, run[th], f) /\ UNCHANGED pc
  BY DEF SwapIn, SwapInFrom
<1>2. PICK i \in 1 .. Len(m_task_list) :
        m_task_list[i] = f /\ m_task_list' = RemoveAt(m_task_list, i)
  BY DEF SwapIn
<1>3. Typed /\ QueuedIsTickled /\ Core
  BY <1>1 DEF IInv, Runs
<1>4. /\ m_task_list' \in Seq(Fibers) /\ Distinct(m_task_list')
      /\ \A e : Queued(e)' <=> Queued(e) /\ e # f
  <2>1. m_task_list \in Seq(Fibers) /\ Distinct(m_task_list)
    BY <1>3 DEF Typed, Core, Queue
  <2>2. QED
    BY <1>2, <2>1, RemoveAtProperties DEF Queued
<1>5. Queued(f) /\ f # Root /\ (caller[f] = None \/ early)
  BY <1>2, <1>3 DEF Core, Queue, Queued, Contains, Life
<1>6. \A u \in Threads : taken'[u] = IF u = th THEN f ELSE taken[u]
  BY <1>1, <1>3 DEF Typed
<1>7. taken' \in [Threads -> Fibers \union {None}] /\ tickled' \in BOOLEAN
  BY <1>1, <1>3 DEF Typed
<1>8. QueuedIsTickled'
  <2>1. m_task_list # <<>>
    BY <1>2, EmptySeq
  <2>2. QED
    BY <1>1, <1>3, <2>1 DEF QueuedIsTickled, Typed
<1>9. QED
  BY <1>1, <1>4, <1>5, <1>6, <1>7, <1>8, SwapInFromKeeps

\* A flow finds its thread's own, and in the root thread that of the scheduler's
\* fiber, where they were left for it.
LEMMA LeavingFindsFlow ==
  ASSUME Core, Typed, NEW th \in Threads, run[th] \in Fibers,
         NEW y \in {th, MainFiber(th)}, run[th] # y
  PROVE  /\ m_ctx[y] = y /\ y \in Objects /\ Alive(y) /\ HasMaster(th)
         /\ y # th => y = Root /\ th = RootThread /\ flow[Root] = "begun"
<1> USE ObjectsDiffer
<1>1. Thread(th) /\ \A f \in Fibers : Life(f)
  BY DEF Core
<1>2. m_ctx[th] = th /\ HasMaster(th) /\ Alive(th)
  BY <1>1 DEF Thread, HasMaster, Alive
<1>3. ASSUME y # th
      PROVE  y = Root /\ th = RootThread /\ flow[Root] = "begun" /\ m_ctx[Root] = Root
  BY <1>1, <1>3 DEF Thread, MainFiber
<1>4. flow[Root] = "begun" => Alive(Root)
  BY <1>1 DEF Life, Alive
<1>5. QED
  BY <1>2, <1>3, <1>4

\* What swapOut, back and swapOut to the scheduler's fiber have in common.
LEMMA LeavingKeeps ==
  ASSUME IInv, NEW th \in Threads, NEW y \in {th, MainFiber(th)}, NEW m \in {y, th},
         failed = "none", pc[th] # "tickle", run[th] \in Fibers, run[th] # y,
         run[th] = Root => flow[Root] = "over",
         t_fiber' = [t_fiber EXCEPT ![th] = m],
         caller' = [caller EXCEPT ![run[th]] = None],
         pc' = [pc EXCEPT ![th] = "run"],
         SwapContext(th, run[th], y),
         UNCHANGED <<m_state, flow, m_task_list, taken, tickled, held, s_fiber_count,
                     thrown, early, letGo>>
  PROVE  IInv' /\ run'[th] = y /\ failed' = "none"
<1> USE ObjectsDiffer
<1> DEFINE x == run[th]
<1>1. Typed /\ ThisIsAlive /\ WaitingIsResumable /\ QueuedIsTickled /\ Core
  BY DEF IInv
<1>2. /\ m_ctx[y] = y /\ y \in Objects /\ Alive(y) /\ HasMaster(th)
      /\ y # th => y = Root /\ th = RootThread /\ flow[Root] = "begun"
  BY <1>1, LeavingFindsFlow
<1>3. /\ x \in Fibers /\ x # y /\ x \in Objects /\ Running(th, x) /\ Life(x)
      /\ m \in Objects /\ Alive(m)
  BY <1>1, <1>2 DEF Core, HasMaster, Alive
<1>4. /\ failed' = failed
      /\ run' = [run EXCEPT ![th] = y]
      /\ \A u \in Threads : run'[u] = IF u = th THEN y ELSE run[u]
      /\ m_ctx' \in [Objects -> Objects \union {"none", "fresh", "stale"}]
      /\ \A o \in Objects : m_ctx'[o] = IF o = y THEN "stale"
                                        ELSE IF o = x THEN x ELSE m_ctx[o]
  <2>1. y \notin {"none", "stale"} /\ OwnContext
    BY <1>1, <1>2 DEF Core
  <2>2. QED
    BY <1>1, <1>2, <1>3, <2>1, SwapsOwnFlow DEF x
<1>5. /\ \A u \in Threads : t_fiber'[u] = IF u = th THEN m ELSE t_fiber[u]
      /\ \A u \in Threads : pc'[u] = IF u = th THEN "run" ELSE pc[u]
      /\ \A g \in Fibers : caller'[g] = IF g = x THEN None ELSE caller[g]
  BY <1>1, <1>3 DEF Typed, x
<1>6. \A u \in Threads : run[u] \in Fibers => Running(u, run[u])
  BY <1>1 DEF Core
<1>7. \A u \in Threads : u # th => run[u] # x /\ (u = RootThread => y # Root /\ x # Root)
  BY <1>2, <1>3 DEF Running
<1>8. Typed'
  <2>1. /\ t_fiber' \in [Threads -> Objects \union {None}]
        /\ run' \in [Threads -> Objects \union {None}]
        /\ pc' \in [Threads -> {"run", "back", "swapOut", "tickle"}]
        /\ caller' \in [Fibers -> Objects \union {None}]
    BY <1>1, <1>2, <1>3, <1>4 DEF Typed, x
  <2>2. QED
    BY <1>1, <1>4, <2>1 DEF Typed
<1> HIDE DEF x
<1>9. ThisIsAlive' /\ QueuedIsTickled' /\ FailuresAreKnown'
  BY <1>1, <1>3, <1>4, <1>5, NoFailure, TickleFrame DEF ThisIsAlive, Alive
<1>10. WaitingIsResumable'
  <2>1. m_state[x] # "INIT" /\ (y # th => m_state[Root] \notin {"INIT", "HOLD"})
    BY <1>1, <1>2, <1>3 DEF Running, Life, Core, RootFiber
  <2>2. QED
    BY <1>1, <1>2, <1>3, <1>4, <1>5, <2>1 DEF WaitingIsResumable
<1>11. OwnContext' /\ RootFiber' /\ Queue'
  BY <1>1, <1>2, <1>3, <1>4, <1>5, QueueFrame DEF Core, OwnContext, RootFiber, x
<1>12. ASSUME NEW u \in Threads PROVE Thread(u)'
  <2>1. Thread(u)
    BY <1>1 DEF Core
  <2>2. CASE u = th
    <3>1. m_ctx'[th] = th \/ run'[th] = th
      BY <1>2, <1>3, <1>4, <2>1, <2>2 DEF Thread, x
    <3>2. QED
      BY <1>2, <1>3, <1>4, <1>5, <2>1, <2>2, <3>1 DEF Thread, HasMaster
  <2>3. CASE u # th
    BY <1>2, <1>3, <1>4, <1>5, <1>7, <2>1, <2>3 DEF Thread, HasMaster
  <2>4. QED
    BY <2>2, <2>3
<1>13. ASSUME NEW u \in Threads, run'[u] \in Fibers PROVE Running(u, run[u])'
  <2>1. \A v \in Threads : v # th => run[v] # y \/ y = th
    BY <1>2, <1>6 DEF Running
  <2>2. CASE u = th
    <3>1. y = Root /\ th = RootThread /\ flow[Root] = "begun" /\ x # Root
      BY <1>2, <1>3, <1>4, <1>13, <2>2
    <3>2. Root \in held /\ caller[Root] = RootThread
      BY <1>1, <3>1 DEF Core, RootFiber
    <3>3. QED
      BY <1>4, <1>5, <2>1, <2>2, <3>1, <3>2 DEF Running
  <2>3. CASE u # th
    <3>1. run'[u] = run[u] /\ run[u] # x /\ run[u] # y /\ Running(u, run[u])
      BY <1>4, <1>6, <1>7, <1>13, <2>1, <2>3
    <3>2. QED
      BY <1>4, <1>5, <1>13, <2>3, <3>1 DEF Running, MainFiber
  <2>4. QED
    BY <2>2, <2>3
<1>14. ASSUME NEW g \in Fibers PROVE Life(g)'
  <2>1. Life(g) /\ (Queued(g)' <=> Queued(g)) /\ (TaskOwns(g)' <=> TaskOwns(g))
    BY <1>1, QueueFrame DEF Core, TaskOwns, Taken
  <2>2. g # x /\ (\E u \in Threads : run[u] = g) => \E u \in Threads : run'[u] = g
    BY <1>4 DEF x
  <2>3. QED
    BY <1>5, <2>1, <2>2 DEF Life, Alive
<1>15. QED
  BY <1>4, <1>8, <1>9, <1>10, <1>11, <1>12, <1>13, <1>14 DEF IInv, Core

LEMMA SwapOutToKeeps ==
  ASSUME IInv, NEW th \in Threads, SwapOutTo(th)
  PROVE  IInv' /\ run'[th] = MainFiber(th) /\ failed' = "none"
<1>1. /\ failed = "none" /\ pc[th] = "run" /\ run[th] \in Fibers \ {Root}
      /\ t_fiber' = [t_fiber EXCEPT ![th] = MainFiber(th)]
      /\ caller' = [caller EXCEPT ![run[th]] = None]
      /\ SwapContext(th, run[th], MainFiber(th))
      /\ UNCHANGED <<pc, m_state, flow, m_task_list, taken, tickled, held, s_fiber_count,
                     thrown, early, letGo>>
  BY DEF SwapOutTo, InTask, Runs, queueSt, history
<1>2. run[th] # MainFiber(th)
  BY <1>1, ObjectsDiffer DEF MainFiber
<1>3. pc' = [pc EXCEPT ![th] = "run"]
  BY <1>1 DEF IInv, Typed
<1>4. QED
  BY <1>1, <1>2, <1>3, LeavingKeeps

LEMMA LeaveKeeps ==
  ASSUME IInv, NEW th \in Threads, Leave(th)
  PROVE  /\ IInv' /\ failed' = "none"
         /\ run'[th] = IF pc[th] = "back" THEN th ELSE MainFiber(th)
<1> DEFINE y == IF pc[th] = "back" THEN th ELSE MainFiber(th)
           f == IF flow[run[th]] = "over" THEN run[th] ELSE t_fiber[th]
<1>1. /\ failed = "none" /\ pc[th] \in {"back", "swapOut"}
      /\ pc' = [pc EXCEPT ![th] = "run"]
      /\ t_fiber' = [t_fiber EXCEPT ![th] = th]
      /\ caller' = [caller EXCEPT ![run[th]] = None]
      /\ SwapContext(th, f, y)
      /\ UNCHANGED <<m_state, flow, m_task_list, taken, tickled, held, s_fiber_count,
                     thrown, early, letGo>>
  BY DEF Leave, ThisIsMaster, queueSt, history
<1>2. Thread(th)
  BY <1>1 DEF IInv, Core
<1>3. /\ run[th] \in Fibers /\ (run[th] = Root => flow[Root] = "over" /\ pc[th] = "back")
      /\ HasMaster(th)
  BY <1>1, <1>2, ObjectsDiffer DEF Thread
<1>4. f = run[th]
  BY <1>2, <1>3 DEF Thread
<1>5. run[th] # y /\ y \in {th, MainFiber(th)}
  BY <1>3, ObjectsDiffer DEF MainFiber
<1> HIDE DEF f, y
<1>6. IInv' /\ run'[th] = y /\ failed' = "none"
  BY <1>1, <1>3, <1>4, <1>5, LeavingKeeps
<1>7. QED
  BY <1>6 DEF y
-----------------------------------------------------------------------------
(* Ends of threads and of fibers. *)

LEMMA ThreadExitKeeps ==
  ASSUME IInv, NEW th \in Threads, ThreadExit(th)
  PROVE  IInv'
<1> USE ObjectsDiffer
<1>1. /\ failed = "none" /\ run[th] = th /\ m_state[th] \notin {"NONE", "GONE"}
      /\ UNCHANGED <<pc, m_ctx, flow, caller, m_task_list, taken, tickled, held,
                     s_fiber_count, thrown, early, letGo>>
  BY DEF ThreadExit, Runs, queueSt, history
<1>2. Typed /\ ThisIsAlive /\ WaitingIsResumable /\ QueuedIsTickled /\ Core
  BY <1>1 DEF IInv
<1>3. \A u \in Threads : Thread(u)
  BY <1>2 DEF Core
<1>4. m_state[th] = "EXEC" /\ t_fiber[th] = th
  BY <1>1, <1>3 DEF Thread, HasMaster
<1>5. /\ m_state' = [m_state EXCEPT ![th] = "GONE"]
      /\ t_fiber' = [t_fiber EXCEPT ![th] = None]
      /\ run' = [run EXCEPT ![th] = None] /\ failed' = failed
  BY <1>4 DEF ThreadExit, ThisCleared
<1>6. /\ \A o \in Objects : m_state'[o] = IF o = th THEN "GONE" ELSE m_state[o]
      /\ \A f \in Fibers : m_state'[f] = m_state[f]
      /\ \A u \in Threads : t_fiber'[u] = IF u = th THEN None ELSE t_fiber[u]
      /\ \A u \in Threads : run'[u] = IF u = th THEN None ELSE run[u]
  BY <1>2, <1>5 DEF Typed
<1>7. \A u \in Threads : u # th => t_fiber[u] # th
  BY <1>3 DEF Thread, HasMaster
<1>8. Typed'
  <2>1. /\ t_fiber' \in [Threads -> Objects \union {None}]
        /\ run' \in [Threads -> Objects \union {None}]
        /\ m_state' \in [Objects -> Waiting \union Over \union {"NONE", "EXEC", "GONE"}]
    BY <1>2, <1>5 DEF Typed
  <2>2. QED
    BY <1>1, <1>2, <1>5, <2>1 DEF Typed
<1>9. ThisIsAlive'
  BY <1>2, <1>6, <1>7 DEF ThisIsAlive, Alive, Typed
<1>10. WaitingIsResumable' /\ QueuedIsTickled' /\ FailuresAreKnown'
  BY <1>1, <1>2, <1>5, <1>6, NoFailure DEF WaitingIsResumable, QueuedIsTickled
<1>11. OwnContext' /\ RootFiber' /\ Queue'
  BY <1>1, <1>2, <1>6, QueueFrame DEF Core, OwnContext, RootFiber
<1>12. \A u \in Threads : Thread(u)'
  BY <1>1, <1>3, <1>6 DEF Thread, HasMaster
<1>13. \A u \in Threads : run'[u] \in Fibers => Running(u, run[u])'
  BY <1>1, <1>2, <1>6 DEF Core, Running, MainFiber
<1>14. \A g \in Fibers : Life(g)'
  <2> SUFFICES ASSUME NEW g \in Fibers PROVE Life(g)'
    OBVIOUS
  <2>1. Life(g) /\ (Queued(g)' <=> Queued(g)) /\ (TaskOwns(g)' <=> TaskOwns(g))
    BY <1>1, <1>2, QueueFrame DEF Core, TaskOwns, Taken
  <2>2. (\E u \in Threads : run[u] = g) => \E u \in Threads : run'[u] = g
    BY <1>1, <1>6
  <2>3. QED
    BY <1>1, <1>6, <2>1, <2>2 DEF Life, Alive
<1>15. QED
  BY <1>5, <1>8, <1>9, <1>10, <1>11, <1>12, <1>13, <1>14 DEF IInv, Core

\* A shared_ptr to f goes, the owner's or that of a task; if it was the last,
\* and the fiber does not hold itself, f is destroyed.
LEMMA LettingGoKeeps ==
  ASSUME IInv, NEW f \in Fibers, failed = "none",
         held' \subseteq held, held \ {f} \subseteq held',
         f \in held' \/ flow[Root] # "begun" \/ f # Root,
         taken' \in [Threads -> Fibers \union {None}],
         \A u \in Threads : taken'[u] = taken[u] \/ taken'[u] = None,
         letGo' \in BOOLEAN, letGo => letGo',
         \A u \in Threads : run[u] \in Fibers =>
           taken'[u] = run[u] \/ run[u] \in held' \/ letGo',
         \/ UNCHANGED <<m_state, failed>>
         \/ /\ Alive(f) /\ flow[f] # "begun" /\ f \notin held' /\ ~TaskOwns(f)'
            /\ Destroyed(f, m_state[f]),
         UNCHANGED <<t_fiber, run, pc, m_ctx, flow, caller, m_task_list, tickled,
                     s_fiber_count, thrown, early>>
  PROVE  IInv'
<1> USE ObjectsDiffer
<1>1. Typed /\ ThisIsAlive /\ WaitingIsResumable /\ QueuedIsTickled /\ Core
  BY DEF IInv
<1>2. \A u \in Threads : run[u] \in Fibers => Running(u, run[u])
  BY <1>1 DEF Core
<1> DEFINE dies == /\ m_state' = [m_state EXCEPT ![f] = "GONE"]
                   /\ caller[f] = None /\ flow[f] # "begun"
                   /\ f \notin held' /\ ~TaskOwns(f)'
<1>3. \/ UNCHANGED <<m_state, failed>>
      \/ dies /\ failed' = failed
      \/ m_state' = m_state /\ failed' = "assert" /\ thrown
      \/ m_state' = m_state /\ failed' = "freed" /\ letGo'
  <2>1. SUFFICES ASSUME Alive(f), flow[f] # "begun", f \notin held', ~TaskOwns(f)',
                        Destroyed(f, m_state[f])
                 PROVE  \/ dies /\ failed' = failed
                        \/ m_state' = m_state /\ failed' = "assert" /\ thrown
                        \/ m_state' = m_state /\ failed' = "freed" /\ letGo'
    OBVIOUS
  <2>2. Life(f)
    BY <1>1 DEF Core
  <2>3. m_state[f] \in Over \/ thrown
    BY <1>1, <2>1, <2>2 DEF Life, Alive, Over, Typed
  <2>4. caller[f] # None => letGo'
    BY <2>1, <2>2 DEF Life, TaskOwns, Taken
  <2>5. /\ m_state' = [m_state EXCEPT ![f] = IF m_state[f] \in Over /\ caller[f] = None
                                             THEN "GONE" ELSE m_state[f]]
        /\ failed' = IF m_state[f] \notin Over THEN "assert"
                     ELSE IF caller[f] # None THEN "freed" ELSE failed
    BY <2>1 DEF Destroyed
  <2>6. [m_state EXCEPT ![f] = m_state[f]] = m_state
    BY <1>1 DEF Typed
  <2>7. QED
    BY <2>1, <2>3, <2>4, <2>5, <2>6
<1>4. dies \/ m_state' = m_state
  BY <1>3
<1>5. /\ \A g \in Fibers \ {f} : m_state'[g] = m_state[g]
      /\ \A u \in Threads : m_state'[u] = m_state[u]
      /\ m_state'[f] = m_state[f] \/ (dies /\ m_state'[f] = "GONE")
  BY <1>1, <1>4 DEF Typed
<1>6. \A u \in Threads : dies => run[u] # f
  BY <1>2 DEF Running, MainFiber
<1>7. Typed'
  <2>1. m_state' \in [Objects -> Waiting \union Over \union {"NONE", "EXEC", "GONE"}]
    BY <1>1, <1>4 DEF Typed
  <2>2. failed' \in {"none", "assert", "stale", "freed"}
    BY <1>1, <1>3 DEF Typed
  <2>3. held' \subseteq Fibers
    BY <1>1 DEF Typed
  <2> HIDE DEF dies
  <2>4. QED
    BY <1>1, <2>1, <2>2, <2>3 DEF Typed
<1> HIDE DEF dies
<1>8. ThisIsAlive'
  <2> SUFFICES ASSUME NEW u \in Threads, t_fiber[u] # None PROVE Alive(t_fiber[u])'
    BY DEF ThisIsAlive
  <2>1. Thread(u) /\ Alive(t_fiber[u]) /\ t_fiber[u] \in Objects
    BY <1>1 DEF ThisIsAlive, Core, Typed
  <2>2. t_fiber[u] \in Fibers => t_fiber[u] = run[u]
    BY <2>1 DEF Thread
  <2>3. t_fiber[u] \in Threads \/ t_fiber[u] \in Fibers
    BY <2>1 DEF Objects
  <2>4. QED
    BY <1>5, <1>6, <2>1, <2>2, <2>3 DEF Alive
<1>9. WaitingIsResumable' /\ QueuedIsTickled' /\ FailuresAreKnown'
  <2>1. FailuresAreKnown'
    BY <1>3 DEF FailuresAreKnown, NoStaleResume, AssertionsHold, ForgottenTasksAreSafe
  <2>2. QED
    BY <1>1, <1>5, <2>1 DEF WaitingIsResumable, QueuedIsTickled
<1>10. OwnContext' /\ RootFiber' /\ Queue'
  <2>1. Queue'
    BY <1>1, QueueFrame DEF Core
  <2>2. QED
    BY <1>1, <1>5, <2>1 DEF Core, OwnContext, RootFiber
<1>11. \A u \in Threads : Thread(u)'
  BY <1>1, <1>5 DEF Core, Thread, HasMaster
<1>12. \A u \in Threads : run'[u] \in Fibers => Running(u, run[u])'
  BY <1>2 DEF Running, MainFiber
<1>13. ASSUME NEW g \in Fibers PROVE Life(g)'
  <2>1. Life(g) /\ (Queued(g)' <=> Queued(g)) /\ (TaskOwns(g)' => TaskOwns(g))
    BY <1>1, QueueFrame DEF Core, TaskOwns, Taken
  <2>2. CASE m_state'[g] = m_state[g]
    BY <2>1, <2>2 DEF Life, Alive
  <2>3. CASE g = f /\ dies /\ m_state'[f] = "GONE"
    BY <1>1, <2>1, <2>3 DEF Life, Alive, dies, Typed
  <2>4. QED
    BY <1>5, <2>2, <2>3
<1>14. QED
  BY <1>7, <1>8, <1>9, <1>10, <1>11, <1>12, <1>13 DEF IInv, Core

LEMMA DropKeeps ==
  ASSUME IInv, NEW th \in Threads, NEW f \in Fibers, Drop(th, f)
  PROVE  IInv'
<1> USE ObjectsDiffer
<1>1. /\ failed = "none" /\ f \in held /\ (f = Root => flow[f] # "begun")
      /\ held' = held \ {f}
      /\ letGo' = (letGo \/ \E o \in Threads : run[o] = f /\ taken[o] # f)
      /\ IF TaskOwns(f) \/ OwnsItself(f)
         THEN UNCHANGED <<m_state, failed>> ELSE Destroyed(f, m_state[f])
      /\ UNCHANGED <<t_fiber, run, pc, m_ctx, flow, caller, m_task_list, taken, tickled,
                     s_fiber_count, thrown, early>>
  BY DEF Drop, Runs, threadSt, queueSt
<1>2. Typed /\ Core
  BY <1>1 DEF IInv
<1>3. TaskOwns(f)' <=> TaskOwns(f)
  BY <1>1, QueueFrame DEF TaskOwns, Taken
<1>4. Alive(f)
  BY <1>1, <1>2 DEF Core, Life
<1>5. \/ UNCHANGED <<m_state, failed>>
      \/ /\ Alive(f) /\ flow[f] # "begun" /\ f \notin held' /\ ~TaskOwns(f)'
         /\ Destroyed(f, m_state[f])
  BY <1>1, <1>3, <1>4 DEF OwnsItself
<1>6. letGo' \in BOOLEAN /\ (letGo => letGo')
  BY <1>1, <1>2 DEF Typed
<1>7. ASSUME NEW u \in Threads, run[u] \in Fibers
      PROVE  taken'[u] = run[u] \/ run[u] \in held' \/ letGo'
  BY <1>1, <1>2, <1>7 DEF Core, Running
<1>8. taken' \in [Threads -> Fibers \union {None}]
  BY <1>1, <1>2 DEF Typed
<1>9. held' \subseteq held /\ held \ {f} \subseteq held'
  BY <1>1
<1>10. f \in held' \/ flow[Root] # "begun" \/ f # Root
  BY <1>1
<1>11. \A u \in Threads : taken'[u] = taken[u] \/ taken'[u] = None
  BY <1>1
<1>12. QED
  BY <1>1, <1>5, <1>6, <1>7, <1>8, <1>9, <1>10, <1>11, LettingGoKeeps

LEMMA LetGoKeeps ==
  ASSUME IInv, NEW th \in Threads, LetGo(th)
  PROVE  IInv'
<1> USE ObjectsDiffer
<1> SUFFICES ASSUME NEW f \in Fibers \union {None}, f = taken[th] PROVE IInv'
  BY DEF LetGo, Runs, IInv, Typed
<1>1. /\ failed = "none" /\ run[th] = MainFiber(th) /\ f # None
      /\ taken' = [taken EXCEPT ![th] = None]
      /\ IF \/ f \in held \/ Queued(f) \/ OwnsItself(f)
            \/ \E other \in Threads \ {th} : taken[other] = f
         THEN UNCHANGED <<m_state, failed>> ELSE Destroyed(f, m_state[f])
      /\ UNCHANGED <<t_fiber, run, pc, m_ctx, flow, caller, m_task_list, tickled, held,
                     s_fiber_count, thrown, early, letGo>>
  BY DEF LetGo, Runs, threadSt, history
<1>2. Typed /\ Core
  BY <1>1 DEF IInv
<1>3. f \in Fibers /\ f # Root /\ Taken(f)
  BY <1>1, <1>2 DEF Typed, Core, Thread, Taken
<1>4. /\ \A u \in Threads : taken'[u] = IF u = th THEN None ELSE taken[u]
      /\ taken' \in [Threads -> Fibers \union {None}]
  BY <1>1, <1>2 DEF Typed
<1>5. Alive(f)
  BY <1>2, <1>3 DEF Core, Life, TaskOwns
<1>6. Queued(f)' <=> Queued(f)
  BY <1>1, <1>3, QueueFrame
<1>7. \/ UNCHANGED <<m_state, failed>>
      \/ /\ Alive(f) /\ flow[f] # "begun" /\ f \notin held' /\ ~TaskOwns(f)'
         /\ Destroyed(f, m_state[f])
  <2>1. (\E other \in Threads \ {th} : taken[other] = f) <=> Taken(f)'
    BY <1>3, <1>4 DEF Taken
  <2>2. TaskOwns(f)' <=> Queued(f)' \/ Taken(f)'
    BY DEF TaskOwns
  <2>3. QED
    BY <1>1, <1>5, <1>6, <2>1, <2>2 DEF OwnsItself
<1>8. ASSUME NEW u \in Threads, run[u] \in Fibers
      PROVE  taken'[u] = run[u] \/ run[u] \in held' \/ letGo'
  <2>1. taken[u] = run[u] \/ run[u] \in held \/ letGo
    BY <1>2, <1>8 DEF Core, Running
  <2>2. u = th => taken[u] # run[u]
    BY <1>1, <1>3, <1>8
  <2>3. QED
    BY <1>1, <1>4, <2>1, <2>2
<1>9. letGo' \in BOOLEAN /\ (letGo => letGo')
  BY <1>1, <1>2 DEF Typed
<1>10. /\ held' \subseteq held /\ held \ {f} \subseteq held'
       /\ \A u \in Threads : taken'[u] = taken[u] \/ taken'[u] = None
  BY <1>1, <1>4
<1>11. QED
  BY <1>1, <1>3, <1>4, <1>7, <1>8, <1>9, <1>10, LettingGoKeeps

LEMMA MainFuncKeeps ==
  ASSUME IInv, NEW th \in Threads, MainFunc(th)
  PROVE  IInv'
<1> USE ObjectsDiffer
<1> DEFINE f == run[th]
           p == IF th = RootThread /\ f # Root THEN "swapOut" ELSE "back"
<1>1. /\ failed = "none" /\ pc[th] = "run" /\ f \in Fibers
      /\ flow' = [flow EXCEPT ![f] = "over"]
      /\ pc' = [pc EXCEPT ![th] = p]
      /\ UNCHANGED <<t_fiber, run, m_ctx, caller, m_task_list, taken, tickled, held,
                     s_fiber_count, early, letGo>>
  BY DEF MainFunc, Runs, ReturnsToMain, queueSt
<1>2. PICK end \in {"TERM", "EXEC"} :
        /\ thrown' = (thrown \/ end # "TERM")
        /\ IF f \in held \/ TaskOwns(f)
           THEN m_state' = [m_state EXCEPT ![f] = end] /\ UNCHANGED failed
           ELSE Destroyed(f, end)
  BY DEF MainFunc, EndState
<1>3. Typed /\ ThisIsAlive /\ WaitingIsResumable /\ QueuedIsTickled /\ Core
  BY <1>1 DEF IInv
<1>4. /\ Running(th, f) /\ Thread(th) /\ caller[f] # None /\ flow[f] = "begun"
      /\ \A u \in Threads : u # th => run[u] # f
  BY <1>1, <1>3 DEF Core, Running, MainFiber
<1>5. /\ m_state' = [m_state EXCEPT ![f] = end]
      /\ \/ failed' = failed
         \/ failed' = "assert" /\ thrown'
         \/ failed' = "freed" /\ letGo'
  <2>1. CASE f \in held \/ TaskOwns(f)
    BY <1>2, <2>1
  <2>2. CASE ~(f \in held \/ TaskOwns(f))
    <3>1. letGo
      BY <1>4, <2>2 DEF Running, TaskOwns, Taken
    <3>2. /\ m_state' = [m_state EXCEPT ![f] = end]
          /\ failed' = IF end \notin Over THEN "assert" ELSE "freed"
      BY <1>2, <1>4, <2>2 DEF Destroyed
    <3>3. end \notin Over => thrown'
      BY <1>2 DEF Over
    <3>4. QED
      BY <1>1, <3>1, <3>2, <3>3
  <2>3. QED
    BY <2>1, <2>2
<1> HIDE DEF f, p
<1>6. /\ \A o \in Objects : m_state'[o] = IF o = f THEN end ELSE m_state[o]
      /\ \A u \in Threads : m_state'[u] = m_state[u]
      /\ \A g \in Fibers : flow'[g] = IF g = f THEN "over" ELSE flow[g]
      /\ \A u \in Threads : pc'[u] = IF u = th THEN p ELSE pc[u]
  BY <1>1, <1>3, <1>5 DEF Typed
<1>7. Typed'
  <2>1. /\ m_state' \in [Objects -> Waiting \union Over \union {"NONE", "EXEC", "GONE"}]
        /\ flow' \in [Fibers -> {"unborn", "begun", "over"}]
    BY <1>1, <1>3, <1>5 DEF Typed, Over
  <2>2. pc' \in [Threads -> {"run", "back", "swapOut", "tickle"}]
    BY <1>1, <1>3 DEF Typed, p
  <2>3. thrown' \in BOOLEAN
    BY <1>2
  <2>4. failed' \in {"none", "assert", "stale", "freed"}
    BY <1>3, <1>5 DEF Typed
  <2>5. QED
    BY <1>1, <1>3, <2>1, <2>2, <2>3, <2>4 DEF Typed
<1>8. ThisIsAlive' /\ WaitingIsResumable'
  BY <1>1, <1>3, <1>6 DEF Typed, ThisIsAlive, Alive, WaitingIsResumable
<1>9. FailuresAreKnown'
  BY <1>1, <1>5 DEF FailuresAreKnown, NoStaleResume, AssertionsHold, ForgottenTasksAreSafe
<1>10. QueuedIsTickled'
  BY <1>1, <1>3, <1>6, TickleFrame
<1>11. OwnContext' /\ RootFiber' /\ Queue'
  <2>1. Queue'
    BY <1>1, <1>3, QueueFrame DEF Core
  <2>2. QED
    BY <1>1, <1>3, <1>6, <2>1 DEF Core, OwnContext, RootFiber
<1>12. ASSUME NEW u \in Threads PROVE Thread(u)'
  <2>1. Thread(u)
    BY <1>3 DEF Core
  <2>2. CASE u = th
    BY <1>1, <1>4, <1>6, <2>1, <2>2 DEF Thread, HasMaster, p, f
  <2>3. CASE u # th
    <3>1. u = RootThread => f # Root
      BY <1>4, <2>3 DEF Running
    <3>2. QED
      BY <1>1, <1>4, <1>6, <2>1, <2>3, <3>1 DEF Thread, HasMaster
  <2>4. QED
    BY <2>2, <2>3
<1>13. ASSUME NEW u \in Threads, run'[u] \in Fibers PROVE Running(u, run[u])'
  <2>1. Running(u, run[u])
    BY <1>1, <1>3, <1>13 DEF Core
  <2>2. QED
    BY <1>1, <1>4, <1>6, <1>13, <2>1 DEF Running, MainFiber, p, f
<1>14. ASSUME NEW g \in Fibers PROVE Life(g)'
  <2>1. Life(g) /\ (Queued(g)' <=> Queued(g)) /\ (TaskOwns(g)' <=> TaskOwns(g))
    BY <1>1, <1>3, QueueFrame DEF Core, TaskOwns, Taken
  <2>2. thrown' <=> thrown \/ end # "TERM"
    BY <1>2
  <2>3. CASE g = f
    <3>1. run'[th] = g /\ end \in {"TERM", "EXEC"}
      BY <1>1, <2>3 DEF f
    <3>2. QED
      BY <1>1, <1>6, <2>1, <2>2, <2>3, <3>1 DEF Life, Alive
  <2>4. CASE g # f
    <3>1. m_state'[g] = m_state[g] /\ flow'[g] = flow[g]
      BY <1>6, <2>4
    <3>2. QED
      BY <1>1, <2>1, <2>2, <3>1 DEF Life, Alive
  <2>5. QED
    BY <2>3, <2>4
<1>15. QED
  BY <1>7, <1>8, <1>9, <1>10, <1>11, <1>12, <1>13, <1>14 DEF IInv, Core
-----------------------------------------------------------------------------
(* The theorems. *)

LEMMA IInvStep == ASSUME IInv, [Next]_vars PROVE IInv'
<1>1. CASE UNCHANGED vars
  <2>1. /\ UNCHANGED <<t_fiber, run, pc, m_state, m_ctx, flow, caller, m_task_list, taken,
                       tickled, held, s_fiber_count, thrown, early, letGo, failed>>
        /\ Queue' <=> Queue
        /\ \A f \in Fibers : (Queued(f)' <=> Queued(f)) /\ (TaskOwns(f)' <=> TaskOwns(f))
    BY <1>1, QueueFrame DEF vars, threadSt, queueSt, history, TaskOwns, Taken
  <2>2. Typed' /\ ThisIsAlive'
    BY <2>1 DEF IInv, Typed, ThisIsAlive, Alive
  <2>3. WaitingIsResumable' /\ FailuresAreKnown' /\ QueuedIsTickled'
    BY <2>1 DEF IInv, WaitingIsResumable, FailuresAreKnown, NoStaleResume, AssertionsHold,
                ForgottenTasksAreSafe, QueuedIsTickled
  <2>4. ASSUME Core PROVE Core'
    <3>1. OwnContext' /\ RootFiber' /\ Queue'
      BY <2>1, <2>4 DEF Core, OwnContext, RootFiber
    <3>2. \A u \in Threads : Thread(u)'
      BY <2>1, <2>4 DEF Core, Thread, HasMaster
    <3>3. \A u \in Threads : run'[u] \in Fibers => Running(u, run[u])'
      BY <2>1, <2>4 DEF Core, Running, MainFiber
    <3>4. \A f \in Fibers : Life(f)'
      BY <2>1, <2>4 DEF Core, Life, Alive
    <3>5. QED
      BY <3>1, <3>2, <3>3, <3>4 DEF Core
  <2>5. QED
    BY <2>1, <2>2, <2>3, <2>4 DEF IInv
<1>2. ASSUME NEW th \in Threads,
             \/ GetThis(th) \/ ThreadExit(th)
             \/ SwapOutTo(th) \/ Yield(th) \/ YieldToHold(th) \/ MainFunc(th) \/ Leave(th)
             \/ LetGo(th) \/ Tickle(th)
      PROVE  IInv'
  BY <1>2, GetThisKeeps, ThreadExitKeeps, SwapOutToKeeps, YieldKeeps, MainFuncKeeps,
     LeaveKeeps, LetGoKeeps, TickleKeeps
<1>3. ASSUME NEW th \in Threads, NEW tasks \in Batches, IsInjective(tasks),
             Schedule(th, tasks)
      PROVE  IInv'
  BY <1>3, ScheduleKeeps
<1>4. ASSUME NEW th \in Threads, NEW f \in Fibers,
             \/ Create(th, f) \/ Reset(th, f) \/ Drop(th, f)
             \/ Call(th, f) \/ SwapIn(th, f)
      PROVE  IInv'
  BY <1>4, CreateKeeps, ResetKeeps, DropKeeps, CallKeeps, SwapInKeeps
<1>5. QED
  BY <1>1, <1>2, <1>3, <1>4 DEF Next

\* The inductive invariant holds in every state.
THEOREM Invariance == Spec => []IInv
<1>1. Init => IInv
  BY IInvInit
<1>2. IInv /\ [Next]_vars => IInv'
  BY IInvStep
<1>3. QED
  BY <1>1, <1>2, PTL DEF Spec

\* The variables keep their types, and t_fiber points to a living object
\* (fiber.cpp:43, 66).
THEOREM TypeCorrect == Spec => []TypeOK
<1>1. ASSUME IInv PROVE TypeOK
  <2>1. Typed /\ ThisIsAlive
    BY <1>1 DEF IInv
  <2>2. t_fiber \in [Threads -> {o \in Objects : m_state[o] \notin {"NONE", "GONE"}}
                                  \union {None}]
    BY <2>1 DEF Typed, ThisIsAlive, Alive
  <2>3. QED
    BY <2>1, <2>2 DEF Typed, TypeOK
<1>2. QED
  BY <1>1, Invariance, PTL

\* GetThis answers with the fiber that runs (fiber.h:124).
THEOREM RunsAsThis == Spec => []RunningIsThis
<1>1. IInv => RunningIsThis
  BY DEF IInv, Core, Thread, RunningIsThis
<1>2. QED
  BY <1>1, Invariance, PTL

\* What waits can be resumed (fiber.cpp:136 and the swaps that leave a fiber).
THEOREM Resumable == Spec => []WaitingIsResumable
<1>1. IInv => WaitingIsResumable
  BY DEF IInv
<1>2. QED
  BY <1>1, Invariance, PTL

\* Nothing undefined happens and no assertion fails, but in the three known
\* cases (fiber.cpp:110, 152, 261 and 313).
THEOREM OnlyKnownFailures == Spec => []FailuresAreKnown
<1>1. IInv => FailuresAreKnown
  BY DEF IInv
<1>2. QED
  BY <1>1, Invariance, PTL

\* Whoever finds the task list empty wakes the workers (scheduler.h:100, 120).
THEOREM TasksAreTickled == Spec => []QueuedIsTickled
<1>1. IInv => QueuedIsTickled
  BY DEF IInv
<1>2. QED
  BY <1>1, Invariance, PTL

\* Only the two ways out of a fiber end its being swapped in.
LEMMA CallersStay ==
  ASSUME IInv, [Next]_vars, NEW f \in Fibers, caller[f] # None, caller'[f] = None
  PROVE  \E th \in Threads : run[th] = f /\ (SwapOutTo(th) \/ Leave(th))
<1> USE ObjectsDiffer
<1>1. CASE UNCHANGED vars
  BY <1>1 DEF vars
<1>2. ASSUME NEW th \in Threads, SwapOutTo(th) \/ Leave(th) PROVE run[th] = f
  <2>1. caller' = [caller EXCEPT ![run[th]] = None]
    BY <1>2 DEF SwapOutTo, Leave
  <2>2. QED
    BY <2>1 DEF IInv, Typed
<1>3. ASSUME NEW th \in Threads,
             \/ GetThis(th) \/ ThreadExit(th) \/ Yield(th) \/ YieldToHold(th)
             \/ MainFunc(th) \/ LetGo(th) \/ Tickle(th)
             \/ \E tasks \in Batches : Schedule(th, tasks)
             \/ \E g \in Fibers : Create(th, g) \/ Reset(th, g) \/ Drop(th, g)
      PROVE  FALSE
  <2>1. caller' = caller
    BY <1>3 DEF GetThis, ThreadExit, Yield, YieldToHold, MainFunc, LetGo, Tickle, Schedule,
                Create, Reset, Drop
  <2>2. QED
    BY <2>1
<1>4. ASSUME NEW th \in Threads, NEW g \in Fibers, Call(th, g) \/ SwapIn(th, g)
      PROVE  FALSE
  <2>1. run[th] # None /\ caller' = [caller EXCEPT ![g] = run[th]]
    BY <1>4 DEF Call, SwapIn, SwapInFrom, Runs
  <2>2. QED
    BY <2>1 DEF IInv, Typed
<1>5. QED
  BY <1>1, <1>2, <1>3, <1>4 DEF Next

LEMMA BackStep ==
  ASSUME IInv, [Next]_vars, NEW f \in Fibers, caller[f] # None, caller'[f] = None
  PROVE  \E th \in Threads :
           /\ run[th] = f
           /\ \/ run'[th] = caller[f]
              \/ flow[f] = "begun" /\ pc[th] = "back" /\ th = RootThread
<1>1. PICK th \in Threads : run[th] = f /\ (SwapOutTo(th) \/ Leave(th))
  BY CallersStay
<1>2. Running(th, f) /\ Thread(th)
  BY <1>1 DEF IInv, Core, SwapOutTo, InTask, Runs, Leave
<1>3. caller[f] = IF f = Root THEN RootThread ELSE MainFiber(th)
  BY <1>2 DEF Running
<1>4. CASE SwapOutTo(th)
  <2>1. run'[th] = MainFiber(th) /\ f # Root
    BY <1>1, <1>4, SwapOutToKeeps DEF SwapOutTo, InTask
  <2>2. QED
    BY <1>1, <1>3, <2>1
<1>5. CASE Leave(th)
  <2>1. /\ run'[th] = IF pc[th] = "back" THEN th ELSE MainFiber(th)
        /\ pc[th] \in {"back", "swapOut"}
    BY <1>5, LeaveKeeps DEF Leave
  <2>2. CASE f = Root
    BY <1>1, <1>2, <1>3, <2>1, <2>2 DEF Running, Thread
  <2>3. CASE f # Root
    BY <1>1, <1>2, <1>3, <2>1, <2>3 DEF Thread, MainFiber
  <2>4. QED
    BY <2>2, <2>3
<1>6. QED
  BY <1>1, <1>4, <1>5

\* A fiber gives control back to the flow that swapped it in (fiber.cpp:314).
THEOREM GoesBack == Spec => BackToCaller
<1>1. IInv /\ [Next]_vars =>
        [\A f \in Fibers :
           caller[f] # None /\ caller'[f] = None /\ failed' = "none" =>
             \E th \in Threads :
               /\ run[th] = f
               /\ \/ run'[th] = caller[f]
                  \/ flow[f] = "begun" /\ pc[th] = "back" /\ th = RootThread]_vars
  BY BackStep
<1>2. QED
  BY <1>1, Invariance, PTL DEF Spec, BackToCaller
=============================================================================
