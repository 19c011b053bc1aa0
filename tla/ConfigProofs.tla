---------------------------- MODULE ConfigProofs ----------------------------
(***************************************************************************)
(* Safety of Config for every set of threads, names, values and listeners,  *)
(* every bound on calls and every depth of nested calls of setValue.        *)
(***************************************************************************)
EXTENDS Config, SequenceTheorems, TLAPS

Frames == [v : Vars, x : Values, phase : {"compare", "notify", "leave", "write"}]
Texts  == Names \X (Values \union {Bad})

(***************************************************************************)
(* The inductive invariant.                                                *)
(***************************************************************************)
\* The types: null, or a variable that has been made.
Pointers ==
  /\ m_value \in [Vars -> Values \union {None}]
  /\ s_data \in [Names -> Vars \union {None}]
  /\ held \in [Threads -> [Names -> Vars \union {None}]]
  /\ \A n \in Names : s_data[n] # None => m_value[s_data[n]] # None
  /\ \A th \in Threads, n \in Names :
       held[th][n] # None => m_value[held[th][n]] # None

Plain ==
  /\ m_callback_map \in [Vars -> Listeners \union {None}]
  /\ creating \in [Threads -> Names \union {None}]
  /\ load \in [Threads -> SUBSET (Texts \union {None})]
  /\ \A th \in Threads : load[th] = NoLoad \/ load[th] \subseteq Texts
  /\ calls \in 0 .. MaxCalls
  /\ raced \subseteq Names
  /\ unmet \in [Threads -> SUBSET Names]

\* Who creates a variable has not made it yet; whoever else creates one of
\* that name, or has inserted one since, was racing.
Creation ==
  \A th \in Threads, n \in Names : creating[th] = n =>
    /\ m_value[<<th, n>>] = None
    /\ s_data[n] # None => n \in raced
    /\ \A u \in Threads : creating[u] = n => u = th \/ n \in raced

\* setValue is inside variables that have been made, and a variable whose
\* listeners it is about to call has one.
Calling ==
  \A th \in Threads : \A i \in 1 .. Len(stack[th]) :
    /\ m_value[stack[th][i].v] # None
    /\ stack[th][i].phase = "notify" => m_callback_map[stack[th][i].v] # None

\* What a load owes is still among its entries, with a text that converts and
\* a name that is registered.
Owing ==
  \A th \in Threads : load[th] # NoLoad =>
    \A n \in unmet[th] :
      s_data[n] # None /\ \E x \in Values : <<n, x>> \in load[th]

IInv ==
  /\ Pointers /\ Plain /\ stack \in [Threads -> Seq(Frames)]
  /\ SameUnlessRaced /\ Creation /\ Calling /\ Owing
-----------------------------------------------------------------------------
(* Operators: what a call, a return and a change of phase do to a stack. *)

LEMMA FrontKeeps ==
  ASSUME NEW S, NEW s \in Seq(S), s # <<>>
  PROVE  /\ Front(s) \in Seq(S)
         /\ Len(s) \in Nat \ {0} /\ Len(Front(s)) = Len(s) - 1
         /\ \A i \in 1 .. Len(s) - 1 : Front(s)[i] = s[i]
         /\ Last(s) \in S /\ Last(s) = s[Len(s)]
<1>1. Len(s) \in Nat /\ Len(s) # 0 /\ \A i \in 1 .. Len(s) : s[i] \in S
  BY EmptySeq
<1>2. \A i \in 1 .. Len(s) - 1 : s[i] \in S
  BY <1>1
<1>3. /\ SubSeq(s, 1, Len(s) - 1) \in Seq(S)
      /\ Len(SubSeq(s, 1, Len(s) - 1)) =
           IF 1 <= Len(s) - 1 THEN Len(s) - 1 - 1 + 1 ELSE 0
      /\ \A i \in 1 .. Len(s) - 1 - 1 + 1 :
           SubSeq(s, 1, Len(s) - 1)[i] = s[1 + i - 1]
  BY <1>1, <1>2, SubSeqProperties
<1>4. Len(SubSeq(s, 1, Len(s) - 1)) = Len(s) - 1
  <2>1. CASE Len(s) = 1
    BY <1>3, <2>1
  <2>2. CASE Len(s) > 1
    <3>1. 1 <= Len(s) - 1 /\ Len(s) - 1 - 1 + 1 = Len(s) - 1
      BY <1>1, <2>2
    <3>2. QED
      BY <1>3, <3>1
  <2>3. Len(s) = 1 \/ Len(s) > 1
    <3>1. \A k \in Nat : k # 0 => k = 1 \/ k > 1
      OBVIOUS
    <3>2. Len(s) \in Nat /\ Len(s) # 0
      BY <1>1
    <3>3. QED
      BY ONLY <3>1, <3>2
  <2>4. QED
    BY <2>1, <2>2, <2>3
<1>5. ASSUME NEW i \in 1 .. Len(s) - 1 PROVE SubSeq(s, 1, Len(s) - 1)[i] = s[i]
  <2>1. i \in 1 .. Len(s) - 1 - 1 + 1 /\ 1 + i - 1 = i
    BY <1>1
  <2>2. SubSeq(s, 1, Len(s) - 1)[i] = s[1 + i - 1]
    BY <1>3, <2>1
  <2>3. QED
    BY <2>1, <2>2
<1>6. QED
  BY <1>1, <1>3, <1>4, <1>5 DEF Front, Last

LEMMA CalledAdds ==
  ASSUME NEW st \in Seq(Frames), NEW v \in Vars, NEW x \in Values
  PROVE  /\ Called(st, v, x) \in Seq(Frames)
         /\ Len(Called(st, v, x)) = Len(st) + 1
         /\ \A i \in 1 .. Len(st) : Called(st, v, x)[i] = st[i]
         /\ Called(st, v, x)[Len(st) + 1] = [v |-> v, x |-> x, phase |-> "compare"]
<1>1. [v |-> v, x |-> x, phase |-> "compare"] \in Frames
  BY DEF Frames
<1>2. QED
  BY <1>1, AppendProperties DEF Called

LEMMA WithPhaseSets ==
  ASSUME NEW st \in Seq(Frames), st # <<>>,
         NEW phase \in {"compare", "notify", "leave", "write"}
  PROVE  /\ WithPhase(st, phase) \in Seq(Frames)
         /\ Len(WithPhase(st, phase)) = Len(st)
         /\ \A i \in 1 .. Len(st) : WithPhase(st, phase)[i].v = st[i].v
         /\ \A i \in 1 .. Len(st) - 1 : WithPhase(st, phase)[i] = st[i]
         /\ WithPhase(st, phase)[Len(st)].phase = phase
<1> DEFINE f == [Last(st) EXCEPT !.phase = phase]
<1>1. /\ Front(st) \in Seq(Frames) /\ Len(st) \in Nat \ {0}
      /\ Len(Front(st)) = Len(st) - 1
      /\ \A i \in 1 .. Len(st) - 1 : Front(st)[i] = st[i]
      /\ Last(st) \in Frames /\ Last(st) = st[Len(st)]
  BY FrontKeeps
<1>2. f \in Frames /\ f.v = st[Len(st)].v /\ f.phase = phase
  BY <1>1 DEF Frames
<1> HIDE DEF f
<1>3. WithPhase(st, phase) = Append(Front(st), f)
  BY <1>1, <1>2, AppendIsConcat DEF WithPhase, f
<1>4. /\ Append(Front(st), f) \in Seq(Frames)
      /\ Len(Append(Front(st), f)) = Len(st) - 1 + 1
      /\ \A i \in 1 .. Len(st) - 1 : Append(Front(st), f)[i] = Front(st)[i]
      /\ Append(Front(st), f)[Len(st) - 1 + 1] = f
  BY <1>1, <1>2, AppendProperties
<1>5. Len(st) - 1 + 1 = Len(st)
  BY <1>1
<1>6. ASSUME NEW i \in 1 .. Len(st) PROVE WithPhase(st, phase)[i].v = st[i].v
  <2>1. CASE i \in 1 .. Len(st) - 1
    BY <1>1, <1>3, <1>4, <2>1
  <2>2. CASE i = Len(st)
    BY <1>2, <1>3, <1>4, <1>5, <2>2
  <2>3. QED
    BY <1>1, <2>1, <2>2
<1>7. QED
  BY <1>1, <1>2, <1>3, <1>4, <1>5, <1>6
-----------------------------------------------------------------------------
(* The invariant holds at the start and is kept by every action. *)

LEMMA IInvInit == ASSUME Init PROVE IInv
<1>1. /\ s_data = [n \in Names |-> None] /\ m_value = [v \in Vars |-> None]
      /\ m_callback_map = [v \in Vars |-> None]
      /\ held = [th \in Threads |-> [n \in Names |-> None]]
      /\ creating = [th \in Threads |-> None]
      /\ stack = [th \in Threads |-> <<>>] /\ load = [th \in Threads |-> NoLoad]
      /\ calls = 0 /\ raced = {} /\ unmet = [th \in Threads |-> {}]
  BY DEF Init
<1>2. MaxCalls \in Nat
  BY ConfigAssumption DEF ConfigAssumption
<1>3. <<>> \in Seq(Frames) /\ \A th \in Threads : Len(stack[th]) = 0
  BY <1>1, EmptySeq
<1>4. stack \in [Threads -> Seq(Frames)]
  BY <1>1, <1>3
<1>5. Pointers /\ Plain
  <2>1. calls \in 0 .. MaxCalls
    BY <1>1, <1>2
  <2>2. QED
    BY <1>1, <2>1 DEF Pointers, Plain, NoLoad
<1>6. SameUnlessRaced
  BY <1>1 DEF SameUnlessRaced
<1>7. Creation
  BY <1>1, ConfigAssumption DEF Creation, ConfigAssumption
<1>8. Calling
  BY <1>3 DEF Calling
<1>9. Owing
  BY <1>1 DEF Owing
<1>10. QED
  BY <1>4, <1>5, <1>6, <1>7, <1>8, <1>9 DEF IInv

\* Variables stay made.
MadeStay == \A v \in Vars : m_value[v] # None => m_value'[v] # None

\* A stack of calls that may be a thread's.
Sound(st) ==
  /\ st \in Seq(Frames)
  /\ \A i \in 1 .. Len(st) :
       /\ m_value[st[i].v] # None
       /\ st[i].phase = "notify" => m_callback_map[st[i].v] # None

\* A step in which at most one thread's stack changes.
LEMMA StackStep ==
  ASSUME IInv, NEW th \in Threads, NEW st, Sound(st),
         stack' = [stack EXCEPT ![th] = st],
         MadeStay, UNCHANGED m_callback_map
  PROVE  stack' \in [Threads -> Seq(Frames)] /\ Calling'
<1>1. stack' \in [Threads -> Seq(Frames)]
  BY DEF IInv, Sound
<1>2. ASSUME NEW u \in Threads, NEW i \in 1 .. Len(stack'[u])
      PROVE  /\ m_value'[stack'[u][i].v] # None
             /\ stack'[u][i].phase = "notify" => m_callback_map'[stack'[u][i].v] # None
  <2>1. stack'[u] \in Seq(Frames) /\ stack'[u][i] \in Frames
    BY <1>1, <1>2
  <2>2. stack'[u][i].v \in Vars
    BY <2>1 DEF Frames
  <2>3. CASE u = th
    BY <1>2, <2>2, <2>3 DEF IInv, MadeStay, Sound
  <2>4. CASE u # th
    BY <2>2, <2>4 DEF IInv, MadeStay, Calling
  <2>5. QED
    BY <2>3, <2>4
<1>3. QED
  BY <1>1, <1>2 DEF Calling

LEMMA PointersKept ==
  ASSUME IInv, UNCHANGED <<s_data, m_value, held>>
  PROVE  Pointers'
BY DEF IInv, Pointers

LEMMA CreationKept ==
  ASSUME IInv, UNCHANGED <<s_data, m_value, held, creating, raced>>
  PROVE  Creation' /\ SameUnlessRaced'
BY DEF IInv, Creation, SameUnlessRaced

LEMMA OwingKept ==
  ASSUME IInv, UNCHANGED <<s_data, load, unmet>>
  PROVE  Owing'
BY DEF IInv, Owing

\* What a thread inside setValue sees of its innermost call.
LEMMA Innermost ==
  ASSUME IInv, NEW th \in Threads, stack[th] # <<>>
  PROVE  /\ stack[th] \in Seq(Frames) /\ Len(stack[th]) \in 1 .. Len(stack[th])
         /\ Last(stack[th]) = stack[th][Len(stack[th])]
         /\ Last(stack[th]) \in Frames /\ Last(stack[th]).v \in Vars
         /\ m_value[Last(stack[th]).v] # None
         /\ Last(stack[th]).phase = "notify" =>
              m_callback_map[Last(stack[th]).v] # None
<1>1. stack[th] \in Seq(Frames)
  BY DEF IInv
<1>2. /\ Len(stack[th]) \in Nat \ {0} /\ Last(stack[th]) \in Frames
      /\ Last(stack[th]) = stack[th][Len(stack[th])]
  BY <1>1, FrontKeeps
<1>3. QED
  BY <1>1, <1>2 DEF IInv, Calling, Frames

\* A return, a change of phase, a call: what the new stack holds is made.
LEMMA StacksSound ==
  ASSUME IInv, NEW th \in Threads
  PROVE  /\ Sound(stack[th]) /\ Sound(<<>>)
         /\ stack[th] # <<>> =>
              /\ Sound(Front(stack[th]))
              /\ \A phase \in {"leave", "write"} :
                   /\ Sound(WithPhase(stack[th], phase))
                   /\ Len(WithPhase(stack[th], phase)) = Len(stack[th])
              /\ m_callback_map[Last(stack[th]).v] # None =>
                   Sound(WithPhase(stack[th], "notify"))
         /\ \A st, x, v : Sound(st) /\ x \in Values /\ v \in Vars
                            /\ m_value[v] # None => Sound(Called(st, v, x))
<1>1. Sound(stack[th])
  BY DEF IInv, Calling, Sound
<1>2. Sound(<<>>)
  <2>1. <<>> \in Seq(Frames) /\ 1 .. Len(<<>>) = {}
    BY EmptySeq
  <2>2. QED
    BY <2>1 DEF Sound
<1>3. ASSUME stack[th] # <<>> PROVE Sound(Front(stack[th]))
  <2>1. /\ Front(stack[th]) \in Seq(Frames) /\ Len(stack[th]) \in Nat
        /\ Len(Front(stack[th])) = Len(stack[th]) - 1
        /\ \A i \in 1 .. Len(stack[th]) - 1 : Front(stack[th])[i] = stack[th][i]
    BY <1>1, <1>3, FrontKeeps DEF Sound
  <2>2. 1 .. Len(stack[th]) - 1 \subseteq 1 .. Len(stack[th])
    BY <2>1
  <2>3. QED
    BY <1>1, <2>1, <2>2 DEF Sound
<1>4. ASSUME stack[th] # <<>>, NEW phase \in {"notify", "leave", "write"},
             phase = "notify" => m_callback_map[Last(stack[th]).v] # None
      PROVE  /\ Sound(WithPhase(stack[th], phase))
             /\ Len(WithPhase(stack[th], phase)) = Len(stack[th])
  <2> DEFINE st == WithPhase(stack[th], phase)
  <2>1. /\ st \in Seq(Frames) /\ Len(st) = Len(stack[th])
        /\ \A i \in 1 .. Len(stack[th]) : st[i].v = stack[th][i].v
        /\ \A i \in 1 .. Len(stack[th]) - 1 : st[i] = stack[th][i]
        /\ st[Len(stack[th])].phase = phase
    <3>1. stack[th] \in Seq(Frames)
      BY <1>1 DEF Sound
    <3>2. phase \in {"compare", "notify", "leave", "write"}
      BY <1>4
    <3>3. QED
      BY <1>4, <3>1, <3>2, WithPhaseSets, Zenon
  <2>2. Len(stack[th]) \in Nat /\ Last(stack[th]) = stack[th][Len(stack[th])]
    BY <1>1, <1>4, FrontKeeps DEF Sound
  <2> HIDE DEF st
  <2>3. ASSUME NEW i \in 1 .. Len(st)
        PROVE  /\ m_value[st[i].v] # None
               /\ st[i].phase = "notify" => m_callback_map[st[i].v] # None
    <3>1. CASE i \in 1 .. Len(stack[th]) - 1
      BY <1>1, <2>1, <2>2, <3>1 DEF Sound
    <3>2. CASE i = Len(stack[th])
      BY <1>1, <1>4, <2>1, <2>2, <2>3, <3>2 DEF Sound
    <3>3. QED
      BY <2>1, <2>2, <2>3, <3>1, <3>2
  <2>4. QED
    BY <2>1, <2>3 DEF st, Sound
<1>5. ASSUME NEW st, NEW x \in Values, NEW v \in Vars, Sound(st), m_value[v] # None
      PROVE  Sound(Called(st, v, x))
  <2> DEFINE more == Called(st, v, x)
  <2>1. /\ more \in Seq(Frames) /\ Len(more) = Len(st) + 1
        /\ \A i \in 1 .. Len(st) : more[i] = st[i]
        /\ more[Len(st) + 1] = [v |-> v, x |-> x, phase |-> "compare"]
    BY <1>5, CalledAdds DEF Sound
  <2>2. Len(st) \in Nat
    BY <1>5 DEF Sound
  <2> HIDE DEF more
  <2>3. ASSUME NEW i \in 1 .. Len(more)
        PROVE  /\ m_value[more[i].v] # None
               /\ more[i].phase = "notify" => m_callback_map[more[i].v] # None
    <3>1. CASE i \in 1 .. Len(st)
      BY <1>5, <2>1, <3>1 DEF Sound
    <3>2. CASE i = Len(st) + 1
      BY <1>5, <2>1, <3>2
    <3>3. QED
      BY <2>1, <2>2, <2>3, <3>1, <3>2
  <2>4. QED
    BY <2>1, <2>3 DEF more, Sound
<1>6. QED
  BY <1>1, <1>2, <1>3, <1>4, <1>5

LEMMA LookupKeeps ==
  ASSUME IInv, NEW th \in Threads, NEW n \in Names, Lookup(th, n),
         calls' \in 0 .. MaxCalls
  PROVE  IInv'
<1>1. UNCHANGED <<s_data, m_value, m_callback_map, stack, load, unmet>>
  BY DEF Lookup
<1>2. stack' \in [Threads -> Seq(Frames)] /\ Calling' /\ Owing'
  BY <1>1 DEF IInv, Calling, Owing
<1>3. CASE Found(n) /\ held' = [held EXCEPT ![th][n] = s_data[n]]
              /\ UNCHANGED <<creating, raced>>
  <2>1. Pointers'
    BY <1>1, <1>3 DEF IInv, Pointers, Found
  <2>2. Plain'
    BY <1>1, <1>3 DEF IInv, Plain
  <2>3. Creation'
    BY <1>1, <1>3 DEF IInv, Creation
  <2>4. SameUnlessRaced'
    BY <1>1, <1>3 DEF IInv, SameUnlessRaced, Pointers
  <2>5. QED
    BY <1>2, <2>1, <2>2, <2>3, <2>4 DEF IInv
<1>4. CASE /\ ~Found(n) /\ m_value[<<th, n>>] = None
           /\ creating' = [creating EXCEPT ![th] = n]
           /\ raced' = IF \E u \in Threads : creating[u] = n THEN raced \union {n}
                                                               ELSE raced
           /\ UNCHANGED held
  <2>1. Pointers'
    BY <1>1, <1>4, PointersKept
  <2>2. Plain'
    BY <1>1, <1>4 DEF IInv, Plain
  <2>3. raced \subseteq raced'
    BY <1>4
  <2>4. Creation'
    <3> SUFFICES ASSUME NEW t \in Threads, NEW m \in Names, creating'[t] = m
                 PROVE  /\ m_value[<<t, m>>] = None
                        /\ s_data[m] # None => m \in raced'
                        /\ \A u \in Threads : creating'[u] = m => u = t \/ m \in raced'
      BY <1>1 DEF Creation
    <3>1. \A u \in Threads : creating'[u] = IF u = th THEN n ELSE creating[u]
      BY <1>4 DEF IInv, Plain
    <3>2. CASE t = th
      BY <1>4, <3>1, <3>2 DEF Found
    <3>3. CASE t # th
      BY <1>4, <2>3, <3>1, <3>3 DEF IInv, Creation
    <3>4. QED
      BY <3>2, <3>3
  <2>5. SameUnlessRaced'
    BY <1>1, <1>4, <2>3 DEF IInv, SameUnlessRaced
  <2>6. QED
    BY <1>2, <2>1, <2>2, <2>4, <2>5 DEF IInv
<1>5. QED
  BY <1>3, <1>4 DEF Lookup

LEMMA InsertKeeps ==
  ASSUME IInv, NEW th \in Threads, Insert(th)
  PROVE  IInv' /\ MadeStay
<1> USE ConfigAssumption DEF ConfigAssumption
<1> DEFINE n == creating[th]
           v == <<th, n>>
<1>1. /\ n \in Names /\ v \in Vars /\ v # None
      /\ \E x \in Values : m_value' = [m_value EXCEPT ![v] = x]
      /\ s_data' = [s_data EXCEPT ![n] = v]
      /\ held' = [held EXCEPT ![th][n] = v]
      /\ creating' = [creating EXCEPT ![th] = None]
      /\ UNCHANGED <<m_callback_map, stack, load, calls, raced, unmet>>
  <2>1. n # None /\ creating \in [Threads -> Names \union {None}]
    BY DEF Insert, IInv, Plain
  <2>2. n \in Names
    BY <2>1
  <2>3. v \in Vars /\ v # None
    BY <2>2 DEF Vars
  <2>4. QED
    BY <2>2, <2>3 DEF Insert
<1>2. /\ m_value' \in [Vars -> Values \union {None}] /\ m_value'[v] # None
      /\ \A u \in Vars : u # v => m_value'[u] = m_value[u]
  BY <1>1 DEF IInv, Pointers
<1>3. /\ m_value[v] = None /\ (s_data[n] # None => n \in raced)
      /\ \A u \in Threads : creating[u] = n => u = th \/ n \in raced
  BY <1>1 DEF IInv, Creation
<1> HIDE DEF n, v
<1>4. MadeStay
  BY <1>2 DEF MadeStay
<1>5. /\ s_data' \in [Names -> Vars \union {None}] /\ s_data'[n] = v
      /\ \A m \in Names : m # n => s_data'[m] = s_data[m]
      /\ held' \in [Threads -> [Names -> Vars \union {None}]] /\ held'[th][n] = v
      /\ \A t \in Threads, m \in Names : t # th \/ m # n => held'[t][m] = held[t][m]
  BY <1>1 DEF IInv, Pointers
<1>6. Pointers'
  <2>1. ASSUME NEW m \in Names, s_data'[m] # None PROVE m_value'[s_data'[m]] # None
    BY <1>2, <1>4, <1>5, <2>1 DEF IInv, Pointers, MadeStay
  <2>2. ASSUME NEW t \in Threads, NEW m \in Names, held'[t][m] # None
        PROVE  m_value'[held'[t][m]] # None
    <3>1. CASE t = th /\ m = n
      BY <1>2, <1>5, <3>1
    <3>2. CASE t # th \/ m # n
      <4>1. held'[t][m] = held[t][m] /\ held[t][m] \in Vars
        BY <1>5, <2>2, <3>2 DEF IInv, Pointers
      <4>2. QED
        BY <1>4, <2>2, <4>1 DEF IInv, Pointers, MadeStay
    <3>3. QED
      BY <3>1, <3>2
  <2>3. QED
    BY <1>2, <1>5, <2>1, <2>2 DEF Pointers
<1>7. Plain'
  BY <1>1 DEF IInv, Plain
<1>8. stack' \in [Threads -> Seq(Frames)] /\ Calling'
  <2>1. Sound(stack[th]) /\ stack' = [stack EXCEPT ![th] = stack[th]]
    BY <1>1, StacksSound DEF IInv
  <2>2. QED
    BY <1>1, <1>4, <2>1, StackStep
<1>9. Owing'
  BY <1>1, <1>5 DEF IInv, Owing, Plain
<1>10. Creation'
  <2> SUFFICES ASSUME NEW t \in Threads, NEW m \in Names, creating'[t] = m
               PROVE  /\ m_value'[<<t, m>>] = None
                      /\ s_data'[m] # None => m \in raced
                      /\ \A u \in Threads : creating'[u] = m => u = t \/ m \in raced
    BY <1>1 DEF Creation
  <2>1. t # th /\ creating[t] = m
    BY <1>1 DEF IInv, Plain
  <2>2. <<t, m>> \in Vars /\ <<t, m>> # v
    BY <2>1 DEF v, Vars
  <2>3. m_value'[<<t, m>>] = None
    BY <1>2, <2>1, <2>2 DEF IInv, Creation
  <2>4. s_data'[m] # None => m \in raced
    BY <1>3, <1>5, <2>1 DEF IInv, Creation
  <2>5. \A u \in Threads : creating'[u] = m => creating[u] = m
    BY <1>1 DEF IInv, Plain
  <2>6. QED
    BY <2>1, <2>3, <2>4, <2>5 DEF IInv, Creation
<1>11. SameUnlessRaced'
  <2> SUFFICES ASSUME NEW t \in Threads, NEW m \in Names
               PROVE  held'[t][m] \in {None, s_data'[m]} \/ m \in raced
    BY <1>1 DEF SameUnlessRaced
  <2>1. held[t][m] \in {None, s_data[m]} \/ m \in raced
    BY DEF IInv, SameUnlessRaced
  <2>2. CASE m # n
    BY <1>5, <2>1, <2>2
  <2>3. CASE m = n /\ t = th
    BY <1>5, <2>3
  <2>4. CASE m = n /\ t # th
    BY <1>3, <1>5, <2>1, <2>4
  <2>5. QED
    BY <2>2, <2>3, <2>4
<1>12. QED
  BY <1>4, <1>6, <1>7, <1>8, <1>9, <1>10, <1>11 DEF IInv

LEMMA ListenerKeeps ==
  ASSUME IInv, NEW th \in Threads, NEW v \in Vars,
         DelListener(th, v) \/ \E l \in Listeners : AddListener(th, v, l),
         calls' \in 0 .. MaxCalls
  PROVE  IInv'
<1>1. /\ UNCHANGED <<s_data, m_value, held, creating, stack, load, raced, unmet>>
      /\ Reading(v) = {}
      /\ \E l \in Listeners \union {None} :
           m_callback_map' = [m_callback_map EXCEPT ![v] = l]
  BY DEF DelListener, AddListener, MayWrite
<1>2. /\ m_callback_map' \in [Vars -> Listeners \union {None}]
      /\ \A u \in Vars : u # v => m_callback_map'[u] = m_callback_map[u]
  BY <1>1 DEF IInv, Plain
<1>3. Plain'
  BY <1>1, <1>2 DEF IInv, Plain
<1>4. Calling'
  <2> SUFFICES ASSUME NEW t \in Threads, NEW i \in 1 .. Len(stack[t])
               PROVE  /\ m_value[stack[t][i].v] # None
                      /\ stack[t][i].phase = "notify" =>
                           m_callback_map'[stack[t][i].v] # None
    BY <1>1 DEF Calling
  <2>1. stack[t] \in Seq(Frames) /\ i \in DOMAIN stack[t] /\ stack[t][i].v \in Vars
    <3>1. stack[t] \in Seq(Frames)
      BY DEF IInv
    <3>2. stack[t][i] \in Frames /\ DOMAIN stack[t] = 1 .. Len(stack[t])
      BY <3>1, LenProperties
    <3>3. QED
      BY <3>1, <3>2 DEF Frames
  <2>2. stack[t][i].phase = "notify" => stack[t][i].v # v
    BY <1>1, <2>1 DEF Reading, ReadPhases
  <2>3. QED
    BY <1>2, <2>1, <2>2 DEF IInv, Calling
<1>5. QED
  BY <1>1, <1>3, <1>4, PointersKept, CreationKept, OwingKept DEF IInv

\* A step that only changes a stack, and perhaps what a load has left.
LEMMA StackOnlyKeeps ==
  ASSUME IInv, NEW th \in Threads, NEW st, Sound(st),
         stack' = [stack EXCEPT ![th] = st], calls' \in 0 .. MaxCalls,
         load' \in [Threads -> SUBSET (Texts \union {None})],
         \A t \in Threads : load'[t] = NoLoad \/ load'[t] \subseteq Texts,
         unmet' \in [Threads -> SUBSET Names], Owing',
         UNCHANGED <<s_data, m_value, m_callback_map, held, creating, raced>>
  PROVE  IInv'
<1>1. MadeStay
  BY DEF MadeStay
<1>2. stack' \in [Threads -> Seq(Frames)] /\ Calling'
  BY <1>1, StackStep
<1>3. Plain'
  BY DEF IInv, Plain
<1>4. QED
  BY <1>2, <1>3, PointersKept, CreationKept DEF IInv

LEMMA SameLoad ==
  ASSUME IInv, UNCHANGED <<s_data, load, unmet>>
  PROVE  /\ load' \in [Threads -> SUBSET (Texts \union {None})]
         /\ \A t \in Threads : load'[t] = NoLoad \/ load'[t] \subseteq Texts
         /\ unmet' \in [Threads -> SUBSET Names] /\ Owing'
         /\ calls \in 0 .. MaxCalls
BY OwingKept DEF IInv, Plain

LEMMA SetValueKeeps ==
  ASSUME IInv, NEW th \in Threads, NEW v \in Vars, NEW x \in Values,
         SetValue(th, v, x), calls' \in 0 .. MaxCalls
  PROVE  IInv'
<1>1. v # None
  BY ConfigAssumption DEF ConfigAssumption, Vars
<1>2. PICK n \in Names : v = held[th][n]
  BY DEF SetValue, Range, IInv, Pointers
<1>3. m_value[v] # None
  BY <1>1, <1>2 DEF IInv, Pointers
<1>4. Sound(Called(stack[th], v, x))
  BY <1>3, StacksSound
<1>5. /\ stack' = [stack EXCEPT ![th] = Called(stack[th], v, x)]
      /\ UNCHANGED <<s_data, m_value, m_callback_map, held, creating, load, raced, unmet>>
  BY DEF SetValue
<1>6. QED
  BY <1>4, <1>5, SameLoad, StackOnlyKeeps

LEMMA CompareKeeps == ASSUME IInv, NEW th \in Threads, Compare(th) PROVE IInv'
<1>1. /\ stack[th] # <<>>
      /\ UNCHANGED <<s_data, m_value, m_callback_map, held, creating, load, calls,
                     raced, unmet>>
  BY DEF Compare, InPhase
<1>2. \E st : Sound(st) /\ stack' = [stack EXCEPT ![th] = st]
  <2>1. CASE stack' = [stack EXCEPT ![th] = Front(stack[th])]
    BY <1>1, <2>1, StacksSound
  <2>2. CASE m_callback_map[Last(stack[th]).v] = None
             /\ stack' = [stack EXCEPT ![th] = WithPhase(stack[th], "write")]
    BY <1>1, <2>2, StacksSound
  <2>3. CASE m_callback_map[Last(stack[th]).v] # None
             /\ stack' = [stack EXCEPT ![th] = WithPhase(stack[th], "notify")]
    BY <1>1, <2>3, StacksSound
  <2>4. QED
    BY <2>1, <2>2, <2>3 DEF Compare
<1>3. QED
  BY <1>1, <1>2, SameLoad, StackOnlyKeeps

LEMMA NotifyKeeps == ASSUME IInv, NEW th \in Threads, Notify(th) PROVE IInv'
<1> DEFINE l  == m_callback_map[Last(stack[th]).v]
           n  == Sets[l]
           st == WithPhase(stack[th], "leave")
<1>1. /\ stack[th] # <<>> /\ Last(stack[th]).phase = "notify"
      /\ \/ stack' = [stack EXCEPT ![th] = st]
         \/ /\ n # None /\ s_data[n] # None
            /\ \E x \in Values : stack' = [stack EXCEPT ![th] = Called(st, s_data[n], x)]
      /\ UNCHANGED <<s_data, m_value, m_callback_map, held, creating, load, calls,
                     raced, unmet>>
  BY DEF Notify, InPhase
<1>2. Sound(st)
  BY <1>1, StacksSound
<1>3. l \in Listeners
  BY <1>1, Innermost DEF IInv, Plain
<1>4. n \in Names \union {None}
  BY <1>3, ConfigAssumption DEF ConfigAssumption
<1> HIDE DEF n, st
<1>5. \E new : Sound(new) /\ stack' = [stack EXCEPT ![th] = new]
  <2>1. CASE stack' = [stack EXCEPT ![th] = st]
    BY <1>2, <2>1
  <2>2. ASSUME NEW x \in Values, n # None, s_data[n] # None,
               stack' = [stack EXCEPT ![th] = Called(st, s_data[n], x)]
        PROVE  Sound(Called(st, s_data[n], x))
    <3>1. s_data[n] \in Vars /\ m_value[s_data[n]] # None
      BY <1>4, <2>2 DEF IInv, Pointers
    <3>2. QED
      BY <1>2, <3>1, StacksSound
  <2>3. QED
    BY <1>1, <2>1, <2>2
<1>6. QED
  BY <1>1, <1>5, SameLoad, StackOnlyKeeps

LEMMA LeaveKeeps == ASSUME IInv, NEW th \in Threads, Leave(th) PROVE IInv'
<1>1. /\ stack[th] # <<>>
      /\ stack' = [stack EXCEPT ![th] = WithPhase(stack[th], "write")]
      /\ UNCHANGED <<s_data, m_value, m_callback_map, held, creating, load, calls,
                     raced, unmet>>
  BY DEF Leave, InPhase
<1>2. Sound(WithPhase(stack[th], "write"))
  BY <1>1, StacksSound
<1>3. QED
  BY <1>1, <1>2, SameLoad, StackOnlyKeeps

LEMMA ThrowKeeps == ASSUME IInv, NEW th \in Threads, Throw(th) PROVE IInv'
<1>1. /\ stack' = [stack EXCEPT ![th] = <<>>]
      /\ load' = load \/ load' = [load EXCEPT ![th] = NoLoad]
      /\ UNCHANGED <<s_data, m_value, m_callback_map, held, creating, calls, raced, unmet>>
  BY DEF Throw
<1>2. Sound(<<>>)
  BY StacksSound
<1>3. /\ load' \in [Threads -> SUBSET (Texts \union {None})]
      /\ \A t \in Threads : load'[t] = NoLoad \/ load'[t] = load[t]
  BY <1>1 DEF IInv, Plain, NoLoad
<1>4. Owing'
  BY <1>1, <1>3 DEF IInv, Owing
<1>5. QED
  BY <1>1, <1>2, <1>3, <1>4, StackOnlyKeeps DEF IInv, Plain

LEMMA WriteKeeps ==
  ASSUME IInv, NEW th \in Threads, Write(th)
  PROVE  IInv' /\ MadeStay
<1> DEFINE v == Last(stack[th]).v
           x == Last(stack[th]).x
<1>1. /\ stack[th] # <<>>
      /\ m_value' = [m_value EXCEPT ![v] = x]
      /\ stack' = [stack EXCEPT ![th] = Front(stack[th])]
      /\ UNCHANGED <<s_data, m_callback_map, held, creating, load, calls, raced, unmet>>
  BY DEF Write, InPhase
<1>2. v \in Vars /\ x \in Values /\ m_value[v] # None
  BY <1>1, Innermost DEF Frames
<1>3. x # None
  BY <1>2, ConfigAssumption DEF ConfigAssumption
<1> HIDE DEF v, x
<1>4. /\ m_value' \in [Vars -> Values \union {None}]
      /\ \A u \in Vars : m_value'[u] = IF u = v THEN x ELSE m_value[u]
  BY <1>1, <1>2 DEF IInv, Pointers
<1>5. MadeStay
  BY <1>3, <1>4 DEF MadeStay
<1>6. stack' \in [Threads -> Seq(Frames)] /\ Calling'
  BY <1>1, <1>5, StacksSound, StackStep
<1>7. Pointers'
  BY <1>1, <1>4, <1>5 DEF IInv, Pointers, MadeStay
<1>8. Plain' /\ Owing' /\ SameUnlessRaced'
  BY <1>1 DEF IInv, Plain, Owing, SameUnlessRaced
<1>9. Creation'
  <2>1. \A t \in Threads, n \in Names :
          creating[t] = n => <<t, n>> \in Vars /\ <<t, n>> # v
    BY <1>2 DEF IInv, Creation, Vars
  <2>2. QED
    BY <1>1, <1>4, <2>1 DEF IInv, Creation
<1>10. QED
  BY <1>5, <1>6, <1>7, <1>8, <1>9 DEF IInv

LEMMA LoadKeeps ==
  ASSUME IInv, NEW th \in Threads, NEW doc \in Documents, Load(th, doc),
         calls' \in 0 .. MaxCalls
  PROVE  IInv'
<1> DEFINE entries == {<<n, doc[n]>> : n \in DOMAIN doc}
           owed    == {n \in DOMAIN doc : s_data[n] # None /\ doc[n] # Bad}
<1>1. /\ load' = [load EXCEPT ![th] = entries]
      /\ unmet' = [unmet EXCEPT ![th] = owed]
      /\ UNCHANGED <<s_data, m_value, m_callback_map, held, creating, stack, raced>>
  BY DEF Load
<1>2. PICK ns \in SUBSET Names : doc \in [ns -> Values \union {Bad}]
  BY DEF Documents
<1>3. entries \subseteq Texts /\ owed \subseteq Names
  BY <1>2 DEF Texts
<1>4. ASSUME NEW n \in owed
      PROVE  s_data[n] # None /\ \E x \in Values : <<n, x>> \in entries
  BY <1>2, <1>4
<1> HIDE DEF entries, owed
<1>5. /\ load' \in [Threads -> SUBSET (Texts \union {None})]
      /\ \A t \in Threads : load'[t] = IF t = th THEN entries ELSE load[t]
      /\ unmet' \in [Threads -> SUBSET Names]
      /\ \A t \in Threads : unmet'[t] = IF t = th THEN owed ELSE unmet[t]
  BY <1>1, <1>3 DEF IInv, Plain
<1>6. Owing'
  BY <1>1, <1>4, <1>5 DEF IInv, Owing
<1>7. Sound(stack[th]) /\ stack' = [stack EXCEPT ![th] = stack[th]]
  BY <1>1, StacksSound DEF IInv
<1>8. \A t \in Threads : load'[t] = NoLoad \/ load'[t] \subseteq Texts
  BY <1>3, <1>5 DEF IInv, Plain
<1>9. QED
  BY <1>1, <1>5, <1>6, <1>7, <1>8, StackOnlyKeeps

LEMMA LoadNextKeeps == ASSUME IInv, NEW th \in Threads, LoadNext(th) PROVE IInv'
<1>1. PICK p \in load[th] \ NoLoad :
        /\ load' = [load EXCEPT ![th] = load[th] \ {p}]
        /\ IF s_data[p[1]] = None \/ ~Converts(p[2])
           THEN UNCHANGED <<stack, unmet>>
           ELSE /\ stack' = [stack EXCEPT ![th] =
                               Called(stack[th], s_data[p[1]], p[2])]
                /\ unmet' = [unmet EXCEPT ![th] = unmet[th] \ {p[1]}]
        /\ UNCHANGED <<s_data, m_value, m_callback_map, held, creating, calls, raced>>
  BY DEF LoadNext, GoesOn
<1>2. /\ load[th] # NoLoad /\ load[th] \subseteq Texts /\ p \in Texts
      /\ p = <<p[1], p[2]>> /\ p[1] \in Names /\ p[2] \in Values \union {Bad}
  BY <1>1 DEF IInv, Plain, Texts
<1>3. /\ load' \in [Threads -> SUBSET (Texts \union {None})]
      /\ \A t \in Threads : load'[t] = IF t = th THEN load[th] \ {p} ELSE load[t]
  BY <1>1, <1>2 DEF IInv, Plain
<1>4. \A t \in Threads : load'[t] = NoLoad \/ load'[t] \subseteq Texts
  BY <1>2, <1>3 DEF IInv, Plain
<1>5. CASE s_data[p[1]] = None \/ ~Converts(p[2])
  <2>1. UNCHANGED <<stack, unmet>>
    BY <1>1, <1>5
  <2>2. ASSUME NEW n \in unmet[th]
        PROVE  s_data[n] # None /\ \E x \in Values : <<n, x>> \in load[th] \ {p}
    <3>1. PICK x \in Values : <<n, x>> \in load[th]
      BY <1>2, <2>2 DEF IInv, Owing
    <3>2. s_data[n] # None /\ Converts(x)
      BY <1>2, <2>2, ConfigAssumption DEF IInv, Owing, Converts, ConfigAssumption
    <3>3. <<n, x>> # p
      BY <1>5, <3>2
    <3>4. QED
      BY <3>1, <3>2, <3>3
  <2>3. Owing'
    BY <1>1, <1>3, <2>1, <2>2 DEF IInv, Owing
  <2>4. Sound(stack[th]) /\ stack' = [stack EXCEPT ![th] = stack[th]]
    BY <2>1, StacksSound DEF IInv
  <2>5. calls' \in 0 .. MaxCalls /\ unmet' \in [Threads -> SUBSET Names]
    BY <1>1, <2>1 DEF IInv, Plain
  <2>6. QED
    BY <1>1, <1>3, <1>4, <2>3, <2>4, <2>5, StackOnlyKeeps
<1>6. CASE ~(s_data[p[1]] = None \/ ~Converts(p[2]))
  <2>1. /\ stack' = [stack EXCEPT ![th] = Called(stack[th], s_data[p[1]], p[2])]
        /\ unmet' = [unmet EXCEPT ![th] = unmet[th] \ {p[1]}]
    BY <1>1, <1>6
  <2>2. /\ p[2] \in Values /\ s_data[p[1]] \in Vars
        /\ m_value[s_data[p[1]]] # None
    BY <1>2, <1>6 DEF Converts, IInv, Pointers
  <2>3. Sound(Called(stack[th], s_data[p[1]], p[2]))
    BY <2>2, StacksSound
  <2>4. /\ unmet' \in [Threads -> SUBSET Names]
        /\ \A t \in Threads : unmet'[t] = IF t = th THEN unmet[th] \ {p[1]} ELSE unmet[t]
    BY <2>1 DEF IInv, Plain
  <2>5. ASSUME NEW n \in unmet[th] \ {p[1]}
        PROVE  s_data[n] # None /\ \E x \in Values : <<n, x>> \in load[th] \ {p}
    <3>1. s_data[n] # None
      BY <1>2 DEF IInv, Owing
    <3>2. PICK x \in Values : <<n, x>> \in load[th]
      BY <1>2 DEF IInv, Owing
    <3>3. <<n, x>> # p
      BY <1>2, <2>5
    <3>4. QED
      BY <3>1, <3>2, <3>3
  <2>6. Owing'
    BY <1>1, <1>3, <2>4, <2>5 DEF IInv, Owing
  <2>7. calls' \in 0 .. MaxCalls
    BY <1>1 DEF IInv, Plain
  <2>8. QED
    BY <1>1, <1>3, <1>4, <2>1, <2>3, <2>4, <2>6, <2>7, StackOnlyKeeps
<1>7. QED
  BY <1>5, <1>6

LEMMA LoadReturnsKeeps ==
  ASSUME IInv, NEW th \in Threads, LoadReturns(th)
  PROVE  IInv'
<1>1. /\ load' = [load EXCEPT ![th] = NoLoad]
      /\ UNCHANGED <<s_data, m_value, m_callback_map, held, creating, stack, calls,
                     raced, unmet>>
  BY DEF LoadReturns
<1>2. /\ load' \in [Threads -> SUBSET (Texts \union {None})]
      /\ \A t \in Threads : load'[t] = NoLoad \/ load'[t] = load[t]
  BY <1>1 DEF IInv, Plain, NoLoad
<1>3. Owing'
  BY <1>1, <1>2 DEF IInv, Owing
<1>4. Sound(stack[th]) /\ stack' = [stack EXCEPT ![th] = stack[th]]
  BY <1>1, StacksSound DEF IInv
<1>5. QED
  BY <1>1, <1>2, <1>3, <1>4, StackOnlyKeeps DEF IInv, Plain

LEMMA BeginsKeeps == ASSUME IInv, NEW th \in Threads, Begins(th) PROVE IInv'
<1>1. calls' \in 0 .. MaxCalls
  BY ConfigAssumption DEF ConfigAssumption, Begins, IInv, Plain
<1>2. QED
  BY <1>1, LookupKeeps, ListenerKeeps, SetValueKeeps, LoadKeeps DEF Begins

LEMMA IInvStep == ASSUME IInv, [Next]_vars PROVE IInv'
<1>1. CASE UNCHANGED vars
  BY <1>1, PointersKept, CreationKept, OwingKept DEF vars, IInv, Plain, Calling
<1>2. ASSUME NEW th \in Threads, GoOn(th) PROVE IInv'
  BY <1>2, InsertKeeps, CompareKeeps, NotifyKeeps, LeaveKeeps, ThrowKeeps, WriteKeeps,
     LoadNextKeeps, LoadReturnsKeeps DEF GoOn
<1>3. QED
  BY <1>1, <1>2, BeginsKeeps DEF Next

\* Every reachable state satisfies the inductive invariant.
THEOREM Invariance == Spec => []IInv
<1>1. Init => IInv
  BY IInvInit
<1>2. IInv /\ [Next]_vars => IInv'
  BY IInvStep
<1>3. QED
  BY <1>1, <1>2, PTL DEF Spec
-----------------------------------------------------------------------------
(* The properties. *)

\* Type correctness: a pointer that a thread or the registry has leads to a
\* variable that has been made.
THEOREM TypeCorrect == Spec => []TypeOK
<1>1. ASSUME IInv PROVE TypeOK
  <2> DEFINE Made == {v \in Vars : m_value[v] # None}
  <2>1. s_data \in [Names -> Made \union {None}]
    BY <1>1 DEF IInv, Pointers
  <2>2. held \in [Threads -> [Names -> Made \union {None}]]
    <3>1. \A th \in Threads : held[th] \in [Names -> Made \union {None}]
      BY <1>1 DEF IInv, Pointers
    <3>2. QED
      BY <1>1, <3>1 DEF IInv, Pointers
  <2>3. stack \in [Threads -> Seq([v : Vars, x : Values,
                                   phase : {"compare", "notify", "leave", "write"}])]
    BY <1>1 DEF IInv, Frames
  <2>4. QED
    BY <1>1, <2>1, <2>2, <2>3 DEF IInv, Pointers, Plain, TypeOK, Texts
<1>2. QED
  BY <1>1, Invariance, PTL

\* Pointers to a variable agree unless two threads raced to create it
\* (config.h:469-497).
THEOREM SameVariable == Spec => []SameUnlessRaced
<1>1. IInv => SameUnlessRaced
  BY DEF IInv
<1>2. QED
  BY <1>1, Invariance, PTL

\* A load through its document has set all it had to (config.h:505-522).
THEOREM LoadsCover == Spec => []LoadCovers
<1>1. IInv => LoadCovers
  BY DEF IInv, Owing, LoadCovers, NoLoad, Plain
<1>2. QED
  BY <1>1, Invariance, PTL

\* Only a thread that waits for the readers, or that makes the variable,
\* changes it.
LEMMA StableStep ==
  ASSUME IInv, [Next]_vars, NEW v \in Vars, Reading(v) # {}
  PROVE  m_callback_map'[v] = m_callback_map[v] /\ m_value'[v] = m_value[v]
<1>1. CASE UNCHANGED vars
  BY <1>1 DEF vars
<1>2. ASSUME NEW th \in Threads, Insert(th) PROVE m_value'[v] = m_value[v]
  <2>1. PICK t \in Threads : \E i \in DOMAIN stack[t] : stack[t][i].v = v
    BY DEF Reading
  <2>2. PICK i \in DOMAIN stack[t] : stack[t][i].v = v
    BY <2>1
  <2>3. i \in 1 .. Len(stack[t])
    BY LenProperties DEF IInv
  <2>4. m_value[v] # None
    BY <2>2, <2>3 DEF IInv, Calling
  <2>5. creating[th] \in Names /\ m_value[<<th, creating[th]>>] = None
    BY <1>2 DEF Insert, IInv, Plain, Creation
  <2>6. PICK x \in Values : m_value' = [m_value EXCEPT ![<<th, creating[th]>>] = x]
    BY <1>2 DEF Insert
  <2>7. v # <<th, creating[th]>>
    BY <2>4, <2>5
  <2>8. QED
    BY <2>6, <2>7 DEF IInv, Pointers
<1>3. ASSUME NEW th \in Threads, Write(th) PROVE m_value'[v] = m_value[v]
  BY <1>3 DEF Write, MayWrite, IInv, Pointers
<1>4. ASSUME NEW th \in Threads, GoOn(th)
      PROVE  m_callback_map'[v] = m_callback_map[v] /\ m_value'[v] = m_value[v]
  BY <1>2, <1>3, <1>4
     DEF GoOn, Insert, Compare, Notify, Leave, Throw, Write, LoadNext, LoadReturns
<1>5. ASSUME NEW th \in Threads, Begins(th)
      PROVE  m_callback_map'[v] = m_callback_map[v] /\ m_value'[v] = m_value[v]
  <2>1. ASSUME NEW u \in Vars,
               DelListener(th, u) \/ \E l \in Listeners : AddListener(th, u, l)
        PROVE  m_callback_map'[v] = m_callback_map[v] /\ m_value'[v] = m_value[v]
    BY <2>1 DEF DelListener, AddListener, MayWrite, IInv, Plain
  <2>2. QED
    BY <1>5, <2>1 DEF Begins, Lookup, SetValue, Load
<1>6. QED
  BY <1>1, <1>4, <1>5 DEF Next

\* Value and listeners stand still while listeners are told (config.h:330).
THEOREM StableForListeners == Spec => StableWhileTold
<1>1. IInv /\ [Next]_vars =>
        [\A v \in Vars : Reading(v) # {} =>
           m_callback_map'[v] = m_callback_map[v] /\ m_value'[v] = m_value[v]]_vars
  BY StableStep
<1>2. QED
  BY <1>1, Invariance, PTL DEF Spec, StableWhileTold
=============================================================================
