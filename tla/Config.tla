------------------------------ MODULE Config ------------------------------
(***************************************************************************)
(* Configuration variables (include/config.h): the registry of Config and  *)
(* the ConfigVar objects in it, used by several threads.                   *)
(*                                                                         *)
(* Every critical section under a write lock is one action, and so is each *)
(* that runs to its end under a read lock.  The loop of setValue calls     *)
(* listeners with its read lock held, and they may call setValue of other  *)
(* variables: stack[th] holds the calls of setValue that th is inside.     *)
(* Conversions either give a value or throw; RWLock lets a reader in while *)
(* a writer waits.  getValue, toString and getListener change nothing.     *)
(***************************************************************************)
EXTENDS Naturals, Sequences, SequencesExt

CONSTANTS Threads, Names, Values,
          Bad,       \* a text that does not convert to a value
          Listeners, \* the callbacks that may be registered
          Sets,      \* Sets[l]: the name of the variable l sets, or None
          None,
          MaxCalls,  \* bound: how many calls the threads begin in all
          MaxDepth   \* bound: how deep calls of setValue are nested

ConfigAssumption ==
  /\ MaxCalls \in Nat /\ MaxDepth \in Nat
  /\ Bad \notin Values /\ None \notin Values \union Names \union Listeners
  /\ None \notin (Threads \X Names) \union (Names \X (Values \union {Bad}))
  /\ Sets \in [Listeners -> Names \union {None}]
ASSUME ConfigAssumption

\* A thread makes at most one variable of a name, so that this names it.
Vars == Threads \X Names

VARIABLES
  s_data,         \* s_data[n]: the registered variable, or None
  m_value,        \* m_value[v]: None before v is made
  m_callback_map, \* the entry under key 0, the only key there is, or None
  held,           \* held[th][n]: what th's last Lookup of n gave it
  creating,       \* creating[th]: the name th has not found and will insert
  stack,          \* stack[th]: frames of setValue, the innermost last
  load,           \* load[th]: the entries LoadFromYAML has left, or {None}
  calls,
  raced,          \* history: names that two threads were creating at once
  unmet           \* history: the names a load still has to set

vars == <<s_data, m_value, m_callback_map, held, creating, stack, load, calls,
          raced, unmet>>

NoLoad == {None}
Idle(th) == creating[th] = None /\ stack[th] = <<>> /\ load[th] = NoLoad

\* Wrong variant: the read lock is held until setValue returns.
WholeCall == {"notify", "leave", "write"}

\* Where in setValue the read lock is held, and by whom for v.
ReadPhases == {"notify", "leave"}
Reading(v) ==
  {th \in Threads : \E i \in DOMAIN stack[th] :
     stack[th][i].v = v /\ stack[th][i].phase \in ReadPhases}

\* Wrong variant: a writer takes the lock whatever readers there are.
NeverWaits(v) == TRUE

MayWrite(v) == Reading(v) = {}

Init ==
  /\ s_data = [n \in Names |-> None]
  /\ m_value = [v \in Vars |-> None]
  /\ m_callback_map = [v \in Vars |-> None]
  /\ held = [th \in Threads |-> [n \in Names |-> None]]
  /\ creating = [th \in Threads |-> None]
  /\ stack = [th \in Threads |-> <<>>]
  /\ load = [th \in Threads |-> NoLoad]
  /\ calls = 0
  /\ raced = {}
  /\ unmet = [th \in Threads |-> {}]

---------------------------------------------------------------------------
(* The registry. *)

\* Wrong variant: the variable is made anew whether or not there is one.
NotFound(n) == FALSE

Found(n) == s_data[n] # None

\* Lookup(name, value) up to the insertion: the registry is unlocked in between.
\* Left out are its two throws, which change nothing: bad_cast for a name that
\* is registered with another type (config.h:464) and invalid_argument for an
\* illegal name that is not registered (491).  Names are legal, and every
\* caller asks for the one type of a name.
Lookup(th, n) ==
  /\ Idle(th)
  /\ \/ /\ Found(n)
        /\ held' = [held EXCEPT ![th][n] = s_data[n]]
        /\ UNCHANGED <<creating, raced>>
     \/ /\ ~Found(n) /\ m_value[<<th, n>>] = None
        /\ creating' = [creating EXCEPT ![th] = n]
        /\ raced' = IF \E u \in Threads : creating[u] = n THEN raced \union {n} ELSE raced
        /\ UNCHANGED held
  /\ UNCHANGED <<s_data, m_value, m_callback_map, stack, load, unmet>>

\* The insertion, which replaces what another thread has inserted meanwhile.
Insert(th) ==
  LET n == creating[th] v == <<th, n>> IN
  /\ n # None
  /\ \E x \in Values : m_value' = [m_value EXCEPT ![v] = x]
  /\ s_data' = [s_data EXCEPT ![n] = v]
  /\ held' = [held EXCEPT ![th][n] = v]
  /\ creating' = [creating EXCEPT ![th] = None]
  /\ UNCHANGED <<m_callback_map, stack, load, calls, raced, unmet>>

---------------------------------------------------------------------------
(* Listeners. *)

\* addListener registers under s_cb_id, which stays 0: it replaces.
AddListener(th, v, l) ==
  /\ Idle(th) /\ v \in Range(held[th]) /\ MayWrite(v)
  /\ m_callback_map' = [m_callback_map EXCEPT ![v] = l]
  /\ UNCHANGED <<s_data, m_value, held, creating, stack, load, raced, unmet>>

\* delListener of that key, and clearListener.
DelListener(th, v) ==
  /\ Idle(th) /\ v \in Range(held[th]) /\ MayWrite(v)
  /\ m_callback_map' = [m_callback_map EXCEPT ![v] = None]
  /\ UNCHANGED <<s_data, m_value, held, creating, stack, load, raced, unmet>>

---------------------------------------------------------------------------
(* setValue. *)

\* The calls st is inside once setValue(x) of v has been called.
Called(st, v, x) == Append(st, [v |-> v, x |-> x, phase |-> "compare"])

InPhase(th, phase) == stack[th] # <<>> /\ Last(stack[th]).phase = phase
WithPhase(st, phase) == Front(st) \o <<[Last(st) EXCEPT !.phase = phase]>>

SetValue(th, v, x) ==
  /\ Idle(th) /\ v \in Range(held[th])
  /\ stack' = [stack EXCEPT ![th] = Called(@, v, x)]
  /\ UNCHANGED <<s_data, m_value, m_callback_map, held, creating, load, raced, unmet>>

\* The read lock is taken.  It is given back again at once if x is the value
\* there is, or nobody listens.
Compare(th) ==
  LET f == Last(stack[th]) IN
  /\ InPhase(th, "compare")
  /\ \/ m_value[f.v] = f.x /\ stack' = [stack EXCEPT ![th] = Front(@)]
     \/ /\ m_value[f.v] # f.x
        /\ stack' = [stack EXCEPT ![th] = WithPhase(@,
                       IF m_callback_map[f.v] = None THEN "write" ELSE "notify")]
  /\ UNCHANGED <<s_data, m_value, m_callback_map, held, creating, load, calls,
                 raced, unmet>>

\* The listener is called, with the value there is for old and new.  It may
\* set another variable, if it finds it, in a nested call.
Notify(th) ==
  LET n  == Sets[m_callback_map[Last(stack[th]).v]]
      st == WithPhase(stack[th], "leave") IN
  /\ InPhase(th, "notify")
  /\ IF n = None \/ s_data[n] = None \/ Len(st) = MaxDepth
     THEN stack' = [stack EXCEPT ![th] = st]
     ELSE \E x \in Values : stack' = [stack EXCEPT ![th] = Called(st, s_data[n], x)]
  /\ UNCHANGED <<s_data, m_value, m_callback_map, held, creating, load, calls,
                 raced, unmet>>

\* The listener has returned, and the read lock is given back.
Leave(th) ==
  /\ InPhase(th, "leave")
  /\ stack' = [stack EXCEPT ![th] = WithPhase(@, "write")]
  /\ UNCHANGED <<s_data, m_value, m_callback_map, held, creating, load, calls,
                 raced, unmet>>

\* The listener throws: every call is left, with its lock and without writing,
\* up to fromString, which catches a std::exception, or out of the load.
Throw(th) ==
  /\ InPhase(th, "leave")
  /\ stack' = [stack EXCEPT ![th] = <<>>]
  /\ load' \in {load, [load EXCEPT ![th] = NoLoad]}
  /\ UNCHANGED <<s_data, m_value, m_callback_map, held, creating, calls, raced, unmet>>

Write(th) ==
  LET f == Last(stack[th]) IN
  /\ InPhase(th, "write") /\ MayWrite(f.v)
  /\ m_value' = [m_value EXCEPT ![f.v] = f.x]
  /\ stack' = [stack EXCEPT ![th] = Front(@)]
  /\ UNCHANGED <<s_data, m_callback_map, held, creating, load, calls, raced, unmet>>

---------------------------------------------------------------------------
(* LoadFromYAML. *)

\* The entries of a document, after TraversalNode: one text for each name.
Load(th, doc) ==
  /\ Idle(th)
  /\ load' = [load EXCEPT ![th] = {<<n, doc[n]>> : n \in DOMAIN doc}]
  /\ unmet' = [unmet EXCEPT ![th] =
                 {n \in DOMAIN doc : s_data[n] # None /\ doc[n] # Bad}]
  /\ UNCHANGED <<s_data, m_value, m_callback_map, held, creating, stack, raced>>

\* Wrong variant: the load gives up at a text that does not convert.
GivesUp(rest, p) == IF p[2] = Bad THEN {} ELSE rest

\* fromString returns false, which nobody looks at.
GoesOn(rest, p) == rest

\* Wrong variant: a text that does not convert is taken for a value.
AllConvert(x) == TRUE

Converts(x) == x # Bad

\* One entry: if its name is registered and its text converts, it is set.
LoadNext(th) ==
  \E p \in load[th] \ NoLoad :
    /\ stack[th] = <<>>
    /\ load' = [load EXCEPT ![th] = GoesOn(@ \ {p}, p)]
    /\ IF s_data[p[1]] = None \/ ~Converts(p[2])
       THEN UNCHANGED <<stack, unmet>>
       ELSE /\ stack' = [stack EXCEPT ![th] = Called(@, s_data[p[1]], p[2])]
            /\ unmet' = [unmet EXCEPT ![th] = @ \ {p[1]}]
    /\ UNCHANGED <<s_data, m_value, m_callback_map, held, creating, calls, raced>>

LoadReturns(th) ==
  /\ load[th] = {} /\ stack[th] = <<>>
  /\ load' = [load EXCEPT ![th] = NoLoad]
  /\ UNCHANGED <<s_data, m_value, m_callback_map, held, creating, stack, calls,
                 raced, unmet>>

---------------------------------------------------------------------------
\* What a thread inside a call does next.
GoOn(th) ==
  \/ Insert(th) \/ Compare(th) \/ Notify(th) \/ Leave(th) \/ Throw(th) \/ Write(th)
  \/ LoadNext(th) \/ LoadReturns(th)

Documents == UNION {[ns -> Values \union {Bad}] : ns \in SUBSET Names}

Begins(th) ==
  /\ calls < MaxCalls /\ calls' = calls + 1
  /\ \/ \E n \in Names : Lookup(th, n)
     \/ \E v \in Vars :
          \/ \E l \in Listeners : AddListener(th, v, l)
          \/ DelListener(th, v)
          \/ \E x \in Values : SetValue(th, v, x)
     \/ \E doc \in Documents : Load(th, doc)

Next == \E th \in Threads : GoOn(th) \/ Begins(th)

Spec == Init /\ [][Next]_vars

\* A thread inside a call is run, and an unlocked lock is got.
FairSpec == Spec /\ \A th \in Threads : WF_vars(GoOn(th))

---------------------------------------------------------------------------
(* Properties. *)

\* The shape of the state; what is registered or held has been made.
TypeOK ==
  /\ m_value \in [Vars -> Values \union {None}]
  /\ s_data \in [Names -> {v \in Vars : m_value[v] # None} \union {None}]
  /\ held \in [Threads -> [Names -> {v \in Vars : m_value[v] # None} \union {None}]]
  /\ m_callback_map \in [Vars -> Listeners \union {None}]
  /\ creating \in [Threads -> Names \union {None}]
  /\ stack \in [Threads -> Seq([v : Vars, x : Values,
                                phase : {"compare", "notify", "leave", "write"}])]
  /\ \A th \in Threads :
       load[th] = NoLoad \/ load[th] \subseteq Names \X (Values \union {Bad})
  /\ calls \in 0..MaxCalls
  /\ raced \subseteq Names
  /\ unmet \in [Threads -> SUBSET Names]

\* While setValue walks over the listeners, with an iterator into the map and
\* the old value in hand (config.h:330-335), neither changes.
StableWhileTold ==
  [][\A v \in Vars : Reading(v) # {} =>
       m_callback_map'[v] = m_callback_map[v] /\ m_value'[v] = m_value[v]]_vars

\* All pointers that Lookup has given for a name point to the variable that is
\* registered, which LoadFromYAML sets (config.h:469-497), unless two threads
\* were creating it at once.
SameUnlessRaced ==
  \A th \in Threads, n \in Names : held[th][n] \in {None, s_data[n]} \/ n \in raced

\* When a load is through, every name that its document had a good text for and
\* that was registered has been set, whatever else the document held and
\* whatever setting other names has thrown (config.h:505-522).
LoadCovers == \A th \in Threads : load[th] = {} => unmet[th] = {}

\* A listener of v is inside a setValue of u, and a chain of these comes back
\* to where it began: a set of variables each with a call into another.
Within(v, u) ==
  \E th \in Threads : \E i, j \in DOMAIN stack[th] :
    i < j /\ stack[th][i].v = v /\ stack[th][j].v = u
Cyclic ==
  \E vs \in SUBSET Vars \ {{}} : \A v \in vs : \E u \in vs : Within(v, u)

\* Every call comes back, unless listeners set each other's variables in a
\* cycle (config.h:325, 338: the write lock is asked for after the read lock
\* has been given back, but inside the read locks of the callers).
CallsReturn == \A th \in Threads : ~Idle(th) ~> (Idle(th) \/ Cyclic)

\* Lookup is thread-safe (config.h:469): all threads get the same variable.
OneVarPerName ==
  \A th, u \in Threads, n \in Names :
    held[th][n] # None /\ held[u][n] # None => held[th][n] = held[u][n]
=============================================================================
