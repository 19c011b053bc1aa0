-------------------------- MODULE FindFilesProofs --------------------------
(***************************************************************************)
(* Safety of FindFiles for every set of names, every depth and any number  *)
(* of changes to the directories.                                          *)
(***************************************************************************)
EXTENDS FindFiles, SequenceTheorems, FiniteSetTheorems, WellFoundedInduction, TLAPS

Dirs == Paths \union {<<>>}

\* The directory k levels below the one searched that p lies in, or p itself.
Up(p, k) == SubSeq(p, 1, k)

(***************************************************************************)
(* The inductive invariant.                                                *)
(***************************************************************************)
Typed ==
  /\ fs \in [Paths -> {"none", "file", "dir"}]
  /\ steady \subseteq Paths
  /\ findDirectory \in BOOLEAN /\ includeSubDirectory \in BOOLEAN
  /\ ps \in Seq(Dirs) /\ reading \in Dirs \union {NoDir}
  /\ todo \subseteq Names /\ maybe \subseteq Names
  /\ out \in Seq(Paths)

\* The names readdir has still to return are those of the open directory.
OpenOnly ==
  /\ reading = NoDir => todo = {} /\ maybe = {}
  /\ \A n \in todo \union maybe : Append(reading, n) \in Paths

\* What exists lies in a directory.
Tree == \A p \in Paths : fs[p] # "none" => IsDir(fs, Front(p))

\* What has been there from the start lies in directories that have.
SteadyTree ==
  \A p \in steady :
    /\ fs[p] # "none"
    /\ \A k \in 1 .. Len(p) : Up(p, k) \in steady
    /\ reading = Front(p) => Last(p) \notin maybe

\* The walk will still come to what lies in d on the way to p.
Waits(p, k) ==
  \/ Up(p, k) \in ToSet(ps)
  \/ reading = Up(p, k) /\ p[k + 1] \in todo
Ahead(p) == \E k \in 0 .. Len(p) - 1 : Waits(p, k)

Reached(p) == p \in ToSet(out) \/ p \in ToSet(ps) \/ reading = p

\* What the walk has reached it will not come to again.
OneWay == \A p \in steady : Reached(p) => ~Ahead(p)

\* Nothing stands twice on the stack or in the result.
Unique(s, e) == \A i, j \in 1 .. Len(s) : s[i] = e /\ s[j] = e => i = j
Once ==
  /\ \A d \in steady \union {<<>>} :
       Unique(ps, d) /\ (reading = d => d \notin ToSet(ps))
  /\ \A p \in steady : Unique(out, p)

\* What is sought and has stayed is found, or the walk will still come to it.
Sought(p) ==
  /\ Wanted(p) /\ Last(p) \in Matching
  /\ Len(p) = 1 \/ includeSubDirectory
  /\ \A k \in 0 .. Len(p) - 1 : Up(p, k) \notin Unreadable
FoundOrAhead == \A p \in steady : Sought(p) => p \in ToSet(out) \/ Ahead(p)

IInv ==
  /\ Typed /\ OpenOnly /\ Tree /\ SteadyTree
  /\ OneWay /\ Once /\ FoundOrAhead

-----------------------------------------------------------------------------
(* Paths and stacks.                                                       *)

LEMMA PathFacts ==
  ASSUME NEW p \in Paths
  PROVE  /\ p \in Seq(Names) /\ Len(p) \in 1 .. Depths /\ DOMAIN p = 1 .. Len(p)
         /\ \A k \in 0 .. Len(p) :
              /\ Up(p, k) \in Dirs /\ Up(p, k) \in Seq(Names) /\ Len(Up(p, k)) = k
              /\ k > 0 => Up(p, k) \in Paths
              /\ \A i \in 1 .. k : Up(p, k)[i] = p[i]
         /\ Up(p, 0) = <<>> /\ Up(p, Len(p)) = p
         /\ Front(p) = Up(p, Len(p) - 1)
<1>0. Depths \in Nat
  BY FindFilesAssumption DEF FindFilesAssumption
<1>1. PICK d \in 1 .. Depths : p \in [1 .. d -> Names]
  BY DEF Paths
<1>2. p \in Seq(Names) /\ Len(p) = d
  BY <1>1
<1>3. ASSUME NEW k \in 0 .. d
      PROVE  /\ Up(p, k) \in [1 .. k -> Names] /\ Up(p, k) \in Seq(Names)
             /\ Len(Up(p, k)) = k
             /\ \A i \in 1 .. k : Up(p, k)[i] = p[i]
  <2>1. \A i \in 1 .. k : p[i] \in Names
    BY <1>1
  <2>2. /\ SubSeq(p, 1, k) \in Seq(Names)
        /\ Len(SubSeq(p, 1, k)) = IF 1 <= k THEN k - 1 + 1 ELSE 0
        /\ \A i \in 1 .. k - 1 + 1 : SubSeq(p, 1, k)[i] = p[1 + i - 1]
    BY <2>1, SubSeqProperties
  <2>3. /\ Up(p, k) \in Seq(Names) /\ Len(Up(p, k)) = k
        /\ \A i \in 1 .. k : Up(p, k)[i] = p[i]
    BY <2>2 DEF Up
  <2>4. QED
    BY <2>3, LenProperties
<1>4. ASSUME NEW k \in 1 .. d PROVE Up(p, k) \in Paths
  <2>1. k \in 0 .. d /\ k \in 1 .. Depths
    BY <1>0
  <2>2. Up(p, k) \in [1 .. k -> Names]
    BY <1>3, <2>1
  <2>3. QED
    BY <2>1, <2>2 DEF Paths
<1>5. Up(p, 0) = <<>> /\ Up(p, d) = p
  BY <1>2, <1>3
<1>6. QED
  BY <1>0, <1>1, <1>2, <1>3, <1>4, <1>5 DEF Up, Front, Dirs

\* The prefixes of a prefix, and what extends one.
LEMMA PrefixFacts ==
  ASSUME NEW p \in Paths, NEW k \in 0 .. Len(p)
  PROVE  /\ \A j \in 0 .. k : Up(Up(p, k), j) = Up(p, j)
         /\ k < Len(p) => /\ p[k + 1] \in Names
                          /\ Up(p, k + 1) = Append(Up(p, k), p[k + 1])
                          /\ Front(Up(p, k + 1)) = Up(p, k)
                          /\ Last(Up(p, k + 1)) = p[k + 1]
<1>1. /\ p \in Seq(Names) /\ Len(p) \in Nat
      /\ \A j \in 0 .. Len(p) :
           /\ Up(p, j) \in Seq(Names) /\ Len(Up(p, j)) = j
           /\ \A i \in 1 .. j : Up(p, j)[i] = p[i]
  BY PathFacts
<1>2. ASSUME NEW q \in Seq(Names), NEW j \in 0 .. Len(q)
      PROVE  /\ Up(q, j) \in Seq(Names) /\ Len(Up(q, j)) = j
             /\ \A i \in 1 .. j : Up(q, j)[i] = q[i]
  <2>1. \A i \in 1 .. j : q[i] \in Names
    OBVIOUS
  <2>2. /\ SubSeq(q, 1, j) \in Seq(Names)
        /\ Len(SubSeq(q, 1, j)) = IF 1 <= j THEN j - 1 + 1 ELSE 0
        /\ \A i \in 1 .. j - 1 + 1 : SubSeq(q, 1, j)[i] = q[1 + i - 1]
    BY <2>1, SubSeqProperties
  <2>3. QED
    BY <2>2 DEF Up
<1>3. ASSUME NEW j \in 0 .. k PROVE Up(Up(p, k), j) = Up(p, j)
  <2>1. /\ Up(Up(p, k), j) \in Seq(Names) /\ Len(Up(Up(p, k), j)) = j
        /\ \A i \in 1 .. j : Up(Up(p, k), j)[i] = Up(p, k)[i]
    BY <1>1, <1>2
  <2>2. \A i \in 1 .. j : Up(Up(p, k), j)[i] = Up(p, j)[i]
    BY <1>1, <2>1
  <2>3. Up(p, j) \in Seq(Names) /\ Len(Up(p, j)) = j
    BY <1>1
  <2>4. QED
    BY <2>1, <2>2, <2>3, SeqEqual
<1>4. ASSUME k < Len(p)
      PROVE  /\ p[k + 1] \in Names
             /\ Up(p, k + 1) = Append(Up(p, k), p[k + 1])
             /\ Last(Up(p, k + 1)) = p[k + 1]
  <2>1. p[k + 1] \in Names
    BY <1>1, <1>4
  <2>2. /\ Append(Up(p, k), p[k + 1]) \in Seq(Names)
        /\ Len(Append(Up(p, k), p[k + 1])) = k + 1
        /\ \A i \in 1 .. k : Append(Up(p, k), p[k + 1])[i] = Up(p, k)[i]
        /\ Append(Up(p, k), p[k + 1])[k + 1] = p[k + 1]
    BY <1>1, <2>1, AppendProperties
  <2>3. \A i \in 1 .. k + 1 : Up(p, k + 1)[i] = Append(Up(p, k), p[k + 1])[i]
    <3>1. k + 1 \in 0 .. Len(p) /\ k \in 0 .. Len(p)
      BY <1>1, <1>4
    <3>2. /\ \A i \in 1 .. k + 1 : Up(p, k + 1)[i] = p[i]
          /\ \A i \in 1 .. k : Up(p, k)[i] = p[i]
      BY <1>1, <3>1
    <3>3. QED
      BY <2>2, <3>2
  <2>4. Up(p, k + 1) \in Seq(Names) /\ Len(Up(p, k + 1)) = k + 1
    BY <1>1, <1>4
  <2>5. Up(p, k + 1) = Append(Up(p, k), p[k + 1])
    BY <2>2, <2>3, <2>4, SeqEqual
  <2>6. QED
    BY <2>1, <2>2, <2>4, <2>5 DEF Last
<1>5. ASSUME k < Len(p) PROVE Front(Up(p, k + 1)) = Up(p, k)
  <2>1. Len(Up(p, k + 1)) = k + 1
    BY <1>1, <1>5
  <2>2. Front(Up(p, k + 1)) = Up(Up(p, k + 1), k)
    BY <2>1 DEF Front, Up
  <2>3. Up(p, k + 1) \in Seq(Names) /\ k \in 0 .. Len(Up(p, k + 1)) /\ k + 1 \in 0 .. Len(p)
    BY <1>1, <1>5
  <2>4. /\ Up(Up(p, k + 1), k) \in Seq(Names) /\ Len(Up(Up(p, k + 1), k)) = k
        /\ \A i \in 1 .. k : Up(Up(p, k + 1), k)[i] = Up(p, k + 1)[i]
    BY <1>2, <2>3
  <2>5. \A i \in 1 .. k : Up(Up(p, k + 1), k)[i] = Up(p, k)[i]
    BY <1>1, <2>3, <2>4
  <2>6. Up(p, k) \in Seq(Names) /\ Len(Up(p, k)) = k
    BY <1>1
  <2>7. QED
    BY <2>2, <2>4, <2>5, <2>6, SeqEqual
<1>6. QED
  BY <1>3, <1>4, <1>5

\* The entry n of a directory d.
LEMMA EntryFacts ==
  ASSUME NEW d \in Dirs, NEW n \in Names, Append(d, n) \in Paths
  PROVE  /\ Front(Append(d, n)) = d /\ Last(Append(d, n)) = n
         /\ Len(d) \in Nat /\ Len(Append(d, n)) = Len(d) + 1
         /\ Up(Append(d, n), Len(d)) = d
<1>1. d \in Seq(Names)
  BY PathFacts DEF Dirs
<1>2. /\ Len(Append(d, n)) = Len(d) + 1 /\ Len(d) \in Nat
      /\ \A i \in 1 .. Len(d) : Append(d, n)[i] = d[i]
      /\ Append(d, n)[Len(d) + 1] = n
  BY <1>1, AppendProperties
<1>3. Last(Append(d, n)) = n
  BY <1>2 DEF Last
<1>4. /\ Up(Append(d, n), Len(d)) \in Seq(Names)
      /\ Len(Up(Append(d, n), Len(d))) = Len(d)
      /\ \A i \in 1 .. Len(d) : Up(Append(d, n), Len(d))[i] = Append(d, n)[i]
      /\ Front(Append(d, n)) = Up(Append(d, n), Len(Append(d, n)) - 1)
  <2> DEFINE p == Append(d, n)
  <2>1. p \in Paths /\ Len(p) = Len(d) + 1
    BY <1>2
  <2> HIDE DEF p
  <2>2. Len(d) \in 0 .. Len(p)
    BY <1>2, <2>1
  <2>3. /\ Up(p, Len(d)) \in Seq(Names) /\ Len(Up(p, Len(d))) = Len(d)
        /\ \A i \in 1 .. Len(d) : Up(p, Len(d))[i] = p[i]
        /\ Front(p) = Up(p, Len(p) - 1)
    BY <2>1, <2>2, PathFacts
  <2>4. QED
    BY <2>3 DEF p
<1>5. Up(Append(d, n), Len(d)) = d
  BY <1>1, <1>2, <1>4, SeqEqual
<1>6. QED
  BY <1>2, <1>3, <1>4, <1>5

LEMMA Pushing ==
  ASSUME NEW S, NEW s \in Seq(S), NEW e \in S
  PROVE  /\ ToSet(Append(s, e)) = ToSet(s) \union {e}
         /\ \A x : Unique(s, x) /\ (x = e => e \notin ToSet(s)) => Unique(Append(s, e), x)
<1>1. /\ Append(s, e) \in Seq(S) /\ Len(Append(s, e)) = Len(s) + 1 /\ Len(s) \in Nat
      /\ \A i \in 1 .. Len(s) : Append(s, e)[i] = s[i]
      /\ Append(s, e)[Len(s) + 1] = e
      /\ DOMAIN s = 1 .. Len(s) /\ DOMAIN Append(s, e) = 1 .. Len(s) + 1
  BY AppendProperties
<1>2. ToSet(Append(s, e)) = ToSet(s) \union {e}
  BY <1>1 DEF ToSet
<1>3. ASSUME NEW x, Unique(s, x), x = e => e \notin ToSet(s)
      PROVE  Unique(Append(s, e), x)
  BY <1>1, <1>3 DEF Unique, ToSet
<1>4. QED
  BY <1>2, <1>3

LEMMA Popping ==
  ASSUME NEW S, NEW s \in Seq(S), s # <<>>
  PROVE  /\ Front(s) \in Seq(S) /\ Last(s) \in ToSet(s)
         /\ ToSet(s) = ToSet(Front(s)) \union {Last(s)}
         /\ \A x : Unique(s, x) => Unique(Front(s), x)
         /\ Unique(s, Last(s)) => Last(s) \notin ToSet(Front(s))
         /\ ToSet(s) \subseteq S
<1>1. Len(s) \in Nat \ {0} /\ DOMAIN s = 1 .. Len(s)
  OBVIOUS
<1>2. /\ Front(s) \in Seq(S) /\ Len(Front(s)) = Len(s) - 1
      /\ \A i \in 1 .. Len(s) - 1 : Front(s)[i] = s[i]
  <2>1. \A i \in 1 .. Len(s) - 1 : s[i] \in S
    BY <1>1
  <2>2. /\ SubSeq(s, 1, Len(s) - 1) \in Seq(S)
        /\ Len(SubSeq(s, 1, Len(s) - 1)) =
             IF 1 <= Len(s) - 1 THEN Len(s) - 1 - 1 + 1 ELSE 0
        /\ \A i \in 1 .. Len(s) - 1 - 1 + 1 :
             SubSeq(s, 1, Len(s) - 1)[i] = s[1 + i - 1]
    BY <1>1, <2>1, SubSeqProperties
  <2>3. QED
    BY <1>1, <2>2 DEF Front
<1>3. DOMAIN Front(s) = 1 .. Len(s) - 1
  BY <1>2
<1>4. ToSet(s) = ToSet(Front(s)) \union {Last(s)}
  BY <1>1, <1>2, <1>3 DEF ToSet, Last
<1>5. ToSet(s) \subseteq S
  BY <1>1 DEF ToSet
<1>6. \A x : Unique(s, x) => Unique(Front(s), x)
  BY <1>1, <1>2 DEF Unique
<1>7. Unique(s, Last(s)) => Last(s) \notin ToSet(Front(s))
  BY <1>1, <1>2, <1>3 DEF Unique, ToSet, Last
<1>8. QED
  BY <1>2, <1>4, <1>5, <1>6, <1>7

\* The directories above what has been there from the start.
LEMMA Above ==
  ASSUME Typed, Tree, SteadyTree, NEW p \in steady, NEW k \in 0 .. Len(p) - 1
  PROVE  /\ IsDir(fs, Up(p, k))
         /\ Up(p, k) \in steady \union {<<>>} /\ Up(p, k) \in Dirs
         /\ p[k + 1] \in Names
         /\ Up(p, k + 1) = Append(Up(p, k), p[k + 1]) /\ Up(p, k + 1) \in steady
<1>1. p \in Paths /\ Len(p) \in Nat /\ k \in 0 .. Len(p) /\ k < Len(p) /\ k + 1 \in 1 .. Len(p)
  BY PathFacts DEF Typed
<1>2. Up(p, k + 1) \in steady /\ Up(p, k + 1) \in Paths /\ fs[Up(p, k + 1)] # "none"
  BY <1>1 DEF SteadyTree, Typed
<1>3. /\ Front(Up(p, k + 1)) = Up(p, k) /\ p[k + 1] \in Names
      /\ Up(p, k + 1) = Append(Up(p, k), p[k + 1])
  BY <1>1, PrefixFacts
<1>4. IsDir(fs, Up(p, k))
  BY <1>2, <1>3 DEF Tree
<1>5. Up(p, k) \in steady \union {<<>>}
  BY <1>1, PathFacts DEF SteadyTree
<1>6. Up(p, k) \in Dirs
  BY <1>1, PathFacts
<1>7. QED
  BY <1>2, <1>3, <1>4, <1>5, <1>6

\* A path is its last name in the directory before it.
LEMMA LastOfFront ==
  ASSUME NEW p \in Paths
  PROVE  /\ Front(p) \in Dirs /\ Last(p) \in Names /\ p = Append(Front(p), Last(p))
         /\ Front(p) # p /\ p # <<>>
<1>1. /\ Len(p) \in Nat /\ Len(p) - 1 \in 0 .. Len(p) /\ Len(p) - 1 < Len(p) /\ (Len(p) - 1) + 1 = Len(p)
      /\ Front(p) = Up(p, Len(p) - 1) /\ Up(p, Len(p)) = p
  BY PathFacts
<1>2. Up(p, Len(p) - 1) \in Dirs /\ Len(Up(p, Len(p) - 1)) = Len(p) - 1
  BY <1>1, PathFacts
<1>3. /\ p[(Len(p) - 1) + 1] \in Names
      /\ Up(p, (Len(p) - 1) + 1) = Append(Up(p, Len(p) - 1), p[(Len(p) - 1) + 1])
  BY <1>1, PrefixFacts
<1>4. p # <<>>
  BY PathFacts
<1>5. Last(p) = p[(Len(p) - 1) + 1]
  BY <1>1 DEF Last
<1>6. p = Append(Front(p), Last(p)) /\ Last(p) \in Names
  BY <1>1, <1>3, <1>5
<1>7. Front(p) \in Dirs /\ Len(Front(p)) = Len(p) - 1
  BY <1>1, <1>2
<1>8. Front(p) # p
  BY <1>1, <1>7
<1>9. QED
  BY <1>4, <1>6, <1>7, <1>8

-----------------------------------------------------------------------------
(* The first state.                                                        *)

\* A non-empty set of numbers has a least one.
LEMMA LeastExists ==
  ASSUME NEW S \in SUBSET Nat, S # {}
  PROVE  \E m \in S : \A n \in S : m <= n
<1>1. PICK m \in S : \A n \in S : ~(<<n, m>> \in OpToRel(<, Nat))
  BY NatLessThanWellFounded, WFMin, Zenon
<1>2. \A n \in S : ~(n < m)
  BY <1>1, Zenon DEF OpToRel
<1>3. QED
  BY <1>2

\* What exists lies in directories up to the top: of those that do not exist
\* the lowest would be the directory of one that does.
LEMMA InitAbove ==
  ASSUME Tree, NEW p \in Paths, fs[p] # "none", NEW k \in 1 .. Len(p)
  PROVE  fs[Up(p, k)] # "none"
<1> DEFINE Missing == {j \in Nat : j < Len(p) /\ fs[Up(p, Len(p) - j)] = "none"}
<1>1. /\ Len(p) \in Nat /\ Up(p, Len(p)) = p
      /\ \A i \in 1 .. Len(p) : Up(p, i) \in Paths
      /\ \A i \in 1 .. Len(p) : i < Len(p) => Front(Up(p, i + 1)) = Up(p, i)
      /\ \A i \in 1 .. Len(p) : Up(p, i) # <<>>
  <2>1. \A i \in 1 .. Len(p) : Up(p, i) \in Paths
    BY PathFacts
  <2>2. \A i \in 1 .. Len(p) : Up(p, i) # <<>>
    BY <2>1, LastOfFront
  <2>3. ASSUME NEW i \in 1 .. Len(p), i < Len(p) PROVE Front(Up(p, i + 1)) = Up(p, i)
    <3>1. i \in 0 .. Len(p)
      OBVIOUS
    <3>2. QED
      BY <2>3, <3>1, PrefixFacts
  <2>4. QED
    BY <2>1, <2>2, <2>3, PathFacts
<1>2. SUFFICES ASSUME fs[Up(p, k)] = "none" PROVE FALSE
  OBVIOUS
<1>3. Len(p) - k \in Missing
  <2>1. Len(p) - (Len(p) - k) = k /\ Len(p) - k \in Nat /\ Len(p) - k < Len(p)
    BY <1>1
  <2>2. QED
    BY <1>2, <2>1
<1>4. PICK j \in Missing : \A i \in Missing : j <= i
  <2>1. Missing \in SUBSET Nat /\ Missing # {}
    BY <1>3
  <2>2. QED
    BY <2>1, LeastExists
<1>5. j # 0
  BY <1>1, <1>4
<1>6. j - 1 \in Nat /\ j - 1 < Len(p) /\ ~(j <= j - 1)
  BY <1>1, <1>4, <1>5
<1>7. fs[Up(p, Len(p) - (j - 1))] # "none"
  BY <1>4, <1>6
<1>8. Len(p) - j \in 1 .. Len(p) /\ Len(p) - j < Len(p) /\ Len(p) - (j - 1) = (Len(p) - j) + 1
      /\ (Len(p) - j) + 1 \in 1 .. Len(p)
  BY <1>1, <1>4, <1>5
<1>9. IsDir(fs, Front(Up(p, (Len(p) - j) + 1)))
  BY <1>1, <1>7, <1>8 DEF Tree
<1>10. Front(Up(p, (Len(p) - j) + 1)) = Up(p, Len(p) - j) /\ Up(p, Len(p) - j) # <<>>
  BY <1>1, <1>8
<1>11. QED
  BY <1>4, <1>9, <1>10 DEF IsDir

LEMMA InitIInv == FindInit => IInv
<1> SUFFICES ASSUME FindInit PROVE IInv
  OBVIOUS
<1>1. NoDir \notin Dirs
  BY FindFilesAssumption DEF FindFilesAssumption, Dirs
<1>2. /\ ps \in Seq(Dirs) /\ ToSet(ps) = {<<>>} /\ Len(ps) = 1 /\ ps[1] = <<>>
      /\ out \in Seq(Paths) /\ ToSet(out) = {} /\ Len(out) = 0
  BY DEF FindInit, Dirs, ToSet
<1>3. Typed /\ OpenOnly /\ Tree
  BY <1>2 DEF FindInit, Typed, OpenOnly, Tree
<1>4. SteadyTree
  <2> SUFFICES ASSUME NEW p \in steady
               PROVE  /\ fs[p] # "none"
                      /\ \A k \in 1 .. Len(p) : Up(p, k) \in steady
                      /\ reading = Front(p) => Last(p) \notin maybe
    BY DEF SteadyTree
  <2>1. p \in Paths /\ fs[p] # "none" /\ maybe = {}
    BY DEF FindInit
  <2>2. ASSUME NEW k \in 1 .. Len(p) PROVE Up(p, k) \in steady
    <3>1. fs[Up(p, k)] # "none"
      BY <1>3, <2>1, InitAbove
    <3>2. Up(p, k) \in Paths
      BY <2>1, PathFacts
    <3>3. QED
      BY <3>1, <3>2 DEF FindInit
  <2>3. QED
    BY <2>1, <2>2
<1>5. ASSUME NEW p \in steady PROVE p \in Paths /\ p # <<>> /\ p # NoDir
  <2>1. p \in Paths
    BY DEF FindInit
  <2>2. QED
    BY <1>1, <2>1, LastOfFront DEF Dirs
<1>6. OneWay
  BY <1>2, <1>5 DEF FindInit, OneWay, Reached
<1>7. Once
  BY <1>1, <1>2, <1>3, <1>5 DEF FindInit, Once, Unique, Dirs
<1>8. FoundOrAhead
  <2> SUFFICES ASSUME NEW p \in steady PROVE Ahead(p)
    BY DEF FoundOrAhead
  <2>1. 0 \in 0 .. Len(p) - 1 /\ Up(p, 0) = <<>>
    BY <1>5, PathFacts
  <2>2. QED
    BY <1>2, <2>1 DEF Ahead, Waits
<1>9. QED
  BY <1>3, <1>4, <1>6, <1>7, <1>8 DEF IInv

-----------------------------------------------------------------------------
(* What others do.                                                         *)

LEMMA CreateKeeps ==
  ASSUME IInv, NEW q \in Paths, Create(q)
  PROVE  IInv'
<1> USE DEF IInv
<1>1. /\ fs[q] = "none" /\ IsDir(fs, Front(q))
      /\ \E kind \in {"file", "dir"} : fs' = [fs EXCEPT ![q] = kind]
      /\ maybe' = IF InPlace(q) THEN maybe \union {Last(q)} ELSE maybe
      /\ UNCHANGED <<steady, findDirectory, includeSubDirectory, ps, reading, todo, out>>
  BY DEF Create
<1>2. /\ fs' \in [Paths -> {"none", "file", "dir"}]
      /\ fs'[q] # "none" /\ \A p \in Paths \ {q} : fs'[p] = fs[p]
  BY <1>1 DEF Typed
<1>3. Last(q) \in Names /\ q = Append(Front(q), Last(q)) /\ Front(q) # q /\ Front(q) \in Dirs
  BY LastOfFront
<1>4. Typed'
  BY <1>1, <1>2, <1>3 DEF Typed
<1>5. OpenOnly'
  BY <1>1, <1>3 DEF OpenOnly, InPlace
<1>6. Tree'
  <2> SUFFICES ASSUME NEW p \in Paths, fs'[p] # "none"
               PROVE  IsDir(fs', Front(p))
    BY DEF Tree
  <2>1. IsDir(fs, Front(p))
    BY <1>1, <1>2 DEF Tree
  <2>2. Front(p) \in Dirs /\ Front(p) # q
    BY <1>1, <1>3, <2>1, LastOfFront DEF IsDir
  <2>3. QED
    BY <1>2, <2>1, <2>2 DEF IsDir, Dirs
<1>7. \A p \in steady : p \in Paths /\ p # q /\ fs'[p] = fs[p]
  BY <1>1, <1>2 DEF SteadyTree, Typed
<1>8. SteadyTree'
  <2> SUFFICES ASSUME NEW p \in steady
               PROVE  /\ fs'[p] # "none"
                      /\ \A k \in 1 .. Len(p) : Up(p, k) \in steady
                      /\ reading = Front(p) => Last(p) \notin maybe'
    BY <1>1 DEF SteadyTree
  <2>1. p = Append(Front(p), Last(p))
    BY <1>7, LastOfFront
  <2>2. QED
    BY <1>1, <1>3, <1>7, <2>1 DEF SteadyTree, InPlace
<1>9. OneWay' /\ Once'
  BY <1>1 DEF OneWay, Once, Reached, Ahead, Waits, Unique
<1>10. FoundOrAhead'
  BY <1>1, <1>7 DEF FoundOrAhead, Sought, Wanted, Ahead, Waits
<1>11. QED
  BY <1>4, <1>5, <1>6, <1>8, <1>9, <1>10

LEMMA UnlinkKeeps ==
  ASSUME IInv, NEW q \in Paths, Unlink(q)
  PROVE  IInv'
<1> USE DEF IInv
<1>1. /\ fs[q] # "none"
      /\ \A n \in Names : Append(q, n) \in Paths => fs[Append(q, n)] = "none"
      /\ fs' = [fs EXCEPT ![q] = "none"]
      /\ IF InPlace(q) /\ Last(q) \in todo
         THEN todo' = todo \ {Last(q)} /\ maybe' = maybe \union {Last(q)}
         ELSE UNCHANGED <<todo, maybe>>
      /\ steady' = steady \ {q}
      /\ UNCHANGED <<findDirectory, includeSubDirectory, ps, reading, out>>
  BY DEF Unlink
<1>2. /\ fs' \in [Paths -> {"none", "file", "dir"}]
      /\ fs'[q] = "none" /\ \A p \in Paths \ {q} : fs'[p] = fs[p]
  BY <1>1 DEF Typed
<1>3. Last(q) \in Names /\ q = Append(Front(q), Last(q)) /\ Front(q) # q /\ Front(q) \in Dirs
  BY LastOfFront
<1>4. Typed'
  BY <1>1, <1>2, <1>3 DEF Typed
<1>5. OpenOnly'
  BY <1>1, <1>3 DEF OpenOnly, InPlace
<1>6. Tree'
  <2> SUFFICES ASSUME NEW p \in Paths, fs'[p] # "none"
               PROVE  IsDir(fs', Front(p))
    BY DEF Tree
  <2>1. p # q /\ fs[p] # "none" /\ IsDir(fs, Front(p))
    BY <1>2 DEF Tree
  <2>2. Front(p) \in Dirs /\ Last(p) \in Names /\ p = Append(Front(p), Last(p))
    BY LastOfFront
  <2>3. Front(p) # q
    BY <1>1, <2>1, <2>2
  <2>4. QED
    BY <1>2, <2>1, <2>2, <2>3 DEF IsDir, Dirs
<1>7. ASSUME NEW p \in steady' PROVE p \in steady /\ p \in Paths /\ p # q /\ fs'[p] = fs[p]
  BY <1>1, <1>2 DEF Typed
\* An entry that stays is not in the directory that goes.
<1>8. ASSUME NEW p \in steady', NEW k \in 1 .. Len(p) PROVE Up(p, k) # q
  <2>1. p \in steady /\ p \in Paths /\ p # q /\ Len(p) \in Nat /\ Up(p, Len(p)) = p
    BY <1>7, PathFacts
  <2>2. CASE k = Len(p)
    BY <2>1, <2>2
  <2>3. CASE k # Len(p)
    <3>1. k \in 0 .. Len(p) - 1
      BY <2>1, <2>3
    <3>2. /\ p[k + 1] \in Names /\ Up(p, k + 1) = Append(Up(p, k), p[k + 1])
          /\ Up(p, k + 1) \in steady
      BY <2>1, <3>1, Above
    <3>3. Up(p, k + 1) \in Paths /\ fs[Up(p, k + 1)] # "none"
      BY <3>2 DEF SteadyTree, Typed
    <3>4. QED
      BY <1>1, <3>2, <3>3
  <2>4. QED
    BY <2>2, <2>3
<1>9. SteadyTree'
  <2> SUFFICES ASSUME NEW p \in steady'
               PROVE  /\ fs'[p] # "none"
                      /\ \A k \in 1 .. Len(p) : Up(p, k) \in steady'
                      /\ reading = Front(p) => Last(p) \notin maybe'
    BY <1>1 DEF SteadyTree
  <2>1. p = Append(Front(p), Last(p))
    BY <1>7, LastOfFront
  <2>2. fs'[p] # "none"
    BY <1>7 DEF SteadyTree
  <2>3. \A k \in 1 .. Len(p) : Up(p, k) \in steady'
    BY <1>1, <1>7, <1>8 DEF SteadyTree
  <2>4. reading = Front(p) => Last(p) \notin maybe'
    BY <1>1, <1>3, <1>7, <2>1 DEF SteadyTree, InPlace
  <2>5. QED
    BY <2>2, <2>3, <2>4
<1>10. todo' \subseteq todo
  BY <1>1
<1>11. ASSUME NEW p \in steady', NEW k \in 0 .. Len(p) - 1
       PROVE  Waits(p, k)' <=> Waits(p, k)
  <2>1. p \in steady /\ k + 1 \in 1 .. Len(p)
    BY <1>7, PathFacts
  <2>2. Up(p, k + 1) = Append(Up(p, k), p[k + 1]) /\ Up(p, k + 1) # q
    BY <1>8, <2>1, Above
  <2>3. reading = Up(p, k) /\ p[k + 1] \in todo => p[k + 1] \in todo'
    BY <1>1, <1>3, <2>2 DEF InPlace
  <2>4. QED
    BY <1>1, <1>10, <2>3 DEF Waits
<1>12. \A p \in steady' : Ahead(p)' <=> Ahead(p)
  BY <1>11 DEF Ahead
<1>13. OneWay'
  <2>1. \A p \in steady' : Reached(p)' <=> Reached(p)
    BY <1>1 DEF Reached
  <2>2. QED
    BY <1>7, <1>12, <2>1 DEF OneWay
<1>14. Once'
  BY <1>1 DEF Once, Unique
<1>15. FoundOrAhead'
  <2>1. \A p \in steady' : Sought(p)' <=> Sought(p)
    BY <1>1, <1>7 DEF Sought, Wanted
  <2>2. QED
    BY <1>1, <1>7, <1>12, <2>1 DEF FoundOrAhead
<1>16. QED
  BY <1>4, <1>5, <1>6, <1>9, <1>13, <1>14, <1>15

-----------------------------------------------------------------------------
(* What the walk does.                                                     *)

LEMMA OpenKeeps ==
  ASSUME IInv, Open
  PROVE  IInv'
<1> USE DEF IInv
<1> DEFINE d == Last(ps)
<1>1. /\ reading = NoDir /\ ps # <<>> /\ ps' = Front(ps) /\ todo = {} /\ maybe = {}
      /\ UNCHANGED <<fs, steady, findDirectory, includeSubDirectory, maybe, out>>
  BY DEF Open, osVars, OpenOnly
<1>2. /\ ps' \in Seq(Dirs) /\ d \in Dirs
      /\ ToSet(ps) = ToSet(ps') \union {d}
      /\ \A x : Unique(ps, x) => Unique(ps', x)
      /\ Unique(ps, d) => d \notin ToSet(ps')
  BY <1>1, Popping DEF Typed
<1>3. NoDir \notin Dirs
  BY FindFilesAssumption DEF FindFilesAssumption, Dirs
<1>4. \A p \in steady : p \in Paths
  BY DEF Typed
<1>5. Tree'
  BY <1>1 DEF Tree
<1>6. \A p \in steady : Sought(p)' <=> Sought(p)
  BY <1>1 DEF Sought, Wanted
<1>7. SteadyTree'
  BY <1>1 DEF SteadyTree
<1>8. CASE IsDir(fs, d) /\ d \notin Unreadable
  <2>1. reading' = d /\ todo' = {n \in Entries(d) : ~Skipped(n)}
    BY <1>8 DEF Open
  <2>2. todo' = {n \in Names : Append(d, n) \in Paths /\ fs[Append(d, n)] # "none"}
    BY <2>1, FindFilesAssumption DEF Entries, Skipped, FindFilesAssumption
  <2> HIDE DEF d
  <2>3. Typed'
    BY <1>1, <1>2, <2>1, <2>2 DEF Typed
  <2>4. OpenOnly'
    BY <1>1, <1>2, <1>3, <2>1, <2>2 DEF OpenOnly
  <2>5. \A p \in steady : Reached(p)' => Reached(p)
    BY <1>1, <1>2, <2>1 DEF Reached
  <2>6. \A p \in steady : Ahead(p)' => Ahead(p)
    BY <1>1, <1>2, <2>1 DEF Ahead, Waits
  <2>7. OneWay'
    BY <1>1, <2>5, <2>6 DEF OneWay
  <2>8. Once'
    BY <1>1, <1>2, <2>1 DEF Once, Unique
  <2>9. ASSUME NEW p \in steady, Ahead(p) PROVE Ahead(p)'
    <3>1. PICK k \in 0 .. Len(p) - 1 : Up(p, k) \in ToSet(ps)
      BY <1>1, <2>9 DEF Ahead, Waits
    <3>2. /\ p[k + 1] \in Names /\ Up(p, k + 1) = Append(Up(p, k), p[k + 1])
          /\ Up(p, k + 1) \in Paths /\ fs[Up(p, k + 1)] # "none"
      BY <1>4, Above DEF SteadyTree
    <3>3. Waits(p, k)'
      BY <1>2, <2>1, <2>2, <3>1, <3>2 DEF Waits
    <3>4. QED
      BY <3>3 DEF Ahead
  <2>10. FoundOrAhead'
    BY <1>1, <1>6, <2>9 DEF FoundOrAhead
  <2>11. QED
    BY <1>5, <1>7, <2>3, <2>4, <2>7, <2>8, <2>10
<1>9. CASE ~(IsDir(fs, d) /\ d \notin Unreadable)
  <2>1. reading' = NoDir /\ todo' = {}
    BY <1>1, <1>9 DEF Open
  <2> HIDE DEF d
  <2>2. Typed' /\ OpenOnly'
    BY <1>1, <1>2, <2>1 DEF Typed, OpenOnly
  <2>3. OneWay'
    BY <1>1, <1>2, <2>1 DEF OneWay, Reached, Ahead, Waits
  <2>4. Once'
    BY <1>1, <1>2, <1>3, <1>4, <2>1 DEF Once, Unique, Dirs
  <2>5. ASSUME NEW p \in steady, Sought(p), Ahead(p) PROVE Ahead(p)'
    <3>1. PICK k \in 0 .. Len(p) - 1 : Up(p, k) \in ToSet(ps)
      BY <1>1, <2>5 DEF Ahead, Waits
    <3>2. IsDir(fs, Up(p, k)) /\ Up(p, k) \notin Unreadable
      BY <2>5, Above DEF Sought
    <3>3. Up(p, k) \in ToSet(ps')
      BY <1>2, <1>9, <3>1, <3>2
    <3>4. QED
      BY <3>3 DEF Ahead, Waits
  <2>6. FoundOrAhead'
    BY <1>1, <1>6, <2>5 DEF FoundOrAhead
  <2>7. QED
    BY <1>5, <1>7, <2>2, <2>3, <2>4, <2>6
<1>10. QED
  BY <1>8, <1>9

LEMMA CloseKeeps ==
  ASSUME IInv, Close
  PROVE  IInv'
<1> USE DEF IInv
<1>1. /\ reading # NoDir /\ todo = {} /\ reading' = NoDir /\ maybe' = {}
      /\ UNCHANGED <<fs, steady, findDirectory, includeSubDirectory, ps, todo, out>>
  BY DEF Close, osVars
<1>2. NoDir \notin Dirs /\ \A p \in steady : p \in Dirs
  BY FindFilesAssumption DEF FindFilesAssumption, Dirs, Typed
<1>3. Typed' /\ OpenOnly' /\ Tree'
  BY <1>1 DEF Typed, OpenOnly, Tree
<1>4. SteadyTree'
  BY <1>1 DEF SteadyTree
<1>5. \A p \in steady : /\ Ahead(p)' <=> Ahead(p)
                        /\ Reached(p)' => Reached(p)
                        /\ Sought(p)' <=> Sought(p)
  BY <1>1, <1>2 DEF Ahead, Waits, Reached, Sought, Wanted
<1>6. OneWay'
  BY <1>1, <1>5 DEF OneWay
<1>7. Once'
  BY <1>1, <1>2 DEF Once, Unique, Dirs
<1>8. FoundOrAhead'
  BY <1>1, <1>5 DEF FoundOrAhead
<1>9. QED
  BY <1>3, <1>4, <1>6, <1>7, <1>8

LEMMA ReadEntryKeeps ==
  ASSUME IInv, NEW n \in Names, ReadEntry(n)
  PROVE  IInv'
<1> USE DEF IInv
<1>0. PICK q, m : q = Append(reading, n) /\ m = Len(reading)
  OBVIOUS
<1> DEFINE reported == fs[q] # "none" /\ Wanted(q) /\ n \in Matching
<1>1. /\ reading # NoDir /\ n \in todo \union maybe
      /\ todo' = todo \ {n} /\ maybe' = maybe \ {n}
      /\ out' = IF reported THEN Append(out, q) ELSE out
      /\ ps' = IF Descend(q) THEN Append(ps, q) ELSE ps
      /\ UNCHANGED <<fs, steady, findDirectory, includeSubDirectory, reading>>
  BY <1>0 DEF ReadEntry, osVars
<1>2. reading \in Dirs /\ q \in Paths /\ q \in Dirs
  BY <1>0, <1>1 DEF Typed, OpenOnly, Dirs
<1>3. /\ Front(q) = reading /\ Last(q) = n /\ m \in Nat /\ Len(q) = m + 1
      /\ Up(q, m) = reading /\ q # <<>> /\ q # reading
  BY <1>0, <1>2, EntryFacts, LastOfFront
<1>4. ToSet(ps) \subseteq ToSet(ps') /\ ToSet(ps') \subseteq ToSet(ps) \union {q}
      /\ (Descend(q) => q \in ToSet(ps'))
  <2>1. ToSet(Append(ps, q)) = ToSet(ps) \union {q}
    BY <1>2, Pushing DEF Typed
  <2>2. QED
    BY <1>1, <2>1
<1>5. ToSet(out) \subseteq ToSet(out') /\ ToSet(out') \subseteq ToSet(out) \union {q}
      /\ (reported => q \in ToSet(out'))
  <2>1. ToSet(Append(out, q)) = ToSet(out) \union {q}
    BY <1>2, Pushing DEF Typed
  <2>2. QED
    BY <1>1, <2>1
<1>6. Typed' /\ OpenOnly' /\ Tree'
  <2>1. ps' \in Seq(Dirs) /\ out' \in Seq(Paths)
    BY <1>1, <1>2, AppendProperties DEF Typed
  <2>2. QED
    BY <1>1, <2>1 DEF Typed, OpenOnly, Tree
<1>7. SteadyTree'
  BY <1>1 DEF SteadyTree
<1>8. q[m + 1] = n
  BY <1>3 DEF Last
<1> HIDE DEF reported
\* An entry that has been there from the start is in the list and is met here
\* for the first time.
<1>9. ASSUME q \in steady
      PROVE  n \in todo /\ ~Reached(q) /\ reading \in steady \union {<<>>}
  <2>1. n \in todo
    BY <1>1, <1>3, <1>9 DEF SteadyTree
  <2>2. Waits(q, m) /\ m \in 0 .. Len(q) - 1
    BY <1>3, <1>8, <2>1 DEF Waits
  <2>3. Ahead(q)
    BY <2>2 DEF Ahead
  <2>4. QED
    BY <1>3, <1>9, <2>1, <2>2, <2>3, Above DEF OneWay
\* What lies in q, q has been waiting for.
<1>10. ASSUME NEW p \in steady, NEW k \in 0 .. Len(p) - 1, Up(p, k) = q
       PROVE  Ahead(p)
  <2>1. /\ p \in Paths /\ Len(p) \in Nat /\ k \in 0 .. Len(p) /\ Len(q) = k
        /\ \A i \in 1 .. k : q[i] = p[i]
    BY <1>10, PathFacts DEF Typed
  <2>2. m \in 0 .. k /\ k = m + 1 /\ m \in 0 .. Len(p) - 1
    BY <1>3, <2>1
  <2>3. Up(p, m) = reading /\ p[m + 1] = n
    BY <1>3, <1>8, <1>10, <2>1, <2>2, PrefixFacts
  <2>4. q \in steady
    BY <1>3, <1>10, Above
  <2>5. Waits(p, m)
    BY <1>9, <2>3, <2>4 DEF Waits
  <2>6. QED
    BY <2>2, <2>5 DEF Ahead
<1>11. ASSUME NEW p \in steady, Ahead(p)' PROVE Ahead(p)
  <2>1. PICK k \in 0 .. Len(p) - 1 : Waits(p, k)'
    BY <1>11 DEF Ahead
  <2>2. CASE Up(p, k) = q
    BY <1>10, <2>2
  <2>3. CASE Up(p, k) # q
    <3>1. Waits(p, k)
      BY <1>1, <1>4, <2>1, <2>3 DEF Waits
    <3>2. QED
      BY <3>1 DEF Ahead
  <2>4. QED
    BY <2>2, <2>3
<1>12. ASSUME q \in steady PROVE ~Ahead(q)'
  <2> SUFFICES ASSUME NEW k \in 0 .. Len(q) - 1 PROVE ~Waits(q, k)'
    BY DEF Ahead
  <2>1. k \in 0 .. m /\ m \in 0 .. Len(q) /\ k \in 0 .. Len(q)
    BY <1>3
  <2>2. Len(Up(q, k)) = k /\ Up(q, k) # q
    BY <1>2, <1>3, <2>1, PathFacts
  <2>3. CASE k = m
    <3>1. Up(q, k) = reading /\ q[k + 1] = n
      BY <1>3, <1>8, <2>3
    <3>2. reading \notin ToSet(ps)
      BY <1>9, <1>12 DEF Once
    <3>3. QED
      BY <1>1, <1>3, <1>4, <3>1, <3>2 DEF Waits
  <2>4. CASE k # m
    <3>1. Up(q, k) # reading
      BY <1>0, <2>2, <2>4
    <3>2. reading \in steady /\ k \in 0 .. Len(reading) - 1
      <4>1. Len(reading) = m /\ m # 0
        BY <1>0, <2>1, <2>4
      <4>2. reading # <<>>
        BY <4>1
      <4>3. QED
        BY <1>9, <1>12, <2>1, <2>4, <4>1, <4>2
    <3>3. Up(reading, k) = Up(q, k)
      BY <1>2, <1>3, <2>1, PrefixFacts
    <3>4. ~Ahead(reading)
      BY <3>2 DEF OneWay, Reached
    <3>5. Up(q, k) \notin ToSet(ps)
      BY <3>2, <3>3, <3>4 DEF Ahead, Waits
    <3>6. QED
      BY <1>1, <1>4, <2>2, <3>1, <3>5 DEF Waits
  <2>5. QED
    BY <2>3, <2>4
<1>13. OneWay'
  <2> SUFFICES ASSUME NEW p \in steady, Reached(p)' PROVE ~Ahead(p)'
    BY <1>1 DEF OneWay
  <2>1. CASE p = q
    BY <1>12, <2>1
  <2>2. CASE p # q
    <3>1. Reached(p)
      BY <1>1, <1>4, <1>5, <2>2 DEF Reached
    <3>2. QED
      BY <1>11, <3>1 DEF OneWay
  <2>3. QED
    BY <2>1, <2>2
<1>14. Once'
  <2>1. ASSUME NEW d \in steady \union {<<>>}
        PROVE  Unique(ps', d) /\ (reading' = d => d \notin ToSet(ps'))
    <3>1. d = q => q \notin ToSet(ps)
      BY <1>3, <1>9, <2>1 DEF Reached
    <3>2. Unique(ps, d) /\ (reading = d => d \notin ToSet(ps))
      BY DEF Once
    <3>3. Unique(ps', d)
      BY <1>1, <1>2, <3>1, <3>2, Pushing DEF Typed
    <3>4. QED
      BY <1>1, <1>3, <1>4, <3>2, <3>3
  <2>2. ASSUME NEW p \in steady PROVE Unique(out', p)
    <3>1. p = q => q \notin ToSet(out)
      BY <1>9 DEF Reached
    <3>2. Unique(out, p)
      BY DEF Once
    <3>3. QED
      BY <1>1, <1>2, <3>1, <3>2, Pushing DEF Typed
  <2>3. \A p \in steady : Unique(out, p)' <=> Unique(out', p)
    BY DEF Unique
  <2>4. \A d : Unique(ps, d)' <=> Unique(ps', d)
    BY DEF Unique
  <2>5. QED
    BY <1>1, <2>1, <2>2, <2>3, <2>4 DEF Once
<1>15. FoundOrAhead'
  <2> SUFFICES ASSUME NEW p \in steady, Sought(p)
               PROVE  p \in ToSet(out') \/ Ahead(p)'
    <3>1. \A p \in steady : Sought(p)' <=> Sought(p)
      BY <1>1 DEF Sought, Wanted
    <3>2. QED
      BY <1>1, <3>1 DEF FoundOrAhead
  <2>1. CASE p \in ToSet(out)
    BY <1>5, <2>1
  <2>2. ASSUME NEW k \in 0 .. Len(p) - 1, Waits(p, k), reading # Up(p, k) \/ p[k + 1] # n
        PROVE  Ahead(p)'
    <3>1. Waits(p, k)'
      BY <1>1, <1>4, <2>2 DEF Waits
    <3>2. QED
      BY <3>1 DEF Ahead
  <2>3. ASSUME NEW k \in 0 .. Len(p) - 1, reading = Up(p, k), p[k + 1] = n
        PROVE  p \in ToSet(out') \/ Ahead(p)'
    <3>1. Up(p, k + 1) = q
      BY <1>0, <2>3, Above
    <3>2. /\ p \in Paths /\ fs[p] # "none"
          /\ Up(p, Len(p)) = p /\ Len(p) \in Nat
      BY PathFacts DEF SteadyTree, Typed
    <3>3. CASE k + 1 = Len(p)
      <4>1. p = q
        BY <3>1, <3>2, <3>3
      <4>2. reported
        BY <1>3, <3>2, <4>1 DEF reported, Sought
      <4>3. QED
        BY <1>5, <4>1, <4>2
    <3>4. CASE k + 1 # Len(p)
      <4>1. k + 1 \in 0 .. Len(p) - 1 /\ Len(p) # 1
        <5>1. Len(p) \in Nat
          BY <3>2
        <5>2. k \in Int /\ 0 <= k /\ k <= Len(p) - 1 /\ k + 1 # Len(p)
          BY <3>4, <5>1
        <5>3. QED
          BY <5>1, <5>2
      <4>2. IsDir(fs, q)
        BY <3>1, <4>1, Above
      <4>3. Descend(q)
        BY <1>3, <4>1, <4>2 DEF Descend, IsDir, Sought
      <4>4. Waits(p, k + 1)'
        BY <1>4, <3>1, <4>3 DEF Waits
      <4>5. QED
        BY <4>1, <4>4 DEF Ahead
    <3>5. QED
      BY <3>3, <3>4
  <2>4. CASE Ahead(p)
    <3>1. PICK k \in 0 .. Len(p) - 1 : Waits(p, k)
      BY <2>4 DEF Ahead
    <3>2. QED
      BY <2>2, <2>3, <3>1
  <2>5. QED
    BY <2>1, <2>4 DEF FoundOrAhead
<1>16. QED
  BY <1>6, <1>7, <1>13, <1>14, <1>15

-----------------------------------------------------------------------------
(* The theorems.                                                           *)

\* Every state of find_files and of those that change the directories beside
\* it satisfies the inductive invariant.
THEOREM Invariance == FindSpec => []IInv
<1>1. IInv /\ [FindNext]_findVars => IInv'
  <2> SUFFICES ASSUME IInv, [FindNext]_findVars PROVE IInv'
    OBVIOUS
  <2>1. CASE Open
    BY <2>1, OpenKeeps
  <2>2. CASE Close
    BY <2>2, CloseKeeps
  <2>3. ASSUME NEW n \in Names, ReadEntry(n) PROVE IInv'
    BY <2>3, ReadEntryKeeps
  <2>4. ASSUME NEW p \in Paths, Create(p) PROVE IInv'
    BY <2>4, CreateKeeps
  <2>5. ASSUME NEW p \in Paths, Unlink(p) PROVE IInv'
    BY <2>5, UnlinkKeeps
  <2>6. CASE UNCHANGED findVars
    BY <2>6 DEF findVars, IInv, Typed, OpenOnly, Tree, SteadyTree, OneWay, Once,
                FoundOrAhead, Reached, Ahead, Waits, Unique, Sought, Wanted
  <2>7. QED
    BY <2>1, <2>2, <2>3, <2>4, <2>5, <2>6 DEF FindNext
<1>2. QED
  BY InitIInv, <1>1, PTL DEF FindSpec

\* An entry that was there from the beginning is never reported twice, and
\* when find_files returns it has been reported, if it was there to the end
\* and the search was for it.
THEOREM StayingIsFound == FindSpec => []SteadyFound
<1>1. IInv => SteadyFound
  <2> SUFFICES ASSUME IInv, NEW p \in steady
               PROVE  /\ Cardinality({i \in DOMAIN out : out[i] = p}) <= 1
                      /\ (/\ ps = <<>> /\ reading = NoDir
                          /\ Wanted(p)
                          /\ Last(p) \in Matching
                          /\ Len(p) = 1 \/ includeSubDirectory
                          /\ \A d \in 0 .. Len(p) - 1 : SubSeq(p, 1, d) \notin Unreadable)
                         => {i \in DOMAIN out : out[i] = p} # {}
    BY DEF SteadyFound
  <2> DEFINE places == {i \in DOMAIN out : out[i] = p}
  <2>1. Unique(out, p) /\ DOMAIN out = 1 .. Len(out)
    BY DEF IInv, Once, Typed
  <2>2. Cardinality(places) <= 1
    <3>1. CASE places = {}
      BY <3>1, FS_EmptySet
    <3>2. CASE places # {}
      <4>1. PICK i \in places : TRUE
        BY <3>2
      <4>2. places = {i}
        BY <2>1, <4>1 DEF Unique
      <4>3. Cardinality({i}) = 1
        BY FS_Singleton
      <4>4. QED
        BY <4>2, <4>3
    <3>3. QED
      BY <3>1, <3>2
  <2>3. ASSUME ps = <<>>, reading = NoDir, Sought(p)
        PROVE  places # {}
    <3>1. ToSet(ps) = {} /\ todo = {}
      BY <2>3 DEF IInv, OpenOnly, ToSet
    <3>2. ~Ahead(p)
      BY <3>1 DEF Ahead, Waits
    <3>3. p \in ToSet(out)
      BY <2>3, <3>2 DEF IInv, FoundOrAhead
    <3>4. QED
      BY <3>3 DEF ToSet
  <2>4. QED
    BY <2>2, <2>3 DEF Sought, Up
<1>2. QED
  BY Invariance, <1>1, PTL
=============================================================================
