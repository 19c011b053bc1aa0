---------------------------- MODULE FunctionProofs ----------------------------
(***************************************************************************)
(* The recursive functions agree with their references: the text helpers   *)
(* of LogText on texts of every length, over every alphabet, and           *)
(* TraversalNode and the conversions on every document, for every type.    *)
(***************************************************************************)
EXTENDS LogText, LexicalCast, SequenceTheorems, FiniteSetTheorems, WellFoundedInduction, TLAPS

-----------------------------------------------------------------------------
(* Recursion: a definition of f[x] from the values of f at smaller places  *)
(* has a solution.                                                         *)

LEMMA LeastExists ==
  ASSUME NEW S \in SUBSET Nat, S # {}
  PROVE  \E m \in S : \A n \in S : m <= n
<1>1. PICK m \in S : \A n \in S : ~(<<n, m>> \in OpToRel(<, Nat))
  BY NatLessThanWellFounded, WFMin, Zenon
<1>2. \A n \in S : ~(n < m)
  BY <1>1, Zenon DEF OpToRel
<1>3. QED
  BY <1>2

\* Of the places with a property, one is smallest.
LEMMA SmallestPlace ==
  ASSUME NEW D, NEW size \in [D -> Nat], NEW S \in SUBSET D, S # {}
  PROVE  \E x \in S : \A y \in D : size[y] < size[x] => y \notin S
<1>1. {size[x] : x \in S} \in SUBSET Nat /\ {size[x] : x \in S} # {}
  OBVIOUS
<1>2. PICK m \in {size[x] : x \in S} : \A n \in {size[x] : x \in S} : m <= n
  BY <1>1, LeastExists
<1>3. PICK x \in S : m = size[x]
  BY <1>2
<1>4. ASSUME NEW y \in D, size[y] < size[x], y \in S
      PROVE  FALSE
  BY <1>2, <1>3, <1>4
<1>5. QED
  BY <1>3, <1>4

Solved(D, size, G, f, n) ==
  \A x \in D : size[x] < n => f[x] = G[<<x, f>>]

\* Step[<<x, f>>] is what f[x] is to be; it reads f at smaller places only.
Contracts(D, S, size, Step) ==
  /\ size \in [D -> Nat]
  /\ Step \in [D \X [D -> S] -> S]
  /\ \A x \in D : \A f, g \in [D -> S] :
       (\A y \in D : size[y] < size[x] => f[y] = g[y])
         => Step[<<x, f>>] = Step[<<x, g>>]

LEMMA SolvedAgree ==
  ASSUME NEW D, NEW S, NEW size, NEW Step, Contracts(D, S, size, Step)
  PROVE  \A m, n \in Nat : \A f, g \in [D -> S] :
           /\ m <= n
           /\ Solved(D, size, Step, f, m)
           /\ Solved(D, size, Step, g, n)
           => \A x \in D : size[x] < m => f[x] = g[x]
<1> SUFFICES ASSUME NEW m \in Nat, NEW n \in Nat, m <= n,
                    NEW f \in [D -> S], Solved(D, size, Step, f, m),
                    NEW g \in [D -> S], Solved(D, size, Step, g, n)
             PROVE  \A x \in D : size[x] < m => f[x] = g[x]
  OBVIOUS
<1> size \in [D -> Nat] /\ Step \in [D \X [D -> S] -> S]
  BY DEF Contracts
<1> DEFINE Bad == {x \in D : size[x] < m /\ f[x] # g[x]}
<1>1. SUFFICES ASSUME Bad # {} PROVE FALSE
  OBVIOUS
<1>2. PICK x \in Bad : \A y \in D : size[y] < size[x] => y \notin Bad
  <2>1. Bad \in SUBSET D
    OBVIOUS
  <2> HIDE DEF Bad
  <2>2. QED
    BY <1>1, <2>1, SmallestPlace
<1>3. \A y \in D : size[y] < size[x] => f[y] = g[y]
  BY <1>2
<1>4. Step[<<x, f>>] = Step[<<x, g>>]
  BY <1>2, <1>3 DEF Contracts
<1>5. f[x] = Step[<<x, f>>] /\ g[x] = Step[<<x, g>>]
  BY <1>2 DEF Solved
<1>6. QED
  BY <1>2, <1>4, <1>5

LEMMA SolvedUpTo ==
  ASSUME NEW D, NEW S, S # {}, NEW size, NEW Step, Contracts(D, S, size, Step),
         NEW n \in Nat
  PROVE  \E f \in [D -> S] : Solved(D, size, Step, f, n)
<1> size \in [D -> Nat] /\ Step \in [D \X [D -> S] -> S]
  BY DEF Contracts
<1> DEFINE Bad == {k \in Nat : ~\E f \in [D -> S] : Solved(D, size, Step, f, k)}
<1>1. SUFFICES ASSUME Bad # {} PROVE FALSE
  OBVIOUS
<1>2. PICK k \in Bad : \A j \in Bad : k <= j
  BY <1>1, LeastExists
<1>3. k # 0
  <2>1. PICK e \in S : TRUE
    OBVIOUS
  <2>2. [x \in D |-> e] \in [D -> S] /\ Solved(D, size, Step, [x \in D |-> e], 0)
    BY DEF Solved
  <2>3. QED
    BY <1>2, <2>2
<1>4. k - 1 \in Nat /\ k - 1 \notin Bad
  BY <1>2, <1>3
<1>5. PICK f \in [D -> S] : Solved(D, size, Step, f, k - 1)
  BY <1>4
<1> DEFINE g == [x \in D |-> Step[<<x, f>>]]
<1>6. g \in [D -> S]
  OBVIOUS
<1>7. \A y \in D : size[y] < k - 1 => f[y] = g[y]
  BY <1>5 DEF Solved
<1>8. ASSUME NEW x \in D, size[x] < k
      PROVE  g[x] = Step[<<x, g>>]
  <2>1. \A y \in D : size[y] < size[x] => f[y] = g[y]
    BY <1>2, <1>7, <1>8
  <2>2. Step[<<x, f>>] = Step[<<x, g>>]
    BY <1>6, <2>1 DEF Contracts
  <2>3. QED
    BY <2>2
<1>9. Solved(D, size, Step, g, k)
  BY <1>8 DEF Solved
<1>10. QED
  BY <1>2, <1>6, <1>9

Solution(D, S, Step, f) == f \in [D -> S] /\ \A x \in D : f[x] = Step[<<x, f>>]

\* A definition that reads f at smaller places only has a solution.
LEMMA Recursion ==
  ASSUME NEW D, NEW S, S # {}, NEW size, NEW Step, Contracts(D, S, size, Step)
  PROVE  \E f : Solution(D, S, Step, f)
<1> size \in [D -> Nat] /\ Step \in [D \X [D -> S] -> S]
  BY DEF Contracts
<1>0. \A m, n \in Nat : \A f, g \in [D -> S] :
        /\ m <= n
        /\ Solved(D, size, Step, f, m)
        /\ Solved(D, size, Step, g, n)
        => \A x \in D : size[x] < m => f[x] = g[x]
  BY SolvedAgree
<1> DEFINE upTo(n) == CHOOSE f \in [D -> S] : Solved(D, size, Step, f, n)
           f == [x \in D |-> upTo(size[x] + 1)[x]]
<1>1. ASSUME NEW n \in Nat
      PROVE  upTo(n) \in [D -> S] /\ Solved(D, size, Step, upTo(n), n)
  <2>1. \E h \in [D -> S] : Solved(D, size, Step, h, n)
    BY SolvedUpTo
  <2>2. QED
    BY <2>1
<1>2. f \in [D -> S]
  BY <1>1
<1>3. ASSUME NEW x \in D
      PROVE  f[x] = Step[<<x, f>>]
  <2> DEFINE h == upTo(size[x] + 1)
  <2>1. h \in [D -> S] /\ Solved(D, size, Step, h, size[x] + 1)
    BY <1>1
  <2>2. ASSUME NEW y \in D, size[y] < size[x]
        PROVE  f[y] = h[y]
    <3> DEFINE hy == upTo(size[y] + 1)
    <3>1. hy \in [D -> S] /\ Solved(D, size, Step, hy, size[y] + 1)
      BY <1>1
    <3>2. size[y] + 1 \in Nat /\ size[x] + 1 \in Nat /\ size[y] + 1 <= size[x] + 1
      BY <2>2
    <3> HIDE DEF hy, h
    <3>3. \A z \in D : size[z] < size[y] + 1 => hy[z] = h[z]
      BY <1>0, <2>1, <3>1, <3>2
    <3>4. f[y] = hy[y]
      BY DEF hy
    <3>5. QED
      BY <3>3, <3>4
  <2>3. f[x] = h[x]
    OBVIOUS
  <2> HIDE DEF h
  <2>4. h[x] = Step[<<x, h>>]
    BY <2>1 DEF Solved
  <2> HIDE DEF f
  <2>5. Step[<<x, f>>] = Step[<<x, h>>]
    BY <1>2, <2>1, <2>2 DEF Contracts
  <2>6. QED
    BY <2>3, <2>4, <2>5
<1>4. QED
  BY <1>2, <1>3 DEF Solution

-----------------------------------------------------------------------------
(* The characters of the texts are raised as the reference compares them.  *)

LEMMA SameRaised ==
  ASSUME NEW x, NEW y, x \notin {"a", "z"}, y \notin {"a", "z"}
  PROVE  AlphabetEqual(x, y, TRUE) <=> SameLetter(x, y, TRUE)
BY LogTextAssumption DEF LogTextAssumption, AlphabetEqual, SameLetter, Raised

LEMMA AlphabetEqualIsSame ==
  ASSUME NEW x, NEW y, NEW ic \in BOOLEAN,
         ic => x \notin {"a", "z"} /\ y \notin {"a", "z"}
  PROVE  AlphabetEqual(x, y, ic) <=> SameLetter(x, y, ic)
<1>1. CASE ic
  BY <1>1, SameRaised
<1>2. CASE ~ic
  BY <1>2 DEF AlphabetEqual, SameLetter
<1>3. QED
  BY <1>1, <1>2

-----------------------------------------------------------------------------
(* What the loop of pattern_match_body returns, wherever it stands.        *)

Places(s, m) == (0 .. Len(s)) \X (0 .. Len(m))

Matching(f, s, m, ic) ==
  /\ f \in [Places(s, m) -> BOOLEAN]
  /\ \A at \in Places(s, m) : f[at] = MatchFrom(f, s, m, ic, at[1], at[2])

\* The loop reads on: what it needs is nearer to the ends of the two texts.
LEMMA MatchContracts ==
  ASSUME NEW C, NEW s \in Seq(C), NEW m \in Seq(C), NEW ic \in BOOLEAN
  PROVE  Contracts(Places(s, m), BOOLEAN,
           [at \in Places(s, m) |-> (Len(s) - at[1]) + (Len(m) - at[2])],
           [af \in Places(s, m) \X [Places(s, m) -> BOOLEAN] |->
              MatchFrom(af[2], s, m, ic, af[1][1], af[1][2])])
<1> DEFINE D == Places(s, m)
           size == [at \in D |-> (Len(s) - at[1]) + (Len(m) - at[2])]
           Step == [af \in D \X [D -> BOOLEAN] |->
                      MatchFrom(af[2], s, m, ic, af[1][1], af[1][2])]
<1>0. Len(s) \in Nat /\ Len(m) \in Nat
  OBVIOUS
<1>1. size \in [D -> Nat]
  BY <1>0 DEF Places
<1>2. Step \in [D \X [D -> BOOLEAN] -> BOOLEAN]
  <2>1. \A f, i, j : MatchFrom(f, s, m, ic, i, j) \in BOOLEAN
    BY DEF MatchFrom, OnlyStars
  <2>2. QED
    BY <2>1
<1>3. ASSUME NEW x \in D, NEW f \in [D -> BOOLEAN], NEW g \in [D -> BOOLEAN],
             \A y \in D : size[y] < size[x] => f[y] = g[y]
      PROVE  MatchFrom(f, s, m, ic, x[1], x[2]) = MatchFrom(g, s, m, ic, x[1], x[2])
  <2>1. PICK i \in 0 .. Len(s), j \in 0 .. Len(m) : x = <<i, j>>
    BY DEF Places
  <2>2. ASSUME i < Len(s), j < Len(m)
        PROVE  /\ f[<<i + 1, j + 1>>] = g[<<i + 1, j + 1>>]
               /\ f[<<i, j + 1>>] = g[<<i, j + 1>>]
               /\ f[<<i + 1, j>>] = g[<<i + 1, j>>]
    <3>1. /\ <<i + 1, j + 1>> \in D /\ <<i, j + 1>> \in D /\ <<i + 1, j>> \in D
          /\ size[<<i + 1, j + 1>>] < size[x] /\ size[<<i, j + 1>>] < size[x]
          /\ size[<<i + 1, j>>] < size[x]
      BY <1>0, <2>1, <2>2 DEF Places
    <3>2. QED
      BY <1>3, <3>1
  <2>3. CASE i = Len(s)
    BY <2>1, <2>3 DEF MatchFrom
  <2>4. CASE i # Len(s) /\ j < Len(m)
    <3>1. i < Len(s)
      BY <1>0, <2>4
    <3>2. QED
      BY <2>1, <2>2, <2>4, <3>1 DEF MatchFrom
  <2>5. CASE i # Len(s) /\ ~(j < Len(m))
    BY <2>1, <2>5 DEF MatchFrom
  <2>6. QED
    BY <2>3, <2>4, <2>5
<1>4. \A x \in D : \A f, g \in [D -> BOOLEAN] :
        (\A y \in D : size[y] < size[x] => f[y] = g[y])
          => Step[<<x, f>>] = Step[<<x, g>>]
  BY <1>3
<1> HIDE DEF D, size, Step
<1>5. Contracts(D, BOOLEAN, size, Step)
  BY <1>1, <1>2, <1>4 DEF Contracts
<1>6. QED
  BY <1>5 DEF D, size, Step

\* The loop has one meaning at each place, and the function is its start.
LEMMA MatchFunction ==
  ASSUME NEW C, NEW s \in Seq(C), NEW m \in Seq(C), NEW ic \in BOOLEAN
  PROVE  \E f : /\ Matching(f, s, m, ic)
                /\ PatternMatchBody(s, m, ic) <=> s # <<>> /\ m # <<>> /\ f[<<0, 0>>]
<1> DEFINE D == Places(s, m)
           size == [at \in D |-> (Len(s) - at[1]) + (Len(m) - at[2])]
           Step == [af \in D \X [D -> BOOLEAN] |->
                      MatchFrom(af[2], s, m, ic, af[1][1], af[1][2])]
           solves(f) == f = [at \in D |-> MatchFrom(f, s, m, ic, at[1], at[2])]
           match == CHOOSE f : solves(f)
<1>1. Contracts(D, BOOLEAN, size, Step)
  BY MatchContracts
<1>2. \E f : Solution(D, BOOLEAN, Step, f)
  <2> HIDE DEF D, size, Step
  <2>1. BOOLEAN # {}
    OBVIOUS
  <2>2. QED
    BY <1>1, <2>1, Recursion
<1>3. \E f : solves(f)
  <2>1. PICK f : f \in [D -> BOOLEAN] /\ \A x \in D : f[x] = Step[<<x, f>>]
    BY <1>2 DEF Solution
  <2>2. \A x \in D : f[x] = MatchFrom(f, s, m, ic, x[1], x[2])
    BY <2>1
  <2>3. f = [at \in D |-> MatchFrom(f, s, m, ic, at[1], at[2])]
    BY <2>1, <2>2
  <2>4. QED
    BY <2>3
<1>4. solves(match)
  <2> HIDE DEF solves
  <2>1. QED
    BY <1>3
<1>5. PatternMatchBody(s, m, ic) <=> s # <<>> /\ m # <<>> /\ match[<<0, 0>>]
  BY DEF PatternMatchBody, Places
<1> HIDE DEF match
<1>6. \A at \in D : match[at] = MatchFrom(match, s, m, ic, at[1], at[2])
  BY <1>4
<1>7. \A at \in D : MatchFrom(match, s, m, ic, at[1], at[2]) \in BOOLEAN
  BY DEF MatchFrom, OnlyStars
<1>8. match \in [D -> BOOLEAN]
  BY <1>4, <1>6, <1>7
<1>9. Matching(match, s, m, ic)
  BY <1>6, <1>8 DEF Matching
<1>10. QED
  BY <1>5, <1>9

LEMMA AtPlace ==
  ASSUME NEW C, NEW s \in Seq(C), NEW m \in Seq(C), NEW ic \in BOOLEAN,
         NEW f, Matching(f, s, m, ic),
         NEW i \in 0 .. Len(s), NEW j \in 0 .. Len(m)
  PROVE  /\ f[<<i, j>>] \in BOOLEAN
         /\ f[<<i, j>>] = MatchFrom(f, s, m, ic, i, j)
<1>1. <<i, j>> \in Places(s, m)
  BY DEF Places
<1>2. QED
  BY <1>1 DEF Matching

\* Behind the end of the text only stars are left.
LEMMA AtTheEnd ==
  ASSUME NEW C, NEW s \in Seq(C), NEW m \in Seq(C), NEW ic \in BOOLEAN,
         NEW f, Matching(f, s, m, ic), NEW j \in 0 .. Len(m)
  PROVE  f[<<Len(s), j>>] <=> \A q \in j + 1 .. Len(m) : m[q] = "*"
<1>0. Len(s) \in Nat /\ Len(m) \in Nat
  OBVIOUS
<1>1. f[<<Len(s), j>>] <=> OnlyStars(SubSeq(m, j + 1, Len(m)))
  <2>1. Len(s) \in 0 .. Len(s)
    BY <1>0
  <2>2. f[<<Len(s), j>>] = MatchFrom(f, s, m, ic, Len(s), j)
    BY <2>1, AtPlace
  <2>3. QED
    BY <2>2 DEF MatchFrom
<1>2. /\ DOMAIN SubSeq(m, j + 1, Len(m)) = 1 .. Len(m) - j
      /\ \A k \in 1 .. Len(m) - j : SubSeq(m, j + 1, Len(m))[k] = m[j + k]
  BY <1>0
<1>3. OnlyStars(SubSeq(m, j + 1, Len(m))) <=> \A k \in 1 .. Len(m) - j : m[j + k] = "*"
  BY <1>2 DEF OnlyStars
<1>4. ASSUME \A k \in 1 .. Len(m) - j : m[j + k] = "*", NEW q \in j + 1 .. Len(m)
      PROVE  m[q] = "*"
  <2>1. q - j \in 1 .. Len(m) - j /\ j + (q - j) = q
    BY <1>0
  <2>2. QED
    BY <1>4, <2>1
<1>5. ASSUME \A q \in j + 1 .. Len(m) : m[q] = "*", NEW k \in 1 .. Len(m) - j
      PROVE  m[j + k] = "*"
  BY <1>0, <1>5
<1>6. QED
  BY <1>1, <1>3, <1>4, <1>5

\* The last star takes the rest of the text.
LEMMA LastStar ==
  ASSUME NEW C, NEW s \in Seq(C), NEW m \in Seq(C), NEW ic \in BOOLEAN,
         NEW f, Matching(f, s, m, ic), NEW i \in 0 .. Len(s),
         m # <<>>, m[Len(m)] = "*"
  PROVE  f[<<i, Len(m) - 1>>]
<1>0. Len(s) \in Nat /\ Len(m) \in Nat \ {0}
  OBVIOUS
<1>1. CASE i = Len(s)
  BY <1>0, <1>1, AtTheEnd
<1>2. CASE i # Len(s)
  <2>1. Len(m) - 1 \in 0 .. Len(m) /\ (Len(m) - 1) + 1 = Len(m) /\ Len(m) - 1 < Len(m)
    BY <1>0
  <2>2. f[<<i, Len(m) - 1>>] = MatchFrom(f, s, m, ic, i, Len(m) - 1)
    BY <2>1, AtPlace
  <2>3. QED
    BY <1>2, <2>1, <2>2 DEF MatchFrom
<1>3. QED
  BY <1>1, <1>2

-----------------------------------------------------------------------------
(* One character read by the reference.                                    *)

\* The next character takes the loop from place q to place r.
Takes(m, c, ic, q, r) ==
  /\ q < Len(m)
  /\ \/ m[q + 1] = "*" /\ r = q
     \/ /\ m[q + 1] # "*" /\ r = q + 1
        /\ m[q + 1] = "?" \/ SameLetter(m[q + 1], c, ic)

LEMMA AdvanceTakes ==
  ASSUME NEW C, NEW m \in Seq(C), NEW A \in SUBSET (0 .. Len(m)), NEW c, NEW ic \in BOOLEAN
  PROVE  /\ Advance(m, A, c, ic) \subseteq 0 .. Len(m)
         /\ \A r : r \in Advance(m, A, c, ic)
                     <=> \E p \in A : \E q \in Leave(m, {p}) : Takes(m, c, ic, q, r)
<1>0. Len(m) \in Nat
  OBVIOUS
<1>1. \A q : q \in Leave(m, A) <=> \E p \in A : q \in Leave(m, {p})
  BY DEF Leave
<1>2. Leave(m, A) \subseteq 0 .. Len(m)
  BY DEF Leave
<1>3. \A r : r \in Advance(m, A, c, ic) <=> \E q \in Leave(m, A) : Takes(m, c, ic, q, r)
  BY DEF Advance, Takes
<1>4. \A r : r \in Advance(m, A, c, ic) => r \in 0 .. Len(m)
  BY <1>0, <1>2, <1>3 DEF Takes
<1>5. QED
  BY <1>1, <1>3, <1>4

\* The places from p on are those the stars after p lead to.
LEMMA LeaveOne ==
  ASSUME NEW C, NEW m \in Seq(C), NEW p \in 0 .. Len(m)
  PROVE  /\ p < Len(m) /\ m[p + 1] = "*" =>
              \A q : q \in Leave(m, {p}) <=> q = p \/ q \in Leave(m, {p + 1})
         /\ ~(p < Len(m) /\ m[p + 1] = "*") => \A q : q \in Leave(m, {p}) <=> q = p
<1>0. Len(m) \in Nat
  OBVIOUS
<1>1. \A r, q : q \in Leave(m, {r}) <=>
        q \in 0 .. Len(m) /\ r <= q /\ \A i \in r + 1 .. q : m[i] = "*"
  BY DEF Leave
<1>2. p \in Leave(m, {p})
  <2>1. \A i \in p + 1 .. p : m[i] = "*"
    BY <1>0
  <2>2. p \in 0 .. Len(m) /\ p <= p
    BY <1>0
  <2>3. p \in Leave(m, {p}) <=>
          p \in 0 .. Len(m) /\ p <= p /\ \A i \in p + 1 .. p : m[i] = "*"
    BY <1>1
  <2>4. QED
    BY <2>1, <2>2, <2>3
<1>3. ASSUME p < Len(m), m[p + 1] = "*", NEW q
      PROVE  q \in Leave(m, {p}) <=> q = p \/ q \in Leave(m, {p + 1})
  <2>1. CASE q = p
    BY <1>2, <2>1
  <2>2. CASE q # p /\ q \in 0 .. Len(m)
    <3>1. p <= q <=> p + 1 <= q
      BY <1>0, <2>2
    <3>2. (\A i \in p + 1 .. q : m[i] = "*") <=> \A i \in (p + 1) + 1 .. q : m[i] = "*"
      BY <1>0, <1>3, <2>2
    <3>3. QED
      BY <1>1, <2>2, <3>1, <3>2
  <2>3. CASE q # p /\ q \notin 0 .. Len(m)
    BY <1>1, <2>3
  <2>4. QED
    BY <2>1, <2>2, <2>3
<1>4. ASSUME ~(p < Len(m) /\ m[p + 1] = "*"), NEW q \in Leave(m, {p})
      PROVE  q = p
  <2>1. q \in 0 .. Len(m) /\ p <= q /\ \A i \in p + 1 .. q : m[i] = "*"
    BY <1>1, <1>4
  <2>2. ASSUME p < q
        PROVE  FALSE
    <3>1. p + 1 \in p + 1 .. q /\ p < Len(m)
      BY <1>0, <2>1, <2>2
    <3>2. QED
      BY <1>4, <2>1, <3>1
  <2>3. QED
    BY <1>0, <2>1, <2>2
<1>5. QED
  BY <1>2, <1>3, <1>4

\* The small letters a and z, which the code does not raise, are not there.
Comparable(s, m, ic) ==
  ic => /\ \A i \in 1 .. Len(s) : s[i] \notin {"a", "z"}
        /\ \A i \in 1 .. Len(m) : m[i] \notin {"a", "z"}

\* What the loop returns at place p of the pattern with k characters read is
\* what it returns at one of the places the next character may take it to.
Continues(f, m, c, ic, k, p) ==
  \E q \in Leave(m, {p}) : \E r \in {q, q + 1} : Takes(m, c, ic, q, r) /\ f[<<k + 1, r>>]

LEMMA OneCharacter ==
  ASSUME NEW C, NEW s \in Seq(C), NEW m \in Seq(C), NEW ic \in BOOLEAN,
         Comparable(s, m, ic), NEW f, Matching(f, s, m, ic), NEW k \in 0 .. Len(s) - 1
  PROVE  \A p \in 0 .. Len(m) : f[<<k, p>>] <=> Continues(f, m, s[k + 1], ic, k, p)
<1> DEFINE c == s[k + 1]
           size == [p \in 0 .. Len(m) |-> Len(m) - p]
           Bad == {p \in 0 .. Len(m) : ~(f[<<k, p>>] <=> Continues(f, m, c, ic, k, p))}
<1>0. Len(s) \in Nat /\ Len(m) \in Nat
  OBVIOUS
<1>1. SUFFICES ASSUME Bad # {} PROVE FALSE
  OBVIOUS
<1>2. PICK p \in Bad : \A y \in 0 .. Len(m) : size[y] < size[p] => y \notin Bad
  <2>1. Bad \in SUBSET (0 .. Len(m)) /\ size \in [0 .. Len(m) -> Nat]
    BY <1>0
  <2> HIDE DEF Bad, size
  <2>2. QED
    BY <1>1, <2>1, SmallestPlace
<1>3. p \in 0 .. Len(m) /\ ~(f[<<k, p>>] <=> Continues(f, m, c, ic, k, p))
  BY <1>2
<1>4. k \in 0 .. Len(s) /\ k + 1 \in 0 .. Len(s) /\ k # Len(s) /\ k + 1 \in 1 .. Len(s)
  BY <1>0
<1>5. f[<<k, p>>] \in BOOLEAN /\ f[<<k, p>>] = MatchFrom(f, s, m, ic, k, p)
  BY <1>3, <1>4, AtPlace
<1>6. CASE p = Len(m)
  <2>1. ~f[<<k, p>>]
    BY <1>0, <1>4, <1>5, <1>6 DEF MatchFrom
  <2>2. \A q \in Leave(m, {p}) : q = p
    <3>1. ~(p < Len(m))
      BY <1>0, <1>6
    <3>2. QED
      BY <1>3, <3>1, LeaveOne
  <2>3. \A q \in Leave(m, {p}) : ~(q < Len(m))
    BY <1>0, <1>6, <2>2
  <2>4. ~Continues(f, m, c, ic, k, p)
    BY <2>3 DEF Continues, Takes
  <2>5. QED
    BY <1>3, <2>1, <2>4
<1>7. CASE p < Len(m) /\ m[p + 1] # "*"
  <2>1. f[<<k, p>>] <=> /\ m[p + 1] = "?" \/ AlphabetEqual(m[p + 1], c, ic)
                        /\ f[<<k + 1, p + 1>>]
    <3>1. p + 1 \in 0 .. Len(m)
      BY <1>0, <1>3, <1>7
    <3>2. CASE m[p + 1] = "?"
      BY <1>4, <1>5, <1>7, <3>2 DEF MatchFrom
    <3>3. CASE m[p + 1] # "?"
      BY <1>4, <1>5, <1>7, <3>3 DEF MatchFrom
    <3>4. QED
      BY <3>2, <3>3
  <2>2. AlphabetEqual(m[p + 1], c, ic) <=> SameLetter(m[p + 1], c, ic)
    <3>1. p + 1 \in 1 .. Len(m)
      BY <1>0, <1>3, <1>7
    <3>2. QED
      BY <1>4, <3>1, AlphabetEqualIsSame DEF Comparable
  <2>3. \A q : q \in Leave(m, {p}) <=> q = p
    BY <1>3, <1>7, LeaveOne
  <2>4. Continues(f, m, c, ic, k, p)
          <=> \E r \in {p, p + 1} : Takes(m, c, ic, p, r) /\ f[<<k + 1, r>>]
    BY <2>3 DEF Continues
  <2>5. \A r \in {p, p + 1} : Takes(m, c, ic, p, r)
          <=> r = p + 1 /\ (m[p + 1] = "?" \/ SameLetter(m[p + 1], c, ic))
    BY <1>7 DEF Takes
  <2>6. QED
    BY <1>3, <2>1, <2>2, <2>4, <2>5
<1>8. CASE p < Len(m) /\ m[p + 1] = "*"
  <2>1. f[<<k, p>>] <=> p + 1 = Len(m) \/ f[<<k, p + 1>>] \/ f[<<k + 1, p>>]
    BY <1>4, <1>5, <1>8 DEF MatchFrom
  <2>2. f[<<k, p + 1>>] <=> Continues(f, m, c, ic, k, p + 1)
    <3>1. p + 1 \in 0 .. Len(m) /\ size[p + 1] < size[p]
      BY <1>0, <1>3, <1>8
    <3>2. QED
      BY <1>2, <3>1
  <2>3. Continues(f, m, c, ic, k, p)
          <=> \/ \E r \in {p, p + 1} : Takes(m, c, ic, p, r) /\ f[<<k + 1, r>>]
              \/ Continues(f, m, c, ic, k, p + 1)
    <3>1. \A q : q \in Leave(m, {p}) <=> q = p \/ q \in Leave(m, {p + 1})
      BY <1>3, <1>8, LeaveOne
    <3>2. QED
      BY <3>1 DEF Continues
  <2>4. \A r \in {p, p + 1} : Takes(m, c, ic, p, r) <=> r = p
    BY <1>8 DEF Takes
  <2>5. p + 1 = Len(m) => f[<<k + 1, p>>]
    <3>1. SUFFICES ASSUME p + 1 = Len(m) PROVE f[<<k + 1, p>>]
      OBVIOUS
    <3>2. m # <<>> /\ m[Len(m)] = "*" /\ p = Len(m) - 1
      BY <1>0, <1>3, <1>8, <3>1
    <3>3. QED
      BY <1>4, <3>2, LastStar
  <2>6. QED
    BY <1>3, <2>1, <2>2, <2>3, <2>4, <2>5
<1>9. QED
  BY <1>0, <1>3, <1>6, <1>7, <1>8

-----------------------------------------------------------------------------
(* The reference reads the text once.                                      *)

Reading(at, s, m, ic) ==
  /\ at \in [0 .. Len(s) -> SUBSET (0 .. Len(m))]
  /\ at[0] = {0}
  /\ \A k \in 1 .. Len(s) : at[k] = Advance(m, at[k - 1], s[k], ic)

LEMMA AdvanceType ==
  ASSUME NEW C, NEW m \in Seq(C), NEW A, NEW c, NEW ic \in BOOLEAN
  PROVE  Advance(m, A, c, ic) \in SUBSET (0 .. Len(m))
<1>0. Len(m) \in Nat
  OBVIOUS
<1>1. Leave(m, A) \subseteq 0 .. Len(m)
  BY DEF Leave
<1> DEFINE stay == {q \in Leave(m, A) : q < Len(m) /\ m[q + 1] = "*"}
           go == {p \in Leave(m, A) : /\ p < Len(m) /\ m[p + 1] # "*"
                                      /\ m[p + 1] = "?" \/ SameLetter(m[p + 1], c, ic)}
<1>2. stay \subseteq 0 .. Len(m)
  BY <1>1
<1>3. {q + 1 : q \in go} \subseteq 0 .. Len(m)
  <2>1. ASSUME NEW q \in go
        PROVE  q + 1 \in 0 .. Len(m)
    BY <1>0, <1>1, <2>1
  <2> HIDE DEF go
  <2>2. QED
    BY <2>1
<1>4. Advance(m, A, c, ic) = stay \cup {q + 1 : q \in go}
  BY DEF Advance
<1>5. QED
  BY <1>2, <1>3, <1>4

\* What is read first is read from what is known before.
LEMMA ReadingContracts ==
  ASSUME NEW C, NEW s \in Seq(C), NEW m \in Seq(C), NEW ic \in BOOLEAN,
         NEW S, S = SUBSET (0 .. Len(m)), NEW D, D = 0 .. Len(s)
  PROVE  Contracts(D, S, [k \in D |-> k],
           [ka \in D \X [D -> S] |->
              IF ka[1] = 0 THEN {0} ELSE Advance(m, ka[2][ka[1] - 1], s[ka[1]], ic)])
<1> DEFINE size == [k \in D |-> k]
           Step == [ka \in D \X [D -> S] |->
              IF ka[1] = 0 THEN {0} ELSE Advance(m, ka[2][ka[1] - 1], s[ka[1]], ic)]
<1>0. Len(s) \in Nat /\ Len(m) \in Nat
  OBVIOUS
<1>1. size \in [D -> Nat]
  BY <1>0
<1>2. Step \in [D \X [D -> S] -> S]
  BY <1>0, AdvanceType
<1>3. ASSUME NEW x \in D, NEW f \in [D -> S], NEW g \in [D -> S],
             \A y \in D : size[y] < size[x] => f[y] = g[y]
      PROVE  Step[<<x, f>>] = Step[<<x, g>>]
  <2>1. CASE x = 0
    BY <2>1
  <2>2. CASE x # 0
    <3>1. x - 1 \in D /\ size[x - 1] < size[x]
      BY <1>0, <2>2
    <3>2. f[x - 1] = g[x - 1]
      BY <1>3, <3>1
    <3>3. QED
      BY <2>2, <3>2
  <2>3. QED
    BY <2>1, <2>2
<1> HIDE DEF size, Step
<1>4. Contracts(D, S, size, Step)
  BY <1>1, <1>2, <1>3 DEF Contracts
<1>5. QED
  BY <1>4 DEF size, Step

LEMMA ReadingFunction ==
  ASSUME NEW C, NEW s \in Seq(C), NEW m \in Seq(C), NEW ic \in BOOLEAN
  PROVE  \E at : /\ Reading(at, s, m, ic)
                 /\ GlobMatch(s, m, ic) <=> Len(m) \in Leave(m, at[Len(s)])
<1> DEFINE D == 0 .. Len(s)
           S == SUBSET (0 .. Len(m))
           size == [k \in D |-> k]
           Step == [ka \in D \X [D -> S] |->
              IF ka[1] = 0 THEN {0} ELSE Advance(m, ka[2][ka[1] - 1], s[ka[1]], ic)]
           solves(at) == at = [k \in D |-> IF k = 0 THEN {0}
                                           ELSE Advance(m, at[k - 1], s[k], ic)]
           read == CHOOSE at : solves(at)
<1>0. Len(s) \in Nat /\ Len(m) \in Nat
  OBVIOUS
<1>1. Contracts(D, S, size, Step)
  BY ReadingContracts
<1>2. \E at : Solution(D, S, Step, at)
  <2>1. S # {}
    OBVIOUS
  <2> HIDE DEF D, S, size, Step
  <2>2. QED
    BY <1>1, <2>1, Recursion
<1>3. \E at : solves(at)
  <2>1. PICK at : at \in [D -> S] /\ \A k \in D : at[k] = Step[<<k, at>>]
    BY <1>2 DEF Solution
  <2>2. \A k \in D : at[k] = IF k = 0 THEN {0} ELSE Advance(m, at[k - 1], s[k], ic)
    BY <2>1
  <2> HIDE DEF S
  <2>3. at = [k \in D |-> IF k = 0 THEN {0} ELSE Advance(m, at[k - 1], s[k], ic)]
    BY <2>1, <2>2
  <2>4. QED
    BY <2>3
<1>4. solves(read)
  <2> HIDE DEF solves
  <2>1. QED
    BY <1>3
<1>5. GlobMatch(s, m, ic) <=> Len(m) \in Leave(m, read[Len(s)])
  BY DEF GlobMatch
<1> HIDE DEF read
<1>6. \A k \in D : read[k] = IF k = 0 THEN {0} ELSE Advance(m, read[k - 1], s[k], ic)
  BY <1>4
<1>7. \A k \in D : read[k] \in S
  BY <1>0, <1>6, AdvanceType
<1>8. read \in [D -> S]
  BY <1>4, <1>6, <1>7
<1>9. Reading(read, s, m, ic)
  BY <1>0, <1>6, <1>8 DEF Reading
<1>10. QED
  BY <1>5, <1>9

\* The loop accepts from the start just when it does from one of the places
\* that the reference has reached with k characters read.
Reaches(f, at, s) ==
  \A k \in 0 .. Len(s) : f[<<0, 0>>] <=> \E p \in at[k] : f[<<k, p>>]

LEMMA ReachedPlaces ==
  ASSUME NEW C, NEW s \in Seq(C), NEW m \in Seq(C), NEW ic \in BOOLEAN,
         Comparable(s, m, ic), NEW f, Matching(f, s, m, ic),
         NEW at, Reading(at, s, m, ic)
  PROVE  Reaches(f, at, s)
<1> DEFINE size == [k \in 0 .. Len(s) |-> k]
           Bad == {k \in 0 .. Len(s) : ~(f[<<0, 0>>] <=> \E p \in at[k] : f[<<k, p>>])}
<1>0. Len(s) \in Nat /\ Len(m) \in Nat
  OBVIOUS
<1>1. SUFFICES ASSUME Bad # {} PROVE FALSE
  BY DEF Reaches
<1>2. PICK k \in Bad : \A y \in 0 .. Len(s) : size[y] < size[k] => y \notin Bad
  <2>1. Bad \in SUBSET (0 .. Len(s)) /\ size \in [0 .. Len(s) -> Nat]
    BY <1>0
  <2> HIDE DEF Bad, size
  <2>2. QED
    BY <1>1, <2>1, SmallestPlace
<1>3. k # 0
  BY <1>2 DEF Reading
<1>4. k - 1 \in 0 .. Len(s) - 1 /\ k - 1 \in 0 .. Len(s) /\ k \in 1 .. Len(s)
      /\ (k - 1) + 1 = k /\ size[k - 1] < size[k]
  BY <1>0, <1>2, <1>3
<1>5. f[<<0, 0>>] <=> \E p \in at[k - 1] : f[<<k - 1, p>>]
  BY <1>2, <1>4
<1>6. at[k - 1] \in SUBSET (0 .. Len(m))
  BY <1>4 DEF Reading
<1>7. \A p \in at[k - 1] : f[<<k - 1, p>>] <=> Continues(f, m, s[k], ic, k - 1, p)
  <2>1. \A p \in 0 .. Len(m) :
          f[<<k - 1, p>>] <=> Continues(f, m, s[(k - 1) + 1], ic, k - 1, p)
    BY <1>4, OneCharacter
  <2>2. QED
    BY <1>4, <1>6, <2>1
<1>8. \A r : r \in at[k] <=> \E p \in at[k - 1] : \E q \in Leave(m, {p}) :
                               Takes(m, s[k], ic, q, r)
  <2>1. at[k] = Advance(m, at[k - 1], s[k], ic)
    BY <1>4 DEF Reading
  <2>2. \A r : r \in Advance(m, at[k - 1], s[k], ic)
                <=> \E p \in at[k - 1] : \E q \in Leave(m, {p}) :
                      Takes(m, s[k], ic, q, r)
    BY <1>6, AdvanceTakes
  <2>3. QED
    BY <2>1, <2>2
<1>9. \A q, r : Takes(m, s[k], ic, q, r) => r \in {q, q + 1}
  BY DEF Takes
<1>10. (\E r \in at[k] : f[<<k, r>>])
         <=> \E p \in at[k - 1] : Continues(f, m, s[k], ic, k - 1, p)
  <2>1. \A p : Continues(f, m, s[k], ic, k - 1, p)
          <=> \E q \in Leave(m, {p}) : \E r \in {q, q + 1} :
                Takes(m, s[k], ic, q, r) /\ f[<<k, r>>]
    BY <1>4 DEF Continues
  <2>2. ASSUME NEW r \in at[k], f[<<k, r>>]
        PROVE  \E p \in at[k - 1] : Continues(f, m, s[k], ic, k - 1, p)
    <3>1. PICK p \in at[k - 1] : \E q \in Leave(m, {p}) : Takes(m, s[k], ic, q, r)
      BY <1>8
    <3>2. QED
      BY <1>9, <2>1, <2>2, <3>1
  <2>3. ASSUME NEW p \in at[k - 1], Continues(f, m, s[k], ic, k - 1, p)
        PROVE  \E r \in at[k] : f[<<k, r>>]
    <3>1. PICK q \in Leave(m, {p}) : \E r \in {q, q + 1} :
            Takes(m, s[k], ic, q, r) /\ f[<<k, r>>]
      BY <2>1, <2>3
    <3>2. QED
      BY <1>8, <3>1
  <2>4. QED
    BY <2>2, <2>3
<1>11. f[<<0, 0>>] <=> \E r \in at[k] : f[<<k, r>>]
  BY <1>5, <1>7, <1>10
<1>12. QED
  BY <1>2, <1>11

\* One part of a filter.
LEMMA BodyIsGlob ==
  ASSUME NEW C, NEW s \in Seq(C), NEW m \in Seq(C), NEW ic \in BOOLEAN,
         Comparable(s, m, ic), s # <<>>, m # <<>>
  PROVE  PatternMatchBody(s, m, ic) <=> GlobMatch(s, m, ic)
<1>0. Len(s) \in Nat /\ Len(m) \in Nat
  OBVIOUS
<1>1. PICK f : /\ Matching(f, s, m, ic)
               /\ PatternMatchBody(s, m, ic) <=> s # <<>> /\ m # <<>> /\ f[<<0, 0>>]
  BY MatchFunction
<1>2. PICK at : /\ Reading(at, s, m, ic)
                /\ GlobMatch(s, m, ic) <=> Len(m) \in Leave(m, at[Len(s)])
  BY ReadingFunction
<1>3. f[<<0, 0>>] <=> \E p \in at[Len(s)] : f[<<Len(s), p>>]
  <2>1. Matching(f, s, m, ic) /\ Reading(at, s, m, ic)
    BY <1>1, <1>2
  <2>2. Reaches(f, at, s)
    BY <2>1, ReachedPlaces
  <2>3. Len(s) \in 0 .. Len(s)
    BY <1>0
  <2>4. QED
    BY <2>2, <2>3, Zenon DEF Reaches
<1>4. at[Len(s)] \in SUBSET (0 .. Len(m))
  BY <1>0, <1>2 DEF Reading
<1>5. \A p \in at[Len(s)] : f[<<Len(s), p>>] <=> \A q \in p + 1 .. Len(m) : m[q] = "*"
  BY <1>1, <1>4, AtTheEnd
<1>6. Len(m) \in Leave(m, at[Len(s)])
        <=> \E p \in at[Len(s)] : \A q \in p + 1 .. Len(m) : m[q] = "*"
  BY <1>0, <1>4 DEF Leave
<1>7. QED
  BY <1>1, <1>2, <1>3, <1>5, <1>6

-----------------------------------------------------------------------------
(* Filters.                                                                *)

\* The arguments are texts over the characters of their use.
Typed ==
  /\ use \in Uses
  /\ str \in Seq(StrChars[use])
  /\ arg \in Seq(ArgChars[use])

LEMMA PartsAreTexts ==
  ASSUME NEW C, NEW m \in Seq(C), NEW part \in Parts(m)
  PROVE  /\ part \in Seq(C) /\ part # <<>>
         /\ \A k \in 1 .. Len(part) : \E i \in 1 .. Len(m) : part[k] = m[i]
<1>0. Len(m) \in Nat /\ DOMAIN m = 1 .. Len(m)
  OBVIOUS
<1>1. PICK i \in 1 .. Len(m), j \in 1 .. Len(m) : i <= j /\ part = SubSeq(m, i, j)
  BY <1>0 DEF Parts, IsPart
<1>2. /\ part \in Seq(C) /\ Len(part) = j - i + 1
      /\ \A k \in 1 .. j - i + 1 : part[k] = m[i + k - 1] /\ i + k - 1 \in 1 .. Len(m)
  BY <1>0, <1>1
<1>3. QED
  BY <1>0, <1>1, <1>2

LEMMA FilterIsGlob ==
  ASSUME Typed, NEW ic \in BOOLEAN,
         ic => {"a", "z"} \cap (ToSet(str) \cup ToSet(arg)) = {}
  PROVE  PatternMatch(str, arg, ic)
           <=> str # <<>> /\ \E part \in Parts(arg) : GlobMatch(str, part, ic)
<1> DEFINE C == StrChars[use] \cup ArgChars[use]
<1>1. str \in Seq(C) /\ arg \in Seq(C)
  BY SeqMonotonic DEF Typed
<1> HIDE DEF C
<1>2. ASSUME ic
      PROVE  /\ \A i \in 1 .. Len(str) : str[i] \notin {"a", "z"}
             /\ \A i \in 1 .. Len(arg) : arg[i] \notin {"a", "z"}
  BY <1>1, <1>2 DEF ToSet
<1>3. ASSUME NEW part \in Parts(arg), str # <<>>
      PROVE  PatternMatchBody(str, part, ic) <=> GlobMatch(str, part, ic)
  <2>1. part \in Seq(C) /\ part # <<>>
        /\ \A k \in 1 .. Len(part) : \E i \in 1 .. Len(arg) : part[k] = arg[i]
    BY <1>1, PartsAreTexts
  <2>2. Comparable(str, part, ic)
    BY <1>2, <2>1 DEF Comparable
  <2>3. QED
    BY <1>1, <1>3, <2>1, <2>2, BodyIsGlob
<1>4. QED
  BY <1>3 DEF PatternMatch

LEMMA TypedInit == TextInit => Typed
BY DEF TextInit, Typed

LEMMA TypedStep == Typed /\ [TextNext]_textVars => Typed'
<1> SUFFICES ASSUME Typed, [TextNext]_textVars PROVE Typed'
  OBVIOUS
<1>1. CASE LengthenStr
  BY <1>1 DEF LengthenStr, Typed
<1>2. CASE LengthenArg
  BY <1>2 DEF LengthenArg, Typed
<1>3. CASE UNCHANGED textVars
  BY <1>3 DEF textVars, Typed
<1>4. QED
  BY <1>1, <1>2, <1>3 DEF TextNext

\* The arguments are always texts over the characters of their use.
THEOREM TypesHold == TextSpec => []Typed
BY TypedInit, TypedStep, PTL DEF TextSpec

\* For texts and filters of every length and any alphabet: the loop of
\* pattern_match_body, which calls itself behind every star, accepts exactly
\* what one reading of the text with sets of places accepts (log.cpp 345-424).
THEOREM FiltersMatch == TextSpec => []GlobMatches
<1>1. Typed => GlobMatches
  BY FilterIsGlob DEF GlobMatches
<1>2. QED
  BY <1>1, TypesHold, PTL

-----------------------------------------------------------------------------
(* Occurrences, and those that a search from the left takes.               *)

Occurrences(s, t) == {p \in 1 .. Len(s) : IsPrefix(t, SubSeq(s, p, Len(s)))}

\* took holds the occurrences that do not overlap one it holds before.
Greedy(took, s, t) ==
  /\ took \subseteq Occurrences(s, t)
  /\ \A p \in Occurrences(s, t) :
       p \in took <=> ~\E q \in took : q < p /\ p < q + Len(t)

LEMMA OccurrenceFits ==
  ASSUME NEW C, NEW s \in Seq(C), NEW t \in Seq(C), t # <<>>,
         NEW p \in Occurrences(s, t)
  PROVE  p \in 1 .. Len(s) /\ p + Len(t) <= Len(s) + 1
<1>0. Len(s) \in Nat /\ Len(t) \in Nat
  OBVIOUS
<1>1. p \in 1 .. Len(s) /\ IsPrefix(t, SubSeq(s, p, Len(s)))
  BY DEF Occurrences
<1>2. Len(SubSeq(s, p, Len(s))) = Len(s) - p + 1
  BY <1>0, <1>1
<1>3. Len(t) <= Len(SubSeq(s, p, Len(s)))
  BY <1>1 DEF IsPrefix
<1>4. QED
  BY <1>0, <1>1, <1>2, <1>3

LEMMA MinOf ==
  ASSUME NEW S \in SUBSET Nat, S # {}
  PROVE  Min(S) \in S /\ \A n \in S : Min(S) <= n
BY LeastExists DEF Min

LEMMA MaxOf ==
  ASSUME NEW n \in Nat, NEW S \in SUBSET (0 .. n), S # {}
  PROVE  Max(S) \in S /\ \A k \in S : k <= Max(S)
<1>0. \A x \in S : x \in Nat /\ n - x \in Nat
  OBVIOUS
<1>1. {n - x : x \in S} \in SUBSET Nat /\ {n - x : x \in S} # {}
  BY <1>0
<1>2. PICK d \in {n - x : x \in S} : \A e \in {n - x : x \in S} : d <= e
  BY <1>1, LeastExists
<1>3. PICK x \in S : d = n - x
  BY <1>2
<1>4. \A y \in S : y <= x
  BY <1>0, <1>2, <1>3
<1>5. QED
  BY <1>3, <1>4 DEF Max

LEMMA MaxIs ==
  ASSUME NEW S \in SUBSET Nat, NEW x \in S, \A y \in S : y <= x
  PROVE  Max(S) = x
<1>1. \E y \in S : \A z \in S : z <= y
  OBVIOUS
<1>2. Max(S) \in S /\ \A z \in S : z <= Max(S)
  BY <1>1 DEF Max
<1>3. Max(S) <= x /\ x <= Max(S) /\ Max(S) \in Nat /\ x \in Nat
  BY <1>2
<1>4. QED
  BY <1>3

\* find returns the next occurrence.
LEMMA FindNextOccurrence ==
  ASSUME NEW C, NEW s \in Seq(C), NEW t \in Seq(C), t # <<>>,
         NEW prev \in 1 .. Len(s) + 1
  PROVE  /\ Find(s, t, prev) = 0 => \A q \in Occurrences(s, t) : q < prev
         /\ Find(s, t, prev) # 0 =>
              /\ Find(s, t, prev) \in Occurrences(s, t) /\ prev <= Find(s, t, prev)
              /\ \A q \in Occurrences(s, t) : prev <= q => Find(s, t, prev) <= q
<1> DEFINE found == {p \in prev .. Len(s) + 1 : IsPrefix(t, SubSeq(s, p, Len(s)))}
<1>0. Len(s) \in Nat /\ Len(t) \in Nat \ {0}
  OBVIOUS
<1>1. \A p : p \in found <=> p \in Occurrences(s, t) /\ prev <= p
  <2>1. ~IsPrefix(t, SubSeq(s, Len(s) + 1, Len(s)))
    <3>1. Len(SubSeq(s, Len(s) + 1, Len(s))) = 0
      BY <1>0
    <3>2. QED
      BY <1>0, <3>1 DEF IsPrefix
  <2>2. QED
    BY <1>0, <2>1 DEF Occurrences
<1>2. Find(s, t, prev) = IF found = {} THEN 0 ELSE Min(found)
  BY DEF Find
<1>3. found \in SUBSET Nat /\ 0 \notin found
  BY <1>0
<1>4. \A q \in Occurrences(s, t) : q \in Nat
  BY <1>0 DEF Occurrences
<1> HIDE DEF found
<1>5. CASE found = {}
  BY <1>1, <1>2, <1>4, <1>5
<1>6. CASE found # {}
  <2>1. Min(found) \in found /\ \A p \in found : Min(found) <= p
    BY <1>3, <1>6, MinOf
  <2>2. Find(s, t, prev) = Min(found)
    BY <1>2, <1>6
  <2>3. Find(s, t, prev) # 0
    BY <1>3, <2>1, <2>2
  <2>4. QED
    BY <1>1, <2>1, <2>2, <2>3
<1>7. QED
  BY <1>5, <1>6

\* A search from the left takes occurrences: up to each place of the text.
LEMMA GreedyExists ==
  ASSUME NEW C, NEW s \in Seq(C), NEW t \in Seq(C), t # <<>>
  PROVE  Greedy(Taken(s, t), s, t)
<1> DEFINE all == Occurrences(s, t)
           covered(p, took) == \E q \in took : q < p /\ p < q + Len(t)
           upTo(n, took) == /\ took \subseteq all /\ \A p \in took : p <= n
                            /\ \A p \in all : p <= n => (p \in took <=> ~covered(p, took))
           Bad == {n \in Nat : ~\E took : upTo(n, took)}
<1>0. Len(s) \in Nat /\ Len(t) \in Nat /\ all \subseteq 1 .. Len(s)
  BY DEF Occurrences
<1>1. Bad = {}
  <2>1. SUFFICES ASSUME Bad # {} PROVE FALSE
    OBVIOUS
  <2>2. PICK n \in Bad : \A k \in Bad : n <= k
    BY <2>1, LeastExists
  <2> HIDE DEF all
  <2>3. n \in Nat /\ \A took : ~upTo(n, took)
    <3> HIDE DEF upTo
    <3>1. QED
      BY <2>2
  <2>4. n # 0
    <3>1. upTo(0, {})
      BY <1>0
    <3> HIDE DEF upTo
    <3>2. QED
      BY <2>3, <3>1
  <2>5. n - 1 \in Nat /\ n - 1 \notin Bad
    <3> HIDE DEF Bad
    <3>1. n - 1 \in Nat /\ ~(n <= n - 1)
      BY <2>3, <2>4
    <3>2. QED
      BY <2>2, <3>1
  <2>6. PICK took : upTo(n - 1, took)
    <3> HIDE DEF upTo
    <3>1. QED
      BY <2>5
  <2>7. \A p \in took : p < n /\ p \in Nat
    BY <1>0, <2>3, <2>6
  <2>8. CASE n \in all /\ ~covered(n, took)
    <3> DEFINE more == took \cup {n}
    <3>1. more \subseteq all /\ \A p \in more : p <= n
      BY <1>0, <2>3, <2>6, <2>7, <2>8
    <3>2. \A p \in all : p <= n => (covered(p, more) <=> covered(p, took))
      BY <1>0, <2>3
    <3>3. ASSUME NEW p \in all, p <= n
          PROVE  p \in more <=> ~covered(p, more)
      <4>1. CASE p = n
        BY <2>8, <3>2, <3>3, <4>1
      <4>2. CASE p # n
        <5>1. p <= n - 1
          BY <1>0, <2>3, <3>3, <4>2
        <5>2. p \in took <=> ~covered(p, took)
          BY <2>6, <3>3, <5>1
        <5>3. QED
          BY <3>2, <3>3, <4>2, <5>2
      <4>3. QED
        BY <4>1, <4>2
    <3>4. upTo(n, more)
      BY <3>1, <3>3
    <3>5. QED
      BY <2>3, <3>4
  <2>9. CASE ~(n \in all /\ ~covered(n, took))
    <3>1. ASSUME NEW p \in all, p <= n
          PROVE  p \in took <=> ~covered(p, took)
      <4>1. CASE p = n
        BY <2>7, <2>9, <3>1, <4>1
      <4>2. CASE p # n
        <5>1. p <= n - 1
          BY <1>0, <2>3, <3>1, <4>2
        <5>2. QED
          BY <2>6, <3>1, <5>1
      <4>3. QED
        BY <4>1, <4>2
    <3>2. upTo(n, took)
      BY <2>3, <2>6, <2>7, <3>1
    <3>3. QED
      BY <2>3, <3>2
  <2>10. QED
    BY <2>8, <2>9
<1>2. PICK took : upTo(Len(s), took)
  BY <1>0, <1>1
<1>3. took \in SUBSET all /\ \A p \in all : p \in took <=> ~covered(p, took)
  BY <1>0, <1>2
<1> DEFINE good(w) == w \in SUBSET all /\ \A p \in all : p \in w <=> ~covered(p, w)
<1>4. Taken(s, t) = CHOOSE w : good(w)
  BY DEF Taken, Occurrences
<1> HIDE DEF all
<1>5. \E w : good(w)
  BY <1>3
<1>6. good(Taken(s, t))
  <2> HIDE DEF good
  <2>1. QED
    BY <1>4, <1>5
<1>7. QED
  BY <1>6 DEF Greedy, all

\* No taken occurrence before prev reaches over it.
Reached(prev, s, t) ==
  /\ prev \in 1 .. Len(s) + 1
  /\ \A q \in Taken(s, t) : q < prev => q + Len(t) <= prev

LEMMA TakenFits ==
  ASSUME NEW C, NEW s \in Seq(C), NEW t \in Seq(C), t # <<>>, NEW q \in Taken(s, t)
  PROVE  q \in 1 .. Len(s) /\ q + Len(t) <= Len(s) + 1 /\ Len(t) \in Nat \ {0}
<1>1. q \in Occurrences(s, t)
  BY GreedyExists DEF Greedy
<1>2. QED
  BY <1>1, OccurrenceFits

\* The next occurrence the search finds is taken, and is the next one taken.
LEMMA NextTaken ==
  ASSUME NEW C, NEW s \in Seq(C), NEW t \in Seq(C), t # <<>>,
         NEW prev, Reached(prev, s, t), NEW p, p = Find(s, t, prev)
  PROVE  /\ p = 0 => \A q \in Taken(s, t) : q < prev
         /\ p # 0 => /\ p \in Taken(s, t) /\ prev <= p
                     /\ Reached(After(p, t), s, t)
                     /\ \A q \in Taken(s, t) : q < prev \/ q = p \/ After(p, t) <= q
<1>0. Len(s) \in Nat /\ Len(t) \in Nat \ {0} /\ prev \in 1 .. Len(s) + 1
  BY DEF Reached
<1>1. Greedy(Taken(s, t), s, t)
  BY GreedyExists
<1>2. \A q \in Taken(s, t) : q \in Occurrences(s, t) /\ q \in 1 .. Len(s)
  BY <1>1 DEF Greedy, Occurrences
<1>3. CASE p = 0
  BY <1>0, <1>2, <1>3, FindNextOccurrence
<1>4. CASE p # 0
  <2>1. /\ p \in Occurrences(s, t) /\ prev <= p
        /\ \A q \in Occurrences(s, t) : prev <= q => p <= q
    BY <1>0, <1>4, FindNextOccurrence
  <2>2. p \in 1 .. Len(s) /\ p + Len(t) <= Len(s) + 1
    BY <2>1, OccurrenceFits
  <2>3. ASSUME NEW q \in Taken(s, t), q < p
        PROVE  q < prev /\ q + Len(t) <= prev
    <3>1. q < prev
      BY <1>0, <1>2, <2>1, <2>2, <2>3
    <3>2. QED
      BY <3>1 DEF Reached
  <2>4. ~\E q \in Taken(s, t) : q < p /\ p < q + Len(t)
    BY <1>0, <1>2, <2>1, <2>2, <2>3
  <2>5. p \in Taken(s, t)
    BY <1>1, <2>1, <2>4 DEF Greedy
  <2>6. ASSUME NEW q \in Taken(s, t), ~(q < prev), q # p
        PROVE  After(p, t) <= q
    <3>1. q \in Occurrences(s, t) /\ q \in 1 .. Len(s)
      BY <1>2
    <3>2. p < q
      BY <1>0, <2>1, <2>2, <2>6, <3>1
    <3>3. ~(p < q /\ q < p + Len(t))
      BY <1>1, <2>5, <3>1 DEF Greedy
    <3>4. QED
      BY <1>0, <2>2, <3>1, <3>2, <3>3 DEF After
  <2>7. After(p, t) \in 1 .. Len(s) + 1
    BY <1>0, <2>2 DEF After
  <2>8. ASSUME NEW q \in Taken(s, t), q < After(p, t)
        PROVE  q + Len(t) <= After(p, t)
    <3>1. CASE q < prev
      BY <1>0, <1>2, <2>1, <2>2, <3>1 DEF Reached, After
    <3>2. CASE q = p
      BY <1>0, <2>2, <3>2 DEF After
    <3>3. CASE After(p, t) <= q
      BY <1>2, <2>7, <2>8, <3>3
    <3>4. QED
      BY <2>6, <3>1, <3>2, <3>3
  <2>9. Reached(After(p, t), s, t)
    BY <2>7, <2>8 DEF Reached
  <2>10. QED
    BY <1>4, <2>1, <2>5, <2>6, <2>9
<1>5. QED
  BY <1>3, <1>4

LEMMA StartReached ==
  ASSUME NEW C, NEW s \in Seq(C), NEW t \in Seq(C), t # <<>>
  PROVE  Reached(1, s, t)
<1>0. Len(s) \in Nat
  OBVIOUS
<1>1. \A q \in Taken(s, t) : ~(q < 1)
  BY <1>0, TakenFits
<1>2. QED
  BY <1>0, <1>1 DEF Reached

\* Behind the occurrence it found the search is still within the text.
LEMMA SearchGoesOn ==
  ASSUME NEW C, NEW s \in Seq(C), NEW t \in Seq(C), t # <<>>,
         NEW prev \in 1 .. Len(s) + 1, NEW p, p = Find(s, t, prev)
  PROVE  \/ p = 0
         \/ /\ p \in prev .. Len(s) /\ p \in 1 .. Len(s)
            /\ After(p, t) \in 1 .. Len(s) + 1 /\ prev < After(p, t)
            /\ After(p, t) = p + Len(t)
<1>0. Len(s) \in Nat /\ Len(t) \in Nat \ {0}
  OBVIOUS
<1>1. ASSUME p # 0
      PROVE  p \in Occurrences(s, t) /\ prev <= p
  BY <1>1, FindNextOccurrence
<1>2. ASSUME p # 0
      PROVE  p \in 1 .. Len(s) /\ p + Len(t) <= Len(s) + 1
  BY <1>1, <1>2, OccurrenceFits
<1>3. QED
  BY <1>0, <1>1, <1>2 DEF After

Remaining(s) == [prev \in 1 .. Len(s) + 1 |-> Len(s) + 1 - prev]

LEMMA RemainingType ==
  ASSUME NEW C, NEW s \in Seq(C)
  PROVE  Remaining(s) \in [1 .. Len(s) + 1 -> Nat]
<1>1. Len(s) \in Nat
  OBVIOUS
<1>2. QED
  BY <1>1 DEF Remaining

-----------------------------------------------------------------------------
(* replace_string                                                          *)

Replacing(f, C, s, t, v) ==
  /\ f \in [1 .. Len(s) + 1 -> Seq(C)]
  /\ \A prev \in 1 .. Len(s) + 1 : f[prev] = ReplaceFrom(f, s, t, v, prev)

LEMMA ReplaceStep ==
  ASSUME NEW C, NEW s \in Seq(C), NEW t \in Seq(C), t # <<>>, NEW v \in Seq(C),
         NEW f, NEW prev \in 1 .. Len(s) + 1,
         \A x \in 1 .. Len(s) + 1 : prev < x => f[x] \in Seq(C)
  PROVE  ReplaceFrom(f, s, t, v, prev) \in Seq(C)
<1> DEFINE p == Find(s, t, prev)
<1>0. Len(s) \in Nat
  OBVIOUS
<1>1. \A a \in 1 .. Len(s) + 1, b \in 0 .. Len(s) : SubSeq(s, a, b) \in Seq(C)
  BY <1>0
<1>2. ReplaceFrom(f, s, t, v, prev)
        = IF p = 0 THEN SubSeq(s, prev, Len(s))
          ELSE SubSeq(s, prev, p - 1) \o v \o f[After(p, t)]
  BY DEF ReplaceFrom
<1>3. p = 0 \/ /\ p \in prev .. Len(s) /\ p \in 1 .. Len(s)
               /\ After(p, t) \in 1 .. Len(s) + 1 /\ prev < After(p, t)
  BY SearchGoesOn
<1> HIDE DEF p
<1>4. CASE p = 0
  BY <1>0, <1>1, <1>2, <1>4
<1>5. CASE p # 0
  <2>1. SubSeq(s, prev, p - 1) \in Seq(C)
    BY <1>0, <1>1, <1>3, <1>5
  <2>2. f[After(p, t)] \in Seq(C)
    BY <1>3, <1>5
  <2>3. QED
    BY <1>2, <1>5, <2>1, <2>2
<1>6. QED
  BY <1>4, <1>5

ReplaceSteps(C, s, t, v) ==
  [xf \in (1 .. Len(s) + 1) \X [1 .. Len(s) + 1 -> Seq(C)] |->
     ReplaceFrom(xf[2], s, t, v, xf[1])]

LEMMA ReplaceContracts ==
  ASSUME NEW C, NEW s \in Seq(C), NEW t \in Seq(C), t # <<>>, NEW v \in Seq(C)
  PROVE  Contracts(1 .. Len(s) + 1, Seq(C), Remaining(s), ReplaceSteps(C, s, t, v))
<1> DEFINE D == 1 .. Len(s) + 1
           Step == ReplaceSteps(C, s, t, v)
<1>1. Remaining(s) \in [D -> Nat]
  BY RemainingType
<1>2. Step \in [D \X [D -> Seq(C)] -> Seq(C)]
  BY ReplaceStep DEF ReplaceSteps
<1>3. ASSUME NEW x \in D, NEW f \in [D -> Seq(C)], NEW g \in [D -> Seq(C)],
             \A y \in D : Remaining(s)[y] < Remaining(s)[x] => f[y] = g[y]
      PROVE  Step[<<x, f>>] = Step[<<x, g>>]
  <2> DEFINE p == Find(s, t, x)
  <2>1. CASE p = 0
    BY <2>1 DEF ReplaceFrom, ReplaceSteps
  <2>2. CASE p # 0
    <3>1. After(p, t) \in D /\ x < After(p, t)
      BY <2>2, SearchGoesOn
    <3>2. Len(s) \in Nat
      OBVIOUS
    <3>3. Remaining(s)[After(p, t)] < Remaining(s)[x]
      BY <3>1, <3>2 DEF Remaining
    <3>4. f[After(p, t)] = g[After(p, t)]
      BY <1>3, <3>1, <3>3
    <3>5. QED
      BY <2>2, <3>4 DEF ReplaceFrom, ReplaceSteps
  <2>3. QED
    BY <2>1, <2>2
<1> HIDE DEF Step
<1>4. Contracts(D, Seq(C), Remaining(s), Step)
  BY <1>1, <1>2, <1>3 DEF Contracts
<1>5. QED
  BY <1>4 DEF Step

LEMMA ReplaceFunction ==
  ASSUME NEW C, NEW s \in Seq(C), NEW t \in Seq(C), t # <<>>, NEW v \in Seq(C)
  PROVE  \E f : Replacing(f, C, s, t, v) /\ ReplaceString(s, t, v) = f[1]
<1> DEFINE D == 1 .. Len(s) + 1
           S == Seq(C)
           size == Remaining(s)
           Step == ReplaceSteps(C, s, t, v)
           solves(f) == f = [prev \in D |-> ReplaceFrom(f, s, t, v, prev)]
           replace == CHOOSE f : solves(f)
<1>0. Len(s) \in Nat
  OBVIOUS
<1>1. Contracts(D, S, size, Step)
  BY ReplaceContracts
<1>2. \E f : Solution(D, S, Step, f)
  <2>1. S # {}
    OBVIOUS
  <2> HIDE DEF D, S, size, Step
  <2>2. QED
    BY <1>1, <2>1, Recursion
<1>3. \E f : solves(f)
  <2>1. PICK f : f \in [D -> S] /\ \A x \in D : f[x] = Step[<<x, f>>]
    BY <1>2 DEF Solution
  <2>2. \A x \in D : f[x] = ReplaceFrom(f, s, t, v, x)
    BY <2>1 DEF ReplaceSteps
  <2> HIDE DEF S, D
  <2>3. f = [prev \in D |-> ReplaceFrom(f, s, t, v, prev)]
    BY <2>1, <2>2
  <2>4. QED
    BY <2>3
<1>4. solves(replace)
  <2> HIDE DEF solves
  <2>1. QED
    BY <1>3
<1>5. ReplaceString(s, t, v) = replace[1]
  <2>1. GoesOn(s, t)
    BY SearchGoesOn DEF GoesOn
  <2>2. QED
    BY <2>1 DEF ReplaceString
<1> HIDE DEF replace
<1>6. \A x \in D : replace[x] = ReplaceFrom(replace, s, t, v, x)
  BY <1>4
<1>7. \A x \in D : replace[x] \in S
  <2> DEFINE Bad == {x \in D : replace[x] \notin S}
  <2>1. SUFFICES ASSUME Bad # {} PROVE FALSE
    OBVIOUS
  <2>2. PICK x \in Bad : \A y \in D : size[y] < size[x] => y \notin Bad
    <3>1. Bad \in SUBSET D /\ size \in [D -> Nat]
      BY RemainingType
    <3> HIDE DEF Bad, size, D
    <3>2. QED
      BY <2>1, <3>1, SmallestPlace
  <2>3. \A y \in D : x < y => size[y] < size[x]
    BY <1>0, <2>2 DEF Remaining
  <2>4. \A y \in D : x < y => replace[y] \in Seq(C)
    BY <2>2, <2>3
  <2>5. ReplaceFrom(replace, s, t, v, x) \in Seq(C)
    BY <2>2, <2>4, ReplaceStep
  <2>6. QED
    BY <1>6, <2>2, <2>5
<1>8. replace \in [D -> S]
  BY <1>4, <1>7
<1>9. Replacing(replace, C, s, t, v)
  BY <1>6, <1>8 DEF Replacing
<1>10. QED
  BY <1>5, <1>9

\* What replace_string makes of the character at p.
Made(s, t, v, p) ==
  IF p \in Taken(s, t) THEN v ELSE IF p \in Rest(s, t) THEN <<s[p]>> ELSE <<>>

Writing(w, C, s, t, v) ==
  /\ w \in [0 .. Len(s) -> Seq(C)]
  /\ w[0] = <<>>
  /\ \A p \in 1 .. Len(s) : w[p] = w[p - 1] \o Made(s, t, v, p)

LEMMA MadeType ==
  ASSUME NEW C, NEW s \in Seq(C), NEW t, NEW v \in Seq(C), NEW p \in 1 .. Len(s)
  PROVE  Made(s, t, v, p) \in Seq(C)
BY DEF Made

WriteSteps(C, s, t, v) ==
  [xf \in (0 .. Len(s)) \X [0 .. Len(s) -> Seq(C)] |->
     IF xf[1] = 0 THEN <<>> ELSE xf[2][xf[1] - 1] \o Made(s, t, v, xf[1])]

LEMMA WriteContracts ==
  ASSUME NEW C, NEW s \in Seq(C), NEW t, NEW v \in Seq(C)
  PROVE  Contracts(0 .. Len(s), Seq(C), [k \in 0 .. Len(s) |-> k], WriteSteps(C, s, t, v))
<1> DEFINE D == 0 .. Len(s)
           size == [k \in D |-> k]
           Step == WriteSteps(C, s, t, v)
<1>0. Len(s) \in Nat
  OBVIOUS
<1>1. size \in [D -> Nat]
  BY <1>0
<1>2. ASSUME NEW x \in D, NEW f \in [D -> Seq(C)]
      PROVE  (IF x = 0 THEN <<>> ELSE f[x - 1] \o Made(s, t, v, x)) \in Seq(C)
  <2>1. CASE x = 0
    BY <2>1
  <2>2. CASE x # 0
    <3>1. x - 1 \in D /\ x \in 1 .. Len(s)
      BY <1>0, <2>2
    <3>2. f[x - 1] \in Seq(C) /\ Made(s, t, v, x) \in Seq(C)
      BY <3>1, MadeType
    <3>3. QED
      BY <2>2, <3>2
  <2>3. QED
    BY <2>1, <2>2
<1>3. Step \in [D \X [D -> Seq(C)] -> Seq(C)]
  BY <1>2 DEF WriteSteps
<1>4. ASSUME NEW x \in D, NEW f \in [D -> Seq(C)], NEW g \in [D -> Seq(C)],
             \A y \in D : size[y] < size[x] => f[y] = g[y]
      PROVE  Step[<<x, f>>] = Step[<<x, g>>]
  <2>1. CASE x = 0
    BY <2>1 DEF WriteSteps
  <2>2. CASE x # 0
    <3>1. x - 1 \in D /\ size[x - 1] < size[x]
      BY <1>0, <2>2
    <3>2. f[x - 1] = g[x - 1]
      BY <1>4, <3>1
    <3>3. QED
      BY <2>2, <3>2 DEF WriteSteps
  <2>3. QED
    BY <2>1, <2>2
<1> HIDE DEF Step, size
<1>5. Contracts(D, Seq(C), size, Step)
  BY <1>1, <1>3, <1>4 DEF Contracts
<1>6. QED
  BY <1>5 DEF Step, size

Written(s, t, v) ==
  CHOOSE w : w = [p \in 0 .. Len(s) |->
                    IF p = 0 THEN <<>> ELSE w[p - 1] \o Made(s, t, v, p)]

LEMMA WrittenIsWriting ==
  ASSUME NEW C, NEW s \in Seq(C), NEW t, NEW v \in Seq(C)
  PROVE  Writing(Written(s, t, v), C, s, t, v)
<1> DEFINE D == 0 .. Len(s)
           S == Seq(C)
           size == [k \in D |-> k]
           Step == WriteSteps(C, s, t, v)
           solves(w) == w = [p \in D |-> IF p = 0 THEN <<>>
                                         ELSE w[p - 1] \o Made(s, t, v, p)]
           w == Written(s, t, v)
<1>0. Len(s) \in Nat
  OBVIOUS
<1>1. Contracts(D, S, size, Step)
  BY WriteContracts
<1>2. \E f : Solution(D, S, Step, f)
  <2>1. S # {}
    OBVIOUS
  <2> HIDE DEF D, S, size, Step
  <2>2. QED
    BY <1>1, <2>1, Recursion
<1>3. \E f : solves(f)
  <2>1. PICK f : f \in [D -> S] /\ \A x \in D : f[x] = Step[<<x, f>>]
    BY <1>2 DEF Solution
  <2>2. \A x \in D : f[x] = IF x = 0 THEN <<>> ELSE f[x - 1] \o Made(s, t, v, x)
    BY <2>1 DEF WriteSteps
  <2> HIDE DEF S, D
  <2>3. f = [x \in D |-> IF x = 0 THEN <<>> ELSE f[x - 1] \o Made(s, t, v, x)]
    BY <2>1, <2>2
  <2>4. QED
    BY <2>3
<1>4. w = CHOOSE f : solves(f)
  BY DEF Written
<1> HIDE DEF w
<1>5. solves(w)
  <2> HIDE DEF solves
  <2>1. QED
    BY <1>3, <1>4
<1>6. \A p \in D : w[p] = IF p = 0 THEN <<>> ELSE w[p - 1] \o Made(s, t, v, p)
  BY <1>5
<1>7. \A p \in D : w[p] \in Seq(C)
  <2> DEFINE Bad == {p \in D : w[p] \notin Seq(C)}
  <2>1. SUFFICES ASSUME Bad # {} PROVE FALSE
    OBVIOUS
  <2>2. PICK p \in Bad : \A y \in D : size[y] < size[p] => y \notin Bad
    <3>1. Bad \in SUBSET D /\ size \in [D -> Nat]
      BY <1>0
    <3> HIDE DEF Bad, size, D
    <3>2. QED
      BY <2>1, <3>1, SmallestPlace
  <2>3. p # 0
    <3>1. 0 \in D /\ w[0] = <<>>
      BY <1>0, <1>6
    <3>2. <<>> \in Seq(C) /\ w[p] \notin Seq(C)
      BY <2>2
    <3>3. QED
      BY <3>1, <3>2
  <2>4. p - 1 \in D /\ p \in 1 .. Len(s) /\ size[p - 1] < size[p]
    BY <1>0, <2>2, <2>3
  <2>5. w[p - 1] \in Seq(C)
    BY <2>2, <2>4
  <2>6. Made(s, t, v, p) \in Seq(C)
    BY <2>4, MadeType
  <2>7. w[p] = w[p - 1] \o Made(s, t, v, p)
    BY <1>6, <2>2, <2>3
  <2>8. w[p] \in Seq(C)
    BY <2>5, <2>6, <2>7
  <2>9. QED
    BY <2>2, <2>8
<1>8. w \in [D -> Seq(C)]
  BY <1>5, <1>7
<1>9. w[0] = <<>> /\ \A p \in 1 .. Len(s) : w[p] = w[p - 1] \o Made(s, t, v, p)
  <2>1. 0 \in D /\ \A p \in 1 .. Len(s) : p \in D /\ p # 0
    BY <1>0
  <2> HIDE DEF D
  <2>2. QED
    BY <1>6, <2>1
<1>10. QED
  BY <1>8, <1>9 DEF Writing, w

Cat(x, y) == x \o y

LEMMA Reassociate ==
  ASSUME NEW C, NEW x, x \in Seq(C), NEW y, y \in Seq(C), NEW z, z \in Seq(C)
  PROVE  Cat(Cat(x, y), z) = Cat(x, Cat(y, z))
BY ConcatAssociative DEF Cat

Copies(s, t, v, a, b) == \A x \in a + 1 .. b : Made(s, t, v, x) = <<s[x]>>

Skips(s, t, v, a, b) == \A x \in a + 1 .. b : Made(s, t, v, x) = <<>>

Copied(w, s, a, b) == w[b] = w[a] \o SubSeq(s, a + 1, b)

\* Where no separator is taken, what is written is a piece of the text.
LEMMA WrittenPiece ==
  ASSUME NEW C, NEW s \in Seq(C), NEW t, NEW v \in Seq(C),
         NEW w, Writing(w, C, s, t, v),
         NEW a, a \in 0 .. Len(s), NEW b, b \in a .. Len(s),
         Copies(s, t, v, a, b)
  PROVE  Copied(w, s, a, b)
<1> DEFINE differs(k) == w[k] # w[a] \o SubSeq(s, a + 1, k)
           Bad == {k \in a .. b : differs(k)}
<1>0. Len(s) \in Nat /\ a \in Nat /\ b \in Nat /\ a <= b /\ b <= Len(s)
  OBVIOUS
<1>1. SUFFICES ASSUME Bad # {} PROVE FALSE
  <2>1. b \in a .. b
    BY <1>0
  <2>2. ~differs(b)
    <3> HIDE DEF differs
    <3>1. QED
      BY <2>1
  <2>3. QED
    BY <2>2 DEF Copied
<1>2. PICK k \in Bad : \A j \in Bad : k <= j
  <2> HIDE DEF differs
  <2>1. Bad \in SUBSET Nat
    BY <1>0
  <2> HIDE DEF Bad
  <2>2. QED
    BY <1>1, <2>1, LeastExists
<1>3. \A j \in 0 .. Len(s) : w[j] \in Seq(C)
  BY DEF Writing
<1>4. k # a
  <2>1. SubSeq(s, a + 1, a) = <<>>
    BY <1>0, SubSeqEmpty
  <2>2. w[a] \o <<>> = w[a]
    BY <1>3, ConcatEmptySeq
  <2>3. QED
    BY <1>2, <2>1, <2>2
<1>5. k - 1 \in a .. b /\ k \in a + 1 .. b /\ k \in 1 .. Len(s) /\ ~(k <= k - 1)
  BY <1>0, <1>2, <1>4
<1>6. w[k - 1] = w[a] \o SubSeq(s, a + 1, k - 1)
  BY <1>2, <1>5
<1>7. w[k] = w[k - 1] \o <<s[k]>>
  BY <1>5 DEF Writing, Copies
<1>8. SubSeq(s, a + 1, k) = SubSeq(s, a + 1, k - 1) \o <<s[k]>>
  <2>1. a + 1 \in 1 .. Len(s) /\ k \in a + 1 .. Len(s)
    BY <1>0, <1>5
  <2>2. QED
    BY <2>1, SubSeqRecursiveSecond
<1>9. (w[a] \o SubSeq(s, a + 1, k - 1)) \o <<s[k]>>
        = w[a] \o (SubSeq(s, a + 1, k - 1) \o <<s[k]>>)
  <2>1. w[a] \in Seq(C) /\ SubSeq(s, a + 1, k - 1) \in Seq(C) /\ <<s[k]>> \in Seq(C)
    BY <1>0, <1>3, <1>5
  <2> DEFINE x == w[a]
             y == SubSeq(s, a + 1, k - 1)
             z == <<s[k]>>
  <2>2. x \in Seq(C) /\ y \in Seq(C) /\ z \in Seq(C)
    BY <2>1
  <2> HIDE DEF x, y, z
  <2>3. Cat(Cat(x, y), z) = Cat(x, Cat(y, z))
    BY ONLY <2>2, Reassociate
  <2>4. QED
    BY <2>3 DEF Cat, x, y, z
<1>10. QED
  BY <1>2, <1>6, <1>7, <1>8, <1>9

\* Within a taken separator nothing more is written.
LEMMA WrittenNothing ==
  ASSUME NEW C, NEW s \in Seq(C), NEW t, NEW v \in Seq(C),
         NEW w, Writing(w, C, s, t, v),
         NEW a, a \in 0 .. Len(s), NEW b, b \in a .. Len(s),
         Skips(s, t, v, a, b)
  PROVE  w[b] = w[a]
<1> DEFINE Bad == {k \in a .. b : w[k] # w[a]}
<1>0. Len(s) \in Nat /\ a \in Nat /\ b \in Nat /\ a <= b /\ b <= Len(s)
  OBVIOUS
<1>1. SUFFICES ASSUME Bad # {} PROVE FALSE
  BY <1>0
<1>2. PICK k \in Bad : \A j \in Bad : k <= j
  <2>1. Bad \in SUBSET Nat
    BY <1>0
  <2> HIDE DEF Bad
  <2>2. QED
    BY <1>1, <2>1, LeastExists
<1>3. k # a
  BY <1>2
<1>4. k - 1 \in a .. b /\ k - 1 \in 0 .. Len(s) /\ k \in a + 1 .. b /\ k \in 1 .. Len(s)
      /\ ~(k <= k - 1)
  BY <1>0, <1>2, <1>3
<1>5. w[k - 1] = w[a]
  BY <1>2, <1>4
<1>6. w[k] = w[k - 1] \o <<>> /\ w[k - 1] \in Seq(C)
  BY <1>4 DEF Writing, Skips
<1>7. w[k] = w[k - 1]
  BY <1>6, ConcatEmptySeq
<1>8. QED
  BY <1>2, <1>5, <1>7

\* What lies where, between the place the search goes on from and the next
\* taken separator.
LEMMA BetweenTaken ==
  ASSUME NEW C, NEW s \in Seq(C), NEW t \in Seq(C), t # <<>>,
         NEW prev, Reached(prev, s, t), NEW p, p = Find(s, t, prev)
  PROVE  /\ p = 0 => \A x \in prev .. Len(s) : x \in Rest(s, t) /\ x \notin Taken(s, t)
         /\ p # 0 => /\ \A x \in prev .. p - 1 : x \in Rest(s, t) /\ x \notin Taken(s, t)
                     /\ \A x \in p .. After(p, t) - 1 : x \notin Rest(s, t)
                     /\ \A x \in p + 1 .. After(p, t) - 1 : x \notin Taken(s, t)
<1>0. Len(s) \in Nat /\ Len(t) \in Nat \ {0} /\ prev \in 1 .. Len(s) + 1
  BY DEF Reached
<1>1. \A q \in Taken(s, t) : q \in 1 .. Len(s) /\ q + Len(t) <= Len(s) + 1
  BY TakenFits
<1>2. \A x : x \in Rest(s, t) <=>
        x \in 1 .. Len(s) /\ \A q \in Taken(s, t) : x \notin q .. q + Len(t) - 1
  BY DEF Rest
<1>3. \A q \in Taken(s, t) : q < prev => q + Len(t) <= prev
  BY DEF Reached
<1>4. CASE p = 0
  <2>1. \A q \in Taken(s, t) : q + Len(t) <= prev
    BY <1>3, <1>4, NextTaken
  <2>2. ASSUME NEW x \in prev .. Len(s)
        PROVE  x \in Rest(s, t) /\ x \notin Taken(s, t)
    BY <1>0, <1>1, <1>2, <2>1
  <2>3. QED
    BY <1>4, <2>2
<1>5. CASE p # 0
  <2>1. /\ p \in Taken(s, t) /\ prev <= p
        /\ \A q \in Taken(s, t) : q < prev \/ q = p \/ After(p, t) <= q
    BY <1>5, NextTaken
  <2>2. After(p, t) = p + Len(t) /\ p \in 1 .. Len(s) /\ p + Len(t) <= Len(s) + 1
    BY <1>1, <2>1 DEF After
  <2>3. ASSUME NEW x \in prev .. p - 1
        PROVE  x \in Rest(s, t) /\ x \notin Taken(s, t)
    <3>1. x \in 1 .. Len(s) /\ x < p /\ prev <= x
      BY <1>0, <2>1, <2>2
    <3>2. ASSUME NEW q \in Taken(s, t)
          PROVE  x \notin q .. q + Len(t) - 1 /\ x # q
      BY <1>0, <1>1, <1>3, <2>1, <2>2, <3>1
    <3>3. QED
      BY <1>2, <3>1, <3>2
  <2>4. ASSUME NEW x \in p .. After(p, t) - 1
        PROVE  x \notin Rest(s, t)
    BY <1>0, <1>2, <2>1, <2>2
  <2>5. ASSUME NEW x \in p + 1 .. After(p, t) - 1
        PROVE  x \notin Taken(s, t)
    BY <1>0, <2>1, <2>2
  <2>6. QED
    BY <1>5, <2>3, <2>4, <2>5
<1>6. QED
  BY <1>4, <1>5

Completes(w, f, s, prev) == w[Len(s)] = w[prev - 1] \o f[prev]

\* Whatever is written from a place on, it is what is still to be written.
LEMMA ReplaceWrites ==
  ASSUME NEW C, NEW s \in Seq(C), NEW t \in Seq(C), t # <<>>, NEW v \in Seq(C),
         NEW f, Replacing(f, C, s, t, v), NEW w, Writing(w, C, s, t, v)
  PROVE  \A prev \in 1 .. Len(s) + 1 : Reached(prev, s, t) => Completes(w, f, s, prev)
<1> DEFINE D == 1 .. Len(s) + 1
           differs(x) == Reached(x, s, t) /\ w[Len(s)] # w[x - 1] \o f[x]
           Bad == {x \in D : differs(x)}
<1>0. Len(s) \in Nat /\ Len(t) \in Nat \ {0}
  OBVIOUS
<1>1. SUFFICES ASSUME Bad # {} PROVE FALSE
  BY DEF Completes
<1>2. PICK prev \in D : /\ differs(prev)
                        /\ \A y \in D : Remaining(s)[y] < Remaining(s)[prev] => ~differs(y)
  <2> HIDE DEF differs
  <2>1. Bad \in SUBSET D /\ Remaining(s) \in [D -> Nat]
    BY RemainingType
  <2>2. PICK x \in Bad : \A y \in D : Remaining(s)[y] < Remaining(s)[x] => y \notin Bad
    <3> HIDE DEF Bad, D
    <3>1. QED
      BY <1>1, <2>1, SmallestPlace
  <2>3. QED
    BY <2>2
<1>3. Reached(prev, s, t) /\ w[Len(s)] # w[prev - 1] \o f[prev]
  BY <1>2
<1>4. \A y \in D : prev < y /\ Reached(y, s, t) => w[Len(s)] = w[y - 1] \o f[y]
  <2>1. \A y \in D : prev < y => Remaining(s)[y] < Remaining(s)[prev]
    BY <1>0 DEF Remaining
  <2>2. QED
    BY <1>2, <2>1
<1>5. /\ \A k \in 0 .. Len(s) : w[k] \in Seq(C)
      /\ \A k \in D : f[k] \in Seq(C)
      /\ f[prev] = ReplaceFrom(f, s, t, v, prev)
  BY DEF Writing, Replacing
<1> DEFINE p == Find(s, t, prev)
<1>6. /\ p = 0 => f[prev] = SubSeq(s, prev, Len(s))
      /\ p # 0 => f[prev] = SubSeq(s, prev, p - 1) \o v \o f[After(p, t)]
  BY <1>5 DEF ReplaceFrom
<1>7. p = 0 \/ /\ p \in prev .. Len(s) /\ p \in 1 .. Len(s)
               /\ After(p, t) \in D /\ prev < After(p, t) /\ After(p, t) = p + Len(t)
  BY SearchGoesOn
<1> HIDE DEF differs, Bad
<1>8. CASE p = 0
  <2>1. \A x \in prev .. Len(s) : Made(s, t, v, x) = <<s[x]>>
    BY <1>3, <1>8, BetweenTaken DEF Made
  <2> DEFINE a == prev - 1
  <2>2. a \in 0 .. Len(s) /\ Len(s) \in a .. Len(s) /\ a + 1 = prev
    BY <1>0
  <2>3. Copies(s, t, v, a, Len(s))
    BY <2>1, <2>2 DEF Copies
  <2> HIDE DEF a, D, p
  <2>4. Copied(w, s, a, Len(s))
    BY <2>2, <2>3, WrittenPiece
  <2>5. QED
    BY <1>3, <1>6, <1>8, <2>2, <2>4 DEF a, Copied
<1>9. CASE p # 0
  <2> DEFINE next == After(p, t)
  <2>1. /\ \A x \in prev .. p - 1 : Made(s, t, v, x) = <<s[x]>>
        /\ Made(s, t, v, p) = v
        /\ \A x \in p + 1 .. next - 1 : Made(s, t, v, x) = <<>>
        /\ Reached(next, s, t)
    <3>1. p \in Taken(s, t) /\ Reached(next, s, t)
      BY <1>3, <1>9, NextTaken
    <3>2. /\ \A x \in prev .. p - 1 : x \in Rest(s, t) /\ x \notin Taken(s, t)
          /\ \A x \in p .. next - 1 : x \notin Rest(s, t)
          /\ \A x \in p + 1 .. next - 1 : x \notin Taken(s, t)
      BY <1>3, <1>9, BetweenTaken
    <3>3. \A x \in p + 1 .. next - 1 : x \in p .. next - 1
      BY <1>0, <1>7, <1>9
    <3>4. QED
      BY <3>1, <3>2, <3>3 DEF Made
  <2>2. w[p - 1] = w[prev - 1] \o SubSeq(s, prev, p - 1)
    <3> DEFINE a == prev - 1
               b == p - 1
    <3>1. a \in 0 .. Len(s) /\ b \in a .. Len(s) /\ a + 1 = prev
      BY <1>0, <1>7, <1>9
    <3>2. Copies(s, t, v, a, b)
      BY <2>1, <3>1 DEF Copies
    <3> HIDE DEF a, b, D, p
    <3>3. Copied(w, s, a, b)
      BY <3>1, <3>2, WrittenPiece
    <3>4. QED
      BY <3>1, <3>3 DEF a, b, Copied
  <2>3. w[p] = w[p - 1] \o v
    BY <1>7, <1>9, <2>1 DEF Writing
  <2>4. w[next - 1] = w[p]
    <3> DEFINE b == next - 1
    <3>1. p \in 0 .. Len(s) /\ b \in p .. Len(s)
      BY <1>0, <1>7, <1>9
    <3>2. Skips(s, t, v, p, b)
      BY <2>1 DEF Skips
    <3> HIDE DEF b, next, D, p
    <3>3. w[b] = w[p]
      BY <3>1, <3>2, WrittenNothing
    <3>4. QED
      BY <3>3 DEF b
  <2>5. w[Len(s)] = w[next - 1] \o f[next]
    BY <1>4, <1>7, <1>9, <2>1
  <2>6. /\ w[prev - 1] \in Seq(C) /\ SubSeq(s, prev, p - 1) \in Seq(C) /\ v \in Seq(C)
        /\ f[next] \in Seq(C) /\ SubSeq(s, prev, p - 1) \o v \in Seq(C)
    BY <1>0, <1>5, <1>7, <1>9
  <2> DEFINE W == w[prev - 1]
             piece == SubSeq(s, prev, p - 1)
             more == f[next]
             first == Cat(piece, v)
  <2>7. Cat(Cat(Cat(W, piece), v), more) = Cat(W, Cat(Cat(piece, v), more))
    <3>1. W \in Seq(C) /\ piece \in Seq(C) /\ v \in Seq(C) /\ more \in Seq(C)
          /\ first \in Seq(C)
      BY <2>6 DEF Cat
    <3>2. first = Cat(piece, v)
      OBVIOUS
    <3> HIDE DEF W, piece, more, first
    <3>3. Cat(Cat(W, piece), v) = Cat(W, Cat(piece, v))
      BY ONLY <3>1, Reassociate
    <3>4. Cat(Cat(W, first), more) = Cat(W, Cat(first, more))
      BY ONLY <3>1, Reassociate
    <3>5. QED
      BY <3>2, <3>3, <3>4
  <2>8. w[Len(s)] = W \o (piece \o v \o f[next])
    BY <2>2, <2>3, <2>4, <2>5, <2>7 DEF Cat
  <2>9. QED
    BY <1>3, <1>6, <1>9, <2>8
<1>10. QED
  BY <1>8, <1>9

-----------------------------------------------------------------------------
(* How much replace_string writes.                                         *)

LEMMA TimesMonotonic ==
  ASSUME NEW a \in Nat, NEW b \in Nat, NEW c \in Nat, a <= b
  PROVE  c * a <= c * b
<1>1. PICK d \in Nat : b = a + d
  <2>1. b - a \in Nat /\ b = a + (b - a)
    OBVIOUS
  <2>2. QED
    BY <2>1
<1>2. c * b = c * a + c * d
  BY <1>1
<1>3. c * d \in Nat /\ c * a \in Nat
  OBVIOUS
<1>4. QED
  BY <1>2, <1>3

LEMMA FitsQuotient ==
  ASSUME NEW x \in Nat, NEW y \in Nat, NEW l \in Nat \ {0}, l * x <= y
  PROVE  x <= y \div l
<1> DEFINE q == y \div l
<1>1. q \in Int /\ y < l * q + l
  OBVIOUS
<1> HIDE DEF q
<1>2. CASE q + 1 <= x
  <2>1. q \in Nat
    <3>1. CASE q < 0
      <4>1. l * q + l <= 0
        <5>1. l * (-(q + 1)) \in Nat
          BY <1>1, <3>1
        <5>2. l * (-(q + 1)) = -(l * q + l)
          BY <1>1
        <5>3. QED
          BY <1>1, <5>1, <5>2
      <4>2. QED
        BY <1>1, <4>1
    <3>2. QED
      BY <1>1, <3>1
  <2>2. l * (q + 1) <= l * x
    BY <1>2, <2>1, TimesMonotonic
  <2>3. l * (q + 1) = l * q + l
    BY <2>1
  <2>4. QED
    BY <1>1, <2>1, <2>2, <2>3
<1>3. QED
  BY <1>1, <1>2 DEF q

\* The buffer's share of the text from a place on, and what that share holds.
Share(n, rest, l, k) == IF k > l THEN l * n <= k * rest ELSE n <= rest

LEMMA ShareOfCopy ==
  ASSUME NEW r \in Nat, NEW l \in Nat, NEW k \in Nat
  PROVE  Share(r, r, l, k)
<1>1. k > l => l * r <= k * r
  <2>1. k > l => r * l <= r * k
    BY TimesMonotonic
  <2>2. r * l = l * r /\ r * k = k * r
    OBVIOUS
  <2>3. QED
    BY <2>1, <2>2
<1>2. QED
  BY <1>1 DEF Share

LEMMA ShareOfReplacement ==
  ASSUME NEW c \in Nat, NEW n \in Nat, NEW r \in Nat, NEW l \in Nat, NEW k \in Nat,
         Share(n, r, l, k)
  PROVE  Share(c + k + n, c + l + r, l, k)
<1>1. CASE k > l
  <2>1. l * (c + k + n) = l * c + l * k + l * n
    OBVIOUS
  <2>2. k * (c + l + r) = k * c + l * k + k * r
    OBVIOUS
  <2>3. l * c <= k * c
    BY <1>1, ShareOfCopy DEF Share
  <2>4. l * n <= k * r
    BY <1>1 DEF Share
  <2>5. l * c \in Nat /\ k * c \in Nat /\ l * k \in Nat /\ l * n \in Nat /\ k * r \in Nat
    OBVIOUS
  <2>6. l * (c + k + n) <= k * (c + l + r)
    BY <2>1, <2>2, <2>3, <2>4, <2>5
  <2>7. QED
    BY <1>1, <2>6 DEF Share
<1>2. CASE ~(k > l)
  BY <1>2 DEF Share
<1>3. QED
  BY <1>1, <1>2

\* What is written from a place on does not take more than its share.
LEMMA ReplaceShare ==
  ASSUME NEW C, NEW s \in Seq(C), NEW t \in Seq(C), t # <<>>, NEW v \in Seq(C),
         NEW f, Replacing(f, C, s, t, v)
  PROVE  \A prev \in 1 .. Len(s) + 1 : Share(Len(f[prev]), Len(s) + 1 - prev, Len(t), Len(v))
<1> DEFINE D == 1 .. Len(s) + 1
           exceeds(x) == ~Share(Len(f[x]), Len(s) + 1 - x, Len(t), Len(v))
           Bad == {x \in D : exceeds(x)}
<1>0. Len(s) \in Nat /\ Len(t) \in Nat \ {0} /\ Len(v) \in Nat
  OBVIOUS
<1>1. SUFFICES ASSUME Bad # {} PROVE FALSE
  OBVIOUS
<1>2. PICK prev \in D : /\ exceeds(prev)
                        /\ \A y \in D : Remaining(s)[y] < Remaining(s)[prev] => ~exceeds(y)
  <2> HIDE DEF exceeds
  <2>1. Bad \in SUBSET D /\ Remaining(s) \in [D -> Nat]
    BY RemainingType
  <2>2. PICK x \in Bad : \A y \in D : Remaining(s)[y] < Remaining(s)[x] => y \notin Bad
    <3> HIDE DEF Bad, D
    <3>1. QED
      BY <1>1, <2>1, SmallestPlace
  <2>3. QED
    BY <2>2
<1>3. \A y \in D : prev < y => ~exceeds(y)
  <2>1. \A y \in D : prev < y => Remaining(s)[y] < Remaining(s)[prev]
    BY <1>0 DEF Remaining
  <2>2. QED
    BY <1>2, <2>1
<1>4. (\A k \in D : f[k] \in Seq(C)) /\ f[prev] = ReplaceFrom(f, s, t, v, prev)
  BY DEF Replacing
<1> DEFINE p == Find(s, t, prev)
<1>5. /\ p = 0 => f[prev] = SubSeq(s, prev, Len(s))
      /\ p # 0 => f[prev] = SubSeq(s, prev, p - 1) \o v \o f[After(p, t)]
  BY <1>4 DEF ReplaceFrom
<1>6. p = 0 \/ /\ p \in prev .. Len(s) /\ p \in 1 .. Len(s)
               /\ After(p, t) \in D /\ prev < After(p, t) /\ After(p, t) = p + Len(t)
  BY SearchGoesOn
<1>7. CASE p = 0
  <2>1. Len(f[prev]) = Len(s) + 1 - prev /\ Len(s) + 1 - prev \in Nat
    <3>1. f[prev] = SubSeq(s, prev, Len(s))
      BY <1>5, <1>7
    <3>2. Len(SubSeq(s, prev, Len(s))) = Len(s) + 1 - prev
      BY <1>0
    <3>3. QED
      BY <1>0, <3>1, <3>2
  <2> HIDE DEF p
  <2>2. ~exceeds(prev)
    BY <1>0, <2>1, ShareOfCopy
  <2>3. QED
    BY <1>2, <2>2
<1>8. CASE p # 0
  <2> DEFINE next == After(p, t)
             c == p - prev
             r == Len(s) + 1 - next
             n == Len(f[next])
  <2> HIDE DEF p
  <2>1. f[next] \in Seq(C) /\ SubSeq(s, prev, p - 1) \in Seq(C)
    BY <1>0, <1>4, <1>6, <1>8
  <2>2. c \in Nat /\ r \in Nat /\ n \in Nat /\ c + Len(t) + r = Len(s) + 1 - prev
    <3>1. n \in Nat
      BY <2>1
    <3>2. c \in Nat /\ r \in Nat
      BY <1>0, <1>6, <1>8
    <3>3. c + Len(t) + r = Len(s) + 1 - prev
      <4>1. next = p + Len(t) /\ next \in Nat /\ p \in Nat /\ prev \in Nat
        BY <1>0, <1>6, <1>8
      <4> HIDE DEF next
      <4>2. QED
        BY <1>0, <4>1
    <3>4. QED
      BY <3>1, <3>2, <3>3
  <2>3. Len(f[prev]) = c + Len(v) + n
    <3>1. Len(SubSeq(s, prev, p - 1)) = c
      BY <1>0, <1>6, <1>8
    <3>2. SubSeq(s, prev, p - 1) \o v \in Seq(C)
          /\ Len(SubSeq(s, prev, p - 1) \o v) = c + Len(v)
      BY <2>1, <3>1
    <3>3. Len((SubSeq(s, prev, p - 1) \o v) \o f[next]) = c + Len(v) + n
      BY <2>1, <3>2
    <3>4. f[prev] = (SubSeq(s, prev, p - 1) \o v) \o f[next]
      BY <1>5, <1>8
    <3>5. QED
      BY <3>3, <3>4
  <2>4. Share(n, r, Len(t), Len(v))
    BY <1>3, <1>6, <1>8
  <2> HIDE DEF c, r, n, next
  <2>5. Share(c + Len(v) + n, c + Len(t) + r, Len(t), Len(v))
    BY <1>0, <2>2, <2>4, ShareOfReplacement
  <2>6. QED
    BY <1>2, <2>2, <2>3, <2>5
<1>9. QED
  BY <1>7, <1>8

LEMMA ShareIsBuffer ==
  ASSUME NEW C, NEW s \in Seq(C), NEW t \in Seq(C), t # <<>>, NEW v \in Seq(C),
         NEW n \in Nat, Share(n, Len(s), Len(t), Len(v))
  PROVE  n <= BufferSize(s, t, v)
<1>0. Len(s) \in Nat /\ Len(t) \in Nat \ {0} /\ Len(v) \in Nat
  OBVIOUS
<1>1. CASE Len(v) > Len(t)
  <2>1. Len(t) * n <= Len(v) * Len(s) /\ Len(v) * Len(s) \in Nat
    BY <1>0, <1>1 DEF Share
  <2>2. n <= (Len(v) * Len(s)) \div Len(t)
    <3> DEFINE y == Len(v) * Len(s)
               l == Len(t)
    <3>1. y \in Nat /\ l \in Nat \ {0} /\ l * n <= y
      BY <1>0, <2>1
    <3> HIDE DEF y, l
    <3>2. n <= y \div l
      BY <3>1, FitsQuotient
    <3>3. QED
      BY <3>2 DEF y, l
  <2>3. BufferSize(s, t, v) = (Len(v) * Len(s)) \div Len(t)
    BY <1>0, <1>1 DEF BufferSize
  <2>4. QED
    BY <2>2, <2>3
<1>2. CASE ~(Len(v) > Len(t))
  BY <1>0, <1>2 DEF BufferSize, Share
<1>3. QED
  BY <1>1, <1>2

\* replace_string returns the text with the taken occurrences replaced, and
\* its buffer has room for it.
LEMMA ReplaceIsWritten ==
  ASSUME NEW C, NEW s \in Seq(C), NEW t \in Seq(C), t # <<>>, NEW v \in Seq(C)
  PROVE  /\ ReplaceString(s, t, v) = Written(s, t, v)[Len(s)]
         /\ Len(ReplaceString(s, t, v)) <= BufferSize(s, t, v)
<1>0. Len(s) \in Nat /\ 1 \in 1 .. Len(s) + 1
  OBVIOUS
<1>1. PICK f : Replacing(f, C, s, t, v) /\ ReplaceString(s, t, v) = f[1]
  BY ReplaceFunction
<1> DEFINE w == Written(s, t, v)
<1>2. Writing(w, C, s, t, v)
  BY WrittenIsWriting
<1> HIDE DEF w
<1>3. w[Len(s)] = w[1 - 1] \o f[1]
  <2>1. Reached(1, s, t)
    BY StartReached
  <2>2. Completes(w, f, s, 1)
    BY <1>0, <1>1, <1>2, <2>1, ReplaceWrites
  <2>3. QED
    BY <2>2 DEF Completes
<1>4. f[1] \in Seq(C)
  BY <1>0, <1>1 DEF Replacing
<1>5. w[1 - 1] = <<>>
  BY <1>2 DEF Writing
<1>6. w[Len(s)] = f[1]
  BY <1>3, <1>4, <1>5, ConcatEmptySeq
<1>7. Len(f[1]) <= BufferSize(s, t, v)
  <2>1. Share(Len(f[1]), Len(s) + 1 - 1, Len(t), Len(v))
    BY <1>0, <1>1, ReplaceShare
  <2>2. Len(s) + 1 - 1 = Len(s) /\ Len(f[1]) \in Nat
    BY <1>0, <1>4
  <2>3. QED
    BY <2>1, <2>2, ShareIsBuffer
<1>8. QED
  BY <1>1, <1>6, <1>7 DEF w

\* With an empty token the first round of replace_string does not move on.
LEMMA EmptyTokenIsEndless ==
  ASSUME NEW C, NEW s \in Seq(C), NEW v \in Seq(C)
  PROVE  /\ ReplaceString(s, <<>>, v) = Endless
         /\ v # <<>> => BufferSize(s, <<>>, v) = NotASize
<1> DEFINE found == {p \in 1 .. Len(s) + 1 : IsPrefix(<<>>, SubSeq(s, p, Len(s)))}
<1>0. Len(s) \in Nat /\ Len(v) \in Nat /\ (v # <<>> => Len(v) > 0) /\ Len(<<>>) = 0
  OBVIOUS
<1>1. 1 \in found
  <2>1. IsPrefix(<<>>, SubSeq(s, 1, Len(s)))
    BY <1>0 DEF IsPrefix
  <2>2. QED
    BY <1>0, <2>1
<1>2. Min(found) = 1
  <2>1. found \in SUBSET Nat /\ \A p \in found : 1 <= p
    BY <1>0
  <2>2. Min(found) \in found /\ \A p \in found : Min(found) <= p
    <3> HIDE DEF found
    <3>1. QED
      BY <1>1, <2>1, MinOf
  <2>3. \A m \in Nat : 1 <= m /\ m <= 1 => m = 1
    OBVIOUS
  <2> HIDE DEF found
  <2>4. Min(found) \in Nat /\ 1 <= Min(found) /\ Min(found) <= 1
    BY <1>1, <2>1, <2>2
  <2>5. QED
    BY <2>3, <2>4
<1>3. Find(s, <<>>, 1) = 1
  <2>1. Find(s, <<>>, 1) = IF found = {} THEN 0 ELSE Min(found)
    BY DEF Find
  <2> HIDE DEF found
  <2>2. QED
    BY <1>1, <1>2, <2>1
<1>4. After(1, <<>>) = 1
  BY <1>0 DEF After
<1>5. ~GoesOn(s, <<>>)
  <2>1. 1 \in 1 .. Len(s) + 1
    BY <1>0
  <2>2. QED
    BY <1>3, <1>4, <2>1 DEF GoesOn
<1>6. QED
  BY <1>0, <1>5 DEF ReplaceString, BufferSize

LEMMA TypedReplaceFits == Typed => ReplaceFits
<1> SUFFICES ASSUME Typed, NEW v \in Replacements
             PROVE  /\ arg = <<>> =>
                         /\ ReplaceString(str, arg, v) = Endless
                         /\ v # <<>> => BufferSize(str, arg, v) = NotASize
                    /\ arg # <<>> =>
                         /\ ReplaceString(str, arg, v) = Written(str, arg, v)[Len(str)]
                         /\ Len(ReplaceString(str, arg, v)) <= BufferSize(str, arg, v)
  BY DEF ReplaceFits, Written, Made
<1> DEFINE C == StrChars[use] \cup ArgChars[use] \cup ToSet(v)
<1>1. str \in Seq(C) /\ arg \in Seq(C) /\ v \in Seq(C)
  BY LogTextAssumption, SeqMonotonic DEF Typed
<1> HIDE DEF C
<1>2. CASE arg = <<>>
  BY <1>1, <1>2, EmptyTokenIsEndless
<1>3. CASE arg # <<>>
  BY <1>1, <1>3, ReplaceIsWritten
<1>4. QED
  BY <1>2, <1>3

\* For texts, tokens and values of every length: with a token that is not
\* empty replace_string returns the text with the occurrences a search from
\* the left takes replaced, and never writes behind the end of the buffer it
\* sized first, where the product of floats that sizes it is the exact one;
\* with the empty token it never returns, and for a value that is not empty
\* the size of its buffer is a quotient by 0 (log.cpp 299-343).
THEOREM ReplacementsFit == TextSpec => []ReplaceFits
BY TypedReplaceFits, TypesHold, PTL

-----------------------------------------------------------------------------
(* split_string                                                            *)

Splitting(f, C, s, t) ==
  /\ f \in [1 .. Len(s) + 1 -> Seq(Seq(C))]
  /\ \A prev \in 1 .. Len(s) + 1 : f[prev] = SplitFrom(f, s, t, prev)

LEMMA PieceType ==
  ASSUME NEW C, NEW s \in Seq(C), NEW a \in 1 .. Len(s) + 1, NEW b \in 0 .. Len(s)
  PROVE  Piece(s, a, b) \in Seq(Seq(C))
<1>1. SubSeq(s, a, b) \in Seq(C)
  OBVIOUS
<1>2. <<SubSeq(s, a, b)>> \in Seq(Seq(C)) /\ <<>> \in Seq(Seq(C))
  BY <1>1
<1>3. QED
  BY <1>2 DEF Piece

LEMMA SplitStep ==
  ASSUME NEW C, NEW s \in Seq(C), NEW t \in Seq(C), t # <<>>,
         NEW f, NEW prev \in 1 .. Len(s) + 1,
         \A x \in 1 .. Len(s) + 1 : prev < x => f[x] \in Seq(Seq(C))
  PROVE  SplitFrom(f, s, t, prev) \in Seq(Seq(C))
<1> DEFINE p == Find(s, t, prev)
<1>0. Len(s) \in Nat
  OBVIOUS
<1>1. SplitFrom(f, s, t, prev)
        = IF p = 0 THEN Piece(s, prev, Len(s))
          ELSE Piece(s, prev, p - 1) \o f[After(p, t)]
  BY DEF SplitFrom
<1>2. p = 0 \/ /\ p \in prev .. Len(s) /\ p \in 1 .. Len(s)
               /\ After(p, t) \in 1 .. Len(s) + 1 /\ prev < After(p, t)
  BY SearchGoesOn
<1> HIDE DEF p
<1>3. CASE p = 0
  <2>1. Len(s) \in 0 .. Len(s)
    BY <1>0
  <2>2. Piece(s, prev, Len(s)) \in Seq(Seq(C))
    BY <2>1, PieceType
  <2>3. QED
    BY <1>1, <1>3, <2>2
<1>4. CASE p # 0
  <2>1. p - 1 \in 0 .. Len(s)
    BY <1>0, <1>2, <1>4
  <2>2. Piece(s, prev, p - 1) \in Seq(Seq(C))
    BY <2>1, PieceType
  <2>3. f[After(p, t)] \in Seq(Seq(C))
    BY <1>2, <1>4
  <2>4. QED
    BY <1>1, <1>4, <2>2, <2>3
<1>5. QED
  BY <1>3, <1>4

SplitSteps(C, s, t) ==
  [xf \in (1 .. Len(s) + 1) \X [1 .. Len(s) + 1 -> Seq(Seq(C))] |->
     SplitFrom(xf[2], s, t, xf[1])]

LEMMA SplitContracts ==
  ASSUME NEW C, NEW s \in Seq(C), NEW t \in Seq(C), t # <<>>
  PROVE  Contracts(1 .. Len(s) + 1, Seq(Seq(C)), Remaining(s), SplitSteps(C, s, t))
<1> DEFINE D == 1 .. Len(s) + 1
           S == Seq(Seq(C))
           Step == SplitSteps(C, s, t)
<1>1. Remaining(s) \in [D -> Nat]
  BY RemainingType
<1>2. Step \in [D \X [D -> S] -> S]
  BY SplitStep DEF SplitSteps
<1>3. ASSUME NEW x \in D, NEW f \in [D -> S], NEW g \in [D -> S],
             \A y \in D : Remaining(s)[y] < Remaining(s)[x] => f[y] = g[y]
      PROVE  Step[<<x, f>>] = Step[<<x, g>>]
  <2> DEFINE p == Find(s, t, x)
  <2>1. CASE p = 0
    BY <2>1 DEF SplitFrom, SplitSteps
  <2>2. CASE p # 0
    <3>1. After(p, t) \in D /\ x < After(p, t)
      BY <2>2, SearchGoesOn
    <3>2. Len(s) \in Nat
      OBVIOUS
    <3>3. Remaining(s)[After(p, t)] < Remaining(s)[x]
      BY <3>1, <3>2 DEF Remaining
    <3>4. f[After(p, t)] = g[After(p, t)]
      BY <1>3, <3>1, <3>3
    <3>5. QED
      BY <2>2, <3>4 DEF SplitFrom, SplitSteps
  <2>3. QED
    BY <2>1, <2>2
<1> HIDE DEF Step
<1>4. Contracts(D, S, Remaining(s), Step)
  BY <1>1, <1>2, <1>3 DEF Contracts
<1>5. QED
  BY <1>4 DEF Step

LEMMA SplitFunction ==
  ASSUME NEW C, NEW s \in Seq(C), s # <<>>, NEW t \in Seq(C), t # <<>>
  PROVE  \E f : Splitting(f, C, s, t) /\ SplitString(s, t) = f[1]
<1> DEFINE D == 1 .. Len(s) + 1
           S == Seq(Seq(C))
           size == Remaining(s)
           Step == SplitSteps(C, s, t)
           solves(f) == f = [prev \in D |-> SplitFrom(f, s, t, prev)]
           split == CHOOSE f : solves(f)
<1>0. Len(s) \in Nat
  OBVIOUS
<1>1. Contracts(D, S, size, Step)
  BY SplitContracts
<1>2. \E f : Solution(D, S, Step, f)
  <2>1. S # {}
    <3>1. <<>> \in Seq(Seq(C))
      OBVIOUS
    <3>2. QED
      BY <3>1
  <2> HIDE DEF D, S, size, Step
  <2>2. QED
    BY <1>1, <2>1, Recursion
<1>3. \E f : solves(f)
  <2>1. PICK f : f \in [D -> S] /\ \A x \in D : f[x] = Step[<<x, f>>]
    BY <1>2 DEF Solution
  <2>2. \A x \in D : f[x] = SplitFrom(f, s, t, x)
    BY <2>1 DEF SplitSteps
  <2> HIDE DEF S, D
  <2>3. f = [prev \in D |-> SplitFrom(f, s, t, prev)]
    BY <2>1, <2>2
  <2>4. QED
    BY <2>3
<1>4. solves(split)
  <2> HIDE DEF solves
  <2>1. QED
    BY <1>3
<1>5. SplitString(s, t) = split[1]
  BY DEF SplitString
<1> HIDE DEF split
<1>6. \A x \in D : split[x] = SplitFrom(split, s, t, x)
  BY <1>4
<1>7. \A x \in D : split[x] \in S
  <2> DEFINE Bad == {x \in D : split[x] \notin S}
  <2>1. SUFFICES ASSUME Bad # {} PROVE FALSE
    OBVIOUS
  <2>2. PICK x \in Bad : \A y \in D : size[y] < size[x] => y \notin Bad
    <3>1. Bad \in SUBSET D /\ size \in [D -> Nat]
      BY RemainingType
    <3> HIDE DEF Bad, size, D
    <3>2. QED
      BY <2>1, <3>1, SmallestPlace
  <2>3. \A y \in D : x < y => size[y] < size[x]
    BY <1>0, <2>2 DEF Remaining
  <2>4. \A y \in D : x < y => split[y] \in Seq(Seq(C))
    BY <2>2, <2>3
  <2>5. SplitFrom(split, s, t, x) \in Seq(Seq(C))
    BY <2>2, <2>4, SplitStep
  <2>6. QED
    BY <1>6, <2>2, <2>5
<1>8. split \in [D -> S]
  BY <1>4, <1>7
<1>9. Splitting(split, C, s, t)
  BY <1>6, <1>8 DEF Splitting
<1>10. QED
  BY <1>5, <1>9

From(T, a) == {q \in T : a <= q}

\* g holds, in their order, what cut makes of the places of T from a on.
InOrder(g, C, T, cut, a) ==
  /\ g \in Seq(Seq(C))
  /\ Len(g) = Cardinality(From(T, a))
  /\ \A p \in From(T, a) : g[Cardinality({q \in From(T, a) : q <= p})] = cut[p]

LEMMA NoneInOrder ==
  ASSUME NEW C, NEW T, NEW cut, NEW a, \A q \in T : ~(a <= q)
  PROVE  InOrder(<<>>, C, T, cut, a)
<1>1. <<>> \in Seq(Seq(C)) /\ Len(<<>>) = 0
  OBVIOUS
<1>2. From(T, a) = {}
  BY DEF From
<1>3. QED
  BY <1>1, <1>2, FS_EmptySet DEF InOrder

LEMMA SameInOrder ==
  ASSUME NEW C, NEW T, NEW cut, NEW a, NEW b, \A q \in T : a <= q <=> b <= q,
         NEW g, InOrder(g, C, T, cut, b)
  PROVE  InOrder(g, C, T, cut, a)
<1>1. From(T, a) = From(T, b)
  BY DEF From
<1>2. QED
  BY <1>1 DEF InOrder

Joined(x, g) == <<x>> \o g

LEMMA JoinedIs ==
  ASSUME NEW S, NEW x \in S, NEW g \in Seq(S)
  PROVE  /\ Joined(x, g) \in Seq(S)
         /\ Len(Joined(x, g)) = Len(g) + 1
         /\ Joined(x, g)[1] = x
         /\ \A k \in 1 .. Len(g) : Joined(x, g)[k + 1] = g[k]
<1>1. <<x>> \in Seq(S) /\ Len(<<x>>) = 1 /\ <<x>>[1] = x /\ Len(g) \in Nat
  OBVIOUS
<1>2. QED
  BY <1>1, ConcatProperties DEF Joined

LEMMA OneMoreInOrder ==
  ASSUME NEW C, NEW n \in Nat, NEW T \in SUBSET (1 .. n), NEW cut,
         NEW a \in T, NEW b \in Nat, a < b,
         \A q \in T : a <= q => q = a \/ b <= q,
         cut[a] \in Seq(C), NEW g, InOrder(g, C, T, cut, b)
  PROVE  InOrder(Joined(cut[a], g), C, T, cut, a)
<1> DEFINE G == Joined(cut[a], g)
           upTo(c, p) == {q \in From(T, c) : q <= p}
<1>0. a \in Nat /\ \A q \in T : q \in Nat
  OBVIOUS
<1>1. \A c \in Nat, p \in Nat : IsFiniteSet(From(T, c)) /\ IsFiniteSet(upTo(c, p))
                              /\ Cardinality(upTo(c, p)) <= Cardinality(From(T, c))
  <2>1. IsFiniteSet(1 .. n)
    BY FS_Interval
  <2>2. ASSUME NEW c \in Nat, NEW p \in Nat
        PROVE  IsFiniteSet(From(T, c)) /\ IsFiniteSet(upTo(c, p))
               /\ Cardinality(upTo(c, p)) <= Cardinality(From(T, c))
    <3>1. From(T, c) \in SUBSET (1 .. n) /\ upTo(c, p) \in SUBSET From(T, c)
      BY DEF From
    <3>2. IsFiniteSet(From(T, c))
      BY <2>1, <3>1, FS_Subset
    <3>3. QED
      BY <3>1, <3>2, FS_Subset
  <2>3. QED
    BY <2>2
<1>2. /\ g \in Seq(Seq(C))
      /\ Len(g) = Cardinality(From(T, b))
      /\ \A p \in From(T, b) : g[Cardinality(upTo(b, p))] = cut[p]
  BY DEF InOrder
<1>3. /\ G \in Seq(Seq(C)) /\ Len(G) = Len(g) + 1 /\ G[1] = cut[a]
      /\ \A k \in 1 .. Len(g) : G[k + 1] = g[k]
  <2> DEFINE S == Seq(C)
             x == cut[a]
  <2>1. x \in S /\ g \in Seq(S)
    BY <1>2
  <2> HIDE DEF S, x
  <2>2. /\ Joined(x, g) \in Seq(S)
        /\ Len(Joined(x, g)) = Len(g) + 1
        /\ Joined(x, g)[1] = x
        /\ \A k \in 1 .. Len(g) : Joined(x, g)[k + 1] = g[k]
    BY ONLY <2>1, JoinedIs
  <2>3. QED
    BY <2>2 DEF S, x
<1> HIDE DEF G
<1>4. From(T, a) = From(T, b) \cup {a} /\ a \notin From(T, b)
  <2>1. \A q : q \in From(T, a) <=> q \in T /\ a <= q
    BY DEF From
  <2>2. \A q : q \in From(T, b) <=> q \in T /\ b <= q
    BY DEF From
  <2>3. \A q \in T : (a <= q <=> b <= q \/ q = a) /\ ~(b <= a)
    BY <1>0
  <2>4. QED
    BY <2>1, <2>2, <2>3
<1>5. Cardinality(From(T, a)) = Cardinality(From(T, b)) + 1
  <2>1. IsFiniteSet(From(T, b))
    BY <1>1
  <2>2. QED
    BY <1>4, <2>1, FS_AddElement
<1>6. ASSUME NEW p \in From(T, a)
      PROVE  G[Cardinality(upTo(a, p))] = cut[p]
  <2>1. CASE p = a
    <3>1. upTo(a, p) = {a}
      <4>1. \A q \in From(T, a) : q \in Nat /\ (q <= p <=> q = a)
        BY <1>0, <2>1 DEF From
      <4>2. a \in From(T, a)
        BY <1>4
      <4>3. QED
        BY <4>1, <4>2
    <3>2. Cardinality(upTo(a, p)) = 1
      BY <3>1, FS_Singleton
    <3>3. QED
      BY <1>3, <2>1, <3>2
  <2>2. CASE p # a
    <3>1. p \in From(T, b) /\ p \in Nat /\ b <= p
      BY <1>0, <1>4, <2>2 DEF From
    <3>2. upTo(a, p) = upTo(b, p) \cup {a} /\ a \notin upTo(b, p)
      BY <1>0, <1>4, <3>1
    <3>3. Cardinality(upTo(a, p)) = Cardinality(upTo(b, p)) + 1
      <4>1. IsFiniteSet(upTo(b, p))
        BY <1>1, <3>1
      <4> HIDE DEF upTo
      <4>2. QED
        BY <3>2, <4>1, FS_AddElement
    <3>4. Cardinality(upTo(b, p)) \in 1 .. Len(g)
      <4>1. p \in upTo(b, p)
        BY <3>1
      <4>2. IsFiniteSet(upTo(b, p)) /\ Cardinality(upTo(b, p)) <= Cardinality(From(T, b))
        BY <1>1, <3>1
      <4> HIDE DEF upTo
      <4>3. Cardinality(upTo(b, p)) \in Nat /\ Cardinality(upTo(b, p)) # 0
        BY <4>1, <4>2, FS_EmptySet, FS_CardinalityType
      <4>4. Len(g) \in Nat
        BY <1>2
      <4>5. QED
        BY <1>2, <4>2, <4>3, <4>4
    <3> HIDE DEF upTo, G
    <3>5. G[Cardinality(upTo(b, p)) + 1] = g[Cardinality(upTo(b, p))]
      BY <1>3, <3>4
    <3>6. QED
      BY <1>2, <3>1, <3>3, <3>5
  <2>3. QED
    BY <2>1, <2>2
<1>7. Len(G) = Cardinality(From(T, a))
  BY <1>2, <1>3, <1>5
<1> HIDE DEF G
<1>8. InOrder(G, C, T, cut, a)
  BY <1>3, <1>6, <1>7 DEF InOrder
<1>9. QED
  BY <1>8 DEF G

Starts(s, t) == {p \in Rest(s, t) : p - 1 \notin Rest(s, t)}

PieceEnd(s, t, p) == Max({q \in Rest(s, t) : p .. q \subseteq Rest(s, t)})

Cuts(s, t) == [p \in Starts(s, t) |-> SubSeq(s, p, PieceEnd(s, t, p))]

\* A longest stretch that no taken separator covers is one piece.
LEMMA WholePiece ==
  ASSUME NEW C, NEW s \in Seq(C), NEW t,
         NEW a \in 1 .. Len(s), NEW b \in a .. Len(s),
         a - 1 \notin Rest(s, t), b + 1 \notin Rest(s, t),
         \A x \in a .. b : x \in Rest(s, t)
  PROVE  /\ a \in Starts(s, t)
         /\ PieceEnd(s, t, a) = b
         /\ \A q \in Starts(s, t) : a <= q => q = a \/ b + 1 <= q
<1> DEFINE S == {q \in Rest(s, t) : a .. q \subseteq Rest(s, t)}
<1>0. Len(s) \in Nat /\ Rest(s, t) \subseteq 1 .. Len(s)
      /\ \A x \in Rest(s, t) : x \in Nat
  BY DEF Rest
<1>1. a \in Nat /\ b \in Nat /\ a <= b /\ a \in a .. b /\ b \in a .. b
  BY <1>0
<1>2. a \in Starts(s, t)
  BY <1>1 DEF Starts
<1>3. PieceEnd(s, t, a) = b
  <2>1. b \in S /\ S \in SUBSET Nat
    BY <1>0, <1>1
  <2>2. \A q \in S : q <= b
    <3>1. ASSUME NEW q \in S, b < q
          PROVE  FALSE
      <4>1. q \in Nat /\ b + 1 \in a .. q
        BY <1>0, <1>1, <3>1
      <4>2. QED
        BY <3>1, <4>1
    <3>2. QED
      BY <1>0, <1>1, <3>1
  <2> HIDE DEF S
  <2>3. Max(S) = b
    BY <2>1, <2>2, MaxIs
  <2>4. QED
    BY <2>3 DEF PieceEnd, S
<1>4. ASSUME NEW q \in Starts(s, t), a <= q, q # a, q <= b
      PROVE  FALSE
  <2>1. q \in Nat /\ q \in Rest(s, t) /\ q - 1 \notin Rest(s, t)
    BY <1>0 DEF Starts
  <2>2. q - 1 \in a .. b
    BY <1>1, <1>4, <2>1
  <2>3. QED
    BY <2>1, <2>2
<1>5. \A q \in Starts(s, t) : q \in Nat
  BY <1>0 DEF Starts
<1>6. QED
  BY <1>1, <1>2, <1>3, <1>4, <1>5

LEMMA CutType ==
  ASSUME NEW C, NEW s \in Seq(C), NEW t, NEW a \in Starts(s, t), NEW b \in 0 .. Len(s),
         PieceEnd(s, t, a) = b
  PROVE  Cuts(s, t)[a] = SubSeq(s, a, b) /\ Cuts(s, t)[a] \in Seq(C)
<1>1. a \in 1 .. Len(s) /\ Len(s) \in Nat
  BY DEF Starts, Rest
<1>2. SubSeq(s, a, b) \in Seq(C)
  BY <1>1
<1>3. QED
  BY <1>2 DEF Cuts

\* Whatever was cut off before a place, the pieces from there on are the
\* longest stretches from there on.
LEMMA SplitCuts ==
  ASSUME NEW C, NEW s \in Seq(C), NEW t \in Seq(C), t # <<>>,
         NEW f, Splitting(f, C, s, t)
  PROVE  \A prev \in 1 .. Len(s) + 1 :
           Reached(prev, s, t) /\ prev - 1 \notin Rest(s, t)
             => InOrder(f[prev], C, Starts(s, t), Cuts(s, t), prev)
<1> DEFINE D == 1 .. Len(s) + 1
           T == Starts(s, t)
           cut == Cuts(s, t)
           ordered(x) == InOrder(f[x], C, T, cut, x)
           fails(x) == Reached(x, s, t) /\ x - 1 \notin Rest(s, t) /\ ~ordered(x)
           Bad == {x \in D : fails(x)}
<1>0. Len(s) \in Nat /\ Len(t) \in Nat \ {0}
  OBVIOUS
<1>1. SUFFICES ASSUME Bad # {} PROVE FALSE
  OBVIOUS
<1>2. PICK prev \in D : /\ fails(prev)
                        /\ \A y \in D : Remaining(s)[y] < Remaining(s)[prev] => ~fails(y)
  <2> HIDE DEF fails
  <2>1. Bad \in SUBSET D /\ Remaining(s) \in [D -> Nat]
    BY RemainingType
  <2>2. PICK x \in Bad : \A y \in D : Remaining(s)[y] < Remaining(s)[x] => y \notin Bad
    <3> HIDE DEF Bad, D
    <3>1. QED
      BY <1>1, <2>1, SmallestPlace
  <2>3. QED
    BY <2>2
<1> HIDE DEF ordered, Bad
<1>3. Reached(prev, s, t) /\ prev - 1 \notin Rest(s, t) /\ ~ordered(prev)
  BY <1>2
<1>4. \A y \in D : prev < y /\ Reached(y, s, t) /\ y - 1 \notin Rest(s, t) => ordered(y)
  <2>1. \A y \in D : prev < y => Remaining(s)[y] < Remaining(s)[prev]
    BY <1>0 DEF Remaining
  <2>2. QED
    BY <1>2, <2>1
<1>5. (\A k \in D : f[k] \in Seq(Seq(C))) /\ f[prev] = SplitFrom(f, s, t, prev)
  BY DEF Splitting
<1> DEFINE p == Find(s, t, prev)
<1>6. /\ p = 0 => f[prev] = Piece(s, prev, Len(s))
      /\ p # 0 => f[prev] = Piece(s, prev, p - 1) \o f[After(p, t)]
  BY <1>5 DEF SplitFrom
<1>7. p = 0 \/ /\ p \in prev .. Len(s) /\ p \in 1 .. Len(s)
               /\ After(p, t) \in D /\ prev < After(p, t) /\ After(p, t) = p + Len(t)
  BY SearchGoesOn
<1>8. /\ \A x \in Rest(s, t) : x \in 1 .. Len(s)
      /\ T \in SUBSET (1 .. Len(s))
      /\ \A q \in T : q \in Rest(s, t) /\ q \in Nat
  BY <1>0 DEF Starts, Rest
<1>9. /\ p = 0 => \A x \in prev .. Len(s) : x \in Rest(s, t)
      /\ p # 0 => /\ \A x \in prev .. p - 1 : x \in Rest(s, t)
                  /\ \A x \in p .. After(p, t) - 1 : x \notin Rest(s, t)
                  /\ Reached(After(p, t), s, t)
  BY <1>3, BetweenTaken, NextTaken
<1> HIDE DEF fails, p, T, cut
<1>10. CASE p = 0 /\ prev = Len(s) + 1
  <2>1. \A q \in T : ~(prev <= q)
    BY <1>0, <1>8, <1>10
  <2>2. f[prev] = <<>>
    BY <1>0, <1>6, <1>10 DEF Piece
  <2>3. InOrder(<<>>, C, T, cut, prev)
    BY <2>1, NoneInOrder
  <2>4. QED
    BY <1>3, <2>2, <2>3 DEF ordered
<1>11. CASE p = 0 /\ prev # Len(s) + 1
  <2>1. prev \in 1 .. Len(s) /\ Len(s) \in prev .. Len(s) /\ Len(s) + 1 \notin Rest(s, t)
    BY <1>0, <1>8, <1>11
  <2>2. /\ prev \in T /\ PieceEnd(s, t, prev) = Len(s)
        /\ \A q \in T : prev <= q => q = prev \/ Len(s) + 1 <= q
    BY <1>3, <1>9, <1>11, <2>1, WholePiece DEF T
  <2>3. cut[prev] = SubSeq(s, prev, Len(s)) /\ cut[prev] \in Seq(C)
    BY <1>0, <2>1, <2>2, CutType DEF T, cut
  <2> DEFINE b == Len(s) + 1
             none == <<>>
  <2>4. \A q \in T : ~(b <= q)
    BY <1>0, <1>8
  <2>5. InOrder(none, C, T, cut, b)
    BY <2>4, NoneInOrder
  <2>6. InOrder(Joined(cut[prev], none), C, T, cut, prev)
    <3>1. b \in Nat /\ prev < b /\ \A q \in T : prev <= q => q = prev \/ b <= q
      BY <1>0, <2>1, <2>2
    <3> HIDE DEF b, none
    <3>2. QED
      BY <1>0, <1>8, <2>2, <2>3, <2>5, <3>1, OneMoreInOrder
  <2>7. f[prev] = Joined(cut[prev], <<>>)
    <3>1. f[prev] = <<SubSeq(s, prev, Len(s))>>
      BY <1>0, <1>6, <1>11, <2>1 DEF Piece
    <3>2. <<cut[prev]>> \o <<>> = <<cut[prev]>>
      BY <2>3
    <3>3. QED
      BY <2>3, <3>1, <3>2 DEF Joined
  <2>8. QED
    BY <1>3, <2>6, <2>7 DEF ordered
<1>12. CASE p # 0
  <2> DEFINE next == After(p, t)
  <2>1. /\ next \in D /\ next \in Nat /\ prev < next /\ p < next /\ p <= Len(s)
        /\ prev \in Nat /\ p \in Nat /\ prev <= p
    BY <1>0, <1>7, <1>12
  <2>2. next - 1 \notin Rest(s, t) /\ p \notin Rest(s, t)
    <3>1. next - 1 \in p .. next - 1 /\ p \in p .. next - 1
      BY <2>1
    <3>2. QED
      BY <1>9, <1>12, <3>1
  <2>3. InOrder(f[next], C, T, cut, next)
    <3>1. ordered(next)
      BY <1>4, <1>9, <1>12, <2>1, <2>2
    <3>2. QED
      BY <3>1 DEF ordered
  <2>4. \A q \in T : p <= q => next <= q
    <3>1. ASSUME NEW q \in T, p <= q, q < next
          PROVE  FALSE
      <4>1. q \in p .. next - 1 /\ q \in Rest(s, t)
        BY <1>8, <2>1, <3>1
      <4>2. QED
        BY <1>9, <1>12, <4>1
    <3>2. QED
      BY <1>8, <2>1, <3>1
  <2>5. f[next] \in Seq(Seq(C)) /\ f[prev] = Piece(s, prev, p - 1) \o f[next]
    BY <1>5, <1>6, <1>12, <2>1
  <2> HIDE DEF next
  <2>6. CASE prev = p
    <3>1. \A q \in T : prev <= q <=> next <= q
      BY <1>8, <2>1, <2>4, <2>6
    <3>2. f[prev] = f[next]
      <4>1. Piece(s, prev, p - 1) = <<>>
        BY <2>1, <2>6 DEF Piece
      <4>2. <<>> \o f[next] = f[next]
        BY <2>5, ConcatEmptySeq
      <4>3. QED
        BY <2>5, <4>1, <4>2
    <3>3. InOrder(f[next], C, T, cut, prev)
      BY <2>3, <3>1, SameInOrder
    <3>4. QED
      BY <1>3, <3>2, <3>3 DEF ordered
  <2>7. CASE prev < p
    <3>1. prev \in 1 .. Len(s) /\ p - 1 \in prev .. Len(s) /\ p - 1 \in 0 .. Len(s)
          /\ (p - 1) + 1 = p
      BY <1>0, <2>1, <2>7
    <3>2. /\ prev \in T /\ PieceEnd(s, t, prev) = p - 1
          /\ \A q \in T : prev <= q => q = prev \/ p <= q
      <4> DEFINE b == p - 1
      <4>1. b \in prev .. Len(s) /\ b + 1 = p /\ b + 1 \notin Rest(s, t)
            /\ \A x \in prev .. b : x \in Rest(s, t)
        BY <1>9, <1>12, <2>2, <3>1
      <4> HIDE DEF b
      <4>2. /\ prev \in Starts(s, t) /\ PieceEnd(s, t, prev) = b
            /\ \A q \in Starts(s, t) : prev <= q => q = prev \/ b + 1 <= q
        BY <1>3, <3>1, <4>1, WholePiece
      <4>3. QED
        BY <4>1, <4>2 DEF T, b
    <3>3. cut[prev] = SubSeq(s, prev, p - 1) /\ cut[prev] \in Seq(C)
      BY <3>1, <3>2, CutType DEF T, cut
    <3>4. \A q \in T : prev <= q => q = prev \/ next <= q
      BY <2>4, <3>2
    <3>5. InOrder(Joined(cut[prev], f[next]), C, T, cut, prev)
      BY <1>0, <1>8, <2>1, <2>3, <3>2, <3>3, <3>4, OneMoreInOrder
    <3>6. f[prev] = Joined(cut[prev], f[next])
      <4>1. Piece(s, prev, p - 1) = <<cut[prev]>>
        BY <2>1, <2>7, <3>1, <3>3 DEF Piece
      <4>2. QED
        BY <2>5, <4>1 DEF Joined
    <3>7. QED
      BY <1>3, <3>5, <3>6 DEF ordered
  <2>8. QED
    BY <2>1, <2>6, <2>7
<1>13. QED
  BY <1>10, <1>11, <1>12

LEMMA EmptySeparatorCoversNothing ==
  ASSUME NEW C, NEW s \in Seq(C), s # <<>>
  PROVE  Starts(s, <<>>) = {1} /\ PieceEnd(s, <<>>, 1) = Len(s)
<1> DEFINE all == Occurrences(s, <<>>)
           lone(took) == \A p \in all :
                           p \in took <=> ~\E q \in took : q < p /\ p < q + Len(<<>>)
<1>0. Len(s) \in Nat \ {0} /\ Len(<<>>) = 0 /\ all \subseteq 1 .. Len(s)
  BY DEF Occurrences
<1>1. Taken(s, <<>>) \in SUBSET all
  <2>1. lone(all)
    BY <1>0
  <2>2. Taken(s, <<>>) = CHOOSE took \in SUBSET all : lone(took)
    BY DEF Taken, Occurrences
  <2> HIDE DEF lone, all
  <2>3. QED
    BY <2>1, <2>2
<1>2. Rest(s, <<>>) = 1 .. Len(s)
  <2>1. \A q \in Taken(s, <<>>) : q \in Nat
    BY <1>0, <1>1
  <2>2. \A q \in Taken(s, <<>>) : q .. q + Len(<<>>) - 1 = {}
    BY <1>0, <2>1
  <2>3. QED
    BY <2>2 DEF Rest
<1>3. \A a \in Starts(s, <<>>) : a = 1
  BY <1>0, <1>2 DEF Starts
<1>4. 1 \in Starts(s, <<>>) /\ PieceEnd(s, <<>>, 1) = Len(s)
  <2>1. /\ 1 \in 1 .. Len(s) /\ Len(s) \in 1 .. Len(s)
        /\ 1 - 1 \notin Rest(s, <<>>) /\ Len(s) + 1 \notin Rest(s, <<>>)
        /\ \A x \in 1 .. Len(s) : x \in Rest(s, <<>>)
    BY <1>0, <1>2
  <2>2. QED
    BY <2>1, WholePiece
<1>5. QED
  BY <1>3, <1>4

LEMMA TypedSplitIsReference == Typed => SplitIsReference
<1> SUFFICES ASSUME Typed, use = "split"
             PROVE  /\ Len(SplitString(str, arg)) = Cardinality(Starts(str, arg))
                    /\ \A p \in Starts(str, arg) :
                         SplitString(str, arg)[Cardinality({q \in Starts(str, arg) : q <= p})]
                           = SubSeq(str, p, PieceEnd(str, arg, p))
  BY DEF SplitIsReference, Starts, PieceEnd
<1> DEFINE C == StrChars[use] \cup ArgChars[use]
           T == Starts(str, arg)
<1>1. str \in Seq(C) /\ arg \in Seq(C) /\ Len(str) \in Nat
  BY SeqMonotonic DEF Typed
<1> HIDE DEF C
<1>2. T \in SUBSET (1 .. Len(str)) /\ 0 \notin Rest(str, arg)
  BY <1>1 DEF Starts, Rest
<1>3. CASE str = <<>>
  <2>1. Len(str) = 0 /\ T = {}
    BY <1>1, <1>2, <1>3
  <2>2. SplitString(str, arg) = <<>>
    BY <1>3 DEF SplitString
  <2>3. QED
    BY <2>1, <2>2, FS_EmptySet
<1>4. CASE str # <<>> /\ arg = <<>>
  <2>1. SplitString(str, arg) = <<str>>
    BY <1>4 DEF SplitString
  <2>2. T = {1} /\ PieceEnd(str, arg, 1) = Len(str)
    BY <1>1, <1>4, EmptySeparatorCoversNothing
  <2>3. SubSeq(str, 1, Len(str)) = str
    BY <1>1
  <2> HIDE DEF T
  <2>4. Cardinality({1}) = 1 /\ {q \in {1} : q <= 1} = {1}
    BY FS_Singleton
  <2>5. Len(<<str>>) = 1 /\ <<str>>[1] = str
    OBVIOUS
  <2>6. Len(SplitString(str, arg)) = Cardinality(T)
    BY <2>1, <2>2, <2>4, <2>5
  <2>7. ASSUME NEW p \in T
        PROVE  SplitString(str, arg)[Cardinality({q \in T : q <= p})]
                 = SubSeq(str, p, PieceEnd(str, arg, p))
    <3>1. p = 1 /\ Cardinality({q \in T : q <= p}) = 1
      BY <2>2, <2>4, <2>7
    <3>2. SubSeq(str, p, PieceEnd(str, arg, p)) = str
      BY <2>2, <2>3, <3>1
    <3>3. QED
      BY <2>1, <2>5, <3>1, <3>2
  <2>8. QED
    BY <2>6, <2>7 DEF T
<1>5. CASE str # <<>> /\ arg # <<>>
  <2>1. PICK f : Splitting(f, C, str, arg) /\ SplitString(str, arg) = f[1]
    BY <1>1, <1>5, SplitFunction
  <2>2. Reached(1, str, arg) /\ 1 \in 1 .. Len(str) + 1 /\ 1 - 1 \notin Rest(str, arg)
    BY <1>1, <1>2, <1>5, StartReached
  <2>3. InOrder(f[1], C, T, Cuts(str, arg), 1)
    BY <1>1, <1>5, <2>1, <2>2, SplitCuts
  <2>4. From(T, 1) = T
    BY <1>1, <1>2 DEF From
  <2> HIDE DEF T
  <2>5. /\ Len(f[1]) = Cardinality(T)
        /\ \A p \in T : f[1][Cardinality({q \in T : q <= p})] = Cuts(str, arg)[p]
    BY <2>3, <2>4 DEF InOrder
  <2>6. \A p \in T : Cuts(str, arg)[p] = SubSeq(str, p, PieceEnd(str, arg, p))
    BY DEF Cuts, T
  <2>7. QED
    BY <2>1, <2>5, <2>6 DEF T
<1>6. QED
  BY <1>3, <1>4, <1>5

\* For texts and separators of every length: split_string returns the longest
\* stretches that no separator taken from the left covers, all of them, in
\* their order, and none of them empty; the empty separator covers nothing
\* (log.cpp 269-297).
THEOREM PiecesAreTheStretches == TextSpec => []SplitIsReference
BY TypedSplitIsReference, TypesHold, PTL

-----------------------------------------------------------------------------
(* Paths.                                                                  *)

\* rfind returns the last place of a character.
LEMMA RFindLast ==
  ASSUME NEW C, NEW s \in Seq(C), NEW c
  PROVE  /\ RFind(s, c) \in 0 .. Len(s)
         /\ RFind(s, c) # 0 => s[RFind(s, c)] = c
         /\ \A q \in 1 .. Len(s) : RFind(s, c) < q => s[q] # c
<1> DEFINE found == {p \in 1 .. Len(s) : s[p] = c}
<1>0. Len(s) \in Nat
  OBVIOUS
<1>1. RFind(s, c) = IF found = {} THEN 0 ELSE Max(found)
  BY DEF RFind
<1>2. CASE found = {}
  BY <1>0, <1>1, <1>2
<1>3. CASE found # {}
  <2>1. found \in SUBSET (0 .. Len(s))
    BY <1>0
  <2>2. Max(found) \in found /\ \A k \in found : k <= Max(found)
    <3> HIDE DEF found
    <3>1. QED
      BY <1>0, <1>3, <2>1, MaxOf
  <2> DEFINE r == Max(found)
  <2>3. RFind(s, c) = r
    BY <1>1, <1>3
  <2>4. \A q : q \in found <=> q \in 1 .. Len(s) /\ s[q] = c
    OBVIOUS
  <2>5. r \in found /\ \A k \in found : k <= r
    BY <2>2
  <2> HIDE DEF found, r
  <2>6. r \in 1 .. Len(s) /\ s[r] = c
    BY <2>4, <2>5
  <2>7. \A q \in 1 .. Len(s) : r < q => s[q] # c
    BY <1>0, <2>4, <2>5, <2>6
  <2>8. QED
    BY <1>0, <2>3, <2>6, <2>7
<1>4. QED
  BY <1>2, <1>3

\* A piece of a text, character by character.
LEMMA PieceOf ==
  ASSUME NEW C, NEW s \in Seq(C), NEW a \in 0 .. Len(s), NEW b \in a .. Len(s),
         NEW x, x = SubSeq(s, a + 1, b)
  PROVE  /\ x \in Seq(C) /\ Len(x) = b - a
         /\ \A k \in 1 .. b - a : x[k] = s[a + k] /\ a + k \in 1 .. Len(s)
<1>0. Len(s) \in Nat /\ a \in Nat /\ b \in Nat /\ a <= b /\ b <= Len(s)
  OBVIOUS
<1>1. x \in Seq(C) /\ Len(x) = b - a
  BY <1>0, SubSeqProperties
<1>2. \A k \in 1 .. b - a : x[k] = s[a + k] /\ a + k \in 1 .. Len(s)
  BY <1>0
<1>3. QED
  BY <1>1, <1>2

LEMMA SameText ==
  ASSUME NEW C, NEW x \in Seq(C), NEW y \in Seq(C), Len(x) = Len(y),
         \A k \in 1 .. Len(x) : x[k] = y[k]
  PROVE  x = y
BY SeqEqual

LEMMA Lacks ==
  ASSUME NEW C, NEW x \in Seq(C), NEW c, \A k \in 1 .. Len(x) : x[k] # c
  PROVE  c \notin ToSet(x)
BY DEF ToSet

LEMMA PathOfParts ==
  ASSUME NEW C, NEW path \in Seq(C), path # <<>>
  PROVE  LET name == FileName(path, TRUE)
             stem == FileName(path, FALSE)
             suffix == SubSeq(name, Len(stem) + 1, Len(name))
         IN /\ (IF "/" \in ToSet(path) THEN Directory(path) ELSE <<>>) \o name = path
            /\ "/" \notin ToSet(name)
            /\ IsPrefix(stem, name)
            /\ name # <<>> => stem # <<>>
            /\ suffix = <<>> /\ name # <<>> => "." \notin ToSet(Tail(name))
            /\ suffix # <<>> => Head(suffix) = "." /\ "." \notin ToSet(Tail(suffix))
<1> DEFINE n == Len(path)
           r == RFind(path, "/")
           u == RFind(path, ".")
           e == SuffixAt(path)
           name == FileName(path, TRUE)
           stem == FileName(path, FALSE)
           suffix == SubSeq(name, Len(stem) + 1, Len(name))
<1>1. /\ n \in Nat /\ r \in 0 .. n /\ u \in 0 .. n
      /\ r # 0 => path[r] = "/"
      /\ u # 0 => path[u] = "."
      /\ \A q \in 1 .. n : r < q => path[q] # "/"
      /\ \A q \in 1 .. n : u < q => path[q] # "."
  BY RFindLast
<1>2. e = IF u <= r + 1 THEN n + 1 ELSE u
  BY DEF SuffixAt
<1>3. name = SubSeq(path, r + 1, n) /\ stem = SubSeq(path, r + 1, e - 1)
  BY DEF FileName
<1>4. "/" \in ToSet(path) <=> r # 0
  <2>1. ASSUME r # 0 PROVE "/" \in ToSet(path)
    BY <1>1, <2>1 DEF ToSet
  <2>2. ASSUME r = 0 PROVE "/" \notin ToSet(path)
    <3>1. \A k \in 1 .. Len(path) : path[k] # "/"
      BY <1>1, <2>2
    <3>2. QED
      BY <3>1, Lacks
  <2>3. QED
    BY <2>1, <2>2
<1>5. Directory(path) = IF r = 0 THEN <<".">> ELSE SubSeq(path, 1, r)
  BY DEF Directory
<1>6. /\ r \in Nat /\ u \in Nat /\ e \in Nat /\ e - 1 \in r .. n
      /\ e = n + 1 => u <= r + 1
      /\ e # n + 1 => e = u /\ r + 1 < u /\ u <= n
      /\ r < n => r < e - 1
  BY <1>1, <1>2
<1> HIDE DEF n, r, u, e, name, stem
<1>7. /\ name \in Seq(C) /\ Len(name) = n - r
      /\ \A k \in 1 .. n - r : name[k] = path[r + k] /\ r + k \in 1 .. n
  <2>1. n \in r .. n
    BY <1>1
  <2>2. QED
    BY <1>1, <1>3, <2>1, PieceOf DEF n
<1>8. /\ stem \in Seq(C) /\ Len(stem) = (e - 1) - r
      /\ \A k \in 1 .. (e - 1) - r : stem[k] = path[r + k]
  <2> DEFINE b == e - 1
  <2>1. b \in r .. n
    BY <1>6
  <2>2. stem = SubSeq(path, r + 1, b)
    BY <1>3
  <2> HIDE DEF b
  <2>3. /\ stem \in Seq(C) /\ Len(stem) = b - r
        /\ \A k \in 1 .. b - r : stem[k] = path[r + k]
    BY <1>1, <2>1, <2>2, PieceOf DEF n
  <2>4. QED
    BY <2>3 DEF b
<1>9. /\ suffix \in Seq(C) /\ Len(suffix) = n + 1 - e
      /\ \A k \in 1 .. n + 1 - e : suffix[k] = path[(e - 1) + k] /\ (e - 1) + k \in 1 .. n
  <2>1. Len(stem) \in 0 .. Len(name) /\ Len(name) \in Len(stem) .. Len(name)
    BY <1>1, <1>6, <1>7, <1>8
  <2>2. /\ suffix \in Seq(C) /\ Len(suffix) = Len(name) - Len(stem)
        /\ \A k \in 1 .. Len(name) - Len(stem) : suffix[k] = name[Len(stem) + k]
    BY <1>7, <2>1, PieceOf
  <2>3. Len(name) - Len(stem) = n + 1 - e
    BY <1>6, <1>7, <1>8, <1>1
  <2>4. \A k \in 1 .. n + 1 - e : /\ Len(stem) + k \in 1 .. n - r
                                  /\ r + (Len(stem) + k) = (e - 1) + k
                                  /\ (e - 1) + k \in 1 .. n
    BY <1>1, <1>6, <1>7, <1>8
  <2> HIDE DEF suffix
  <2>5. QED
    BY <1>7, <2>2, <2>3, <2>4
<1> HIDE DEF suffix
<1>10. (IF "/" \in ToSet(path) THEN Directory(path) ELSE <<>>) \o name = path
  <2>1. CASE r = 0
    <3>1. name = path
      BY <1>1, <1>7, <2>1, SameText DEF n
    <3>2. QED
      BY <1>4, <1>7, <2>1, <3>1, ConcatEmptySeq
  <2>2. CASE r # 0
    <3> DEFINE dir == SubSeq(path, 0 + 1, r)
    <3>1. 0 \in 0 .. n /\ r \in 0 .. n
      BY <1>1
    <3>2. /\ dir \in Seq(C) /\ Len(dir) = r - 0
          /\ \A k \in 1 .. r - 0 : dir[k] = path[0 + k]
      BY <3>1, PieceOf DEF n
    <3>3. Directory(path) = dir /\ "/" \in ToSet(path)
      <4>1. Directory(path) = SubSeq(path, 1, r)
        BY <1>5, <2>2, Zenon
      <4>2. dir = SubSeq(path, 1, r)
        OBVIOUS
      <4>3. QED
        BY <1>4, <2>2, <4>1, <4>2, Zenon
    <3>4. Len(dir) = r /\ \A k \in 1 .. r : dir[k] = path[k]
      BY <1>6, <3>2
    <3> HIDE DEF dir
    <3>5. /\ dir \o name \in Seq(C) /\ Len(dir \o name) = n
          /\ \A k \in 1 .. n : (dir \o name)[k] = IF k <= r THEN dir[k] ELSE name[k - r]
      <4>1. r + (n - r) = n
        BY <1>1, <1>6
      <4>2. /\ dir \o name \in Seq(C) /\ Len(dir \o name) = Len(dir) + Len(name)
            /\ \A k \in 1 .. Len(dir) + Len(name) :
                 (dir \o name)[k] = IF k <= Len(dir) THEN dir[k] ELSE name[k - Len(dir)]
        BY <1>7, <3>2, ConcatProperties
      <4>3. QED
        BY <1>7, <3>4, <4>1, <4>2
    <3>6. \A k \in 1 .. n : (dir \o name)[k] = path[k]
      <4>1. \A k \in 1 .. n : ~(k <= r) => k - r \in 1 .. n - r /\ r + (k - r) = k
        BY <1>1, <1>6
      <4>2. \A k \in 1 .. n : k <= r => k \in 1 .. r
        BY <1>6
      <4>3. QED
        BY <1>7, <3>4, <3>5, <4>1, <4>2
    <3>7. dir \o name = path
      <4> DEFINE both == dir \o name
      <4>1. both \in Seq(C) /\ Len(both) = Len(path) /\ \A k \in 1 .. Len(both) : both[k] = path[k]
        BY <3>5, <3>6 DEF n
      <4> HIDE DEF both
      <4>2. both = path
        BY <4>1, SameText
      <4>3. QED
        BY <4>2 DEF both
    <3>8. QED
      BY <3>3, <3>7
  <2>3. QED
    BY <2>1, <2>2
<1>11. "/" \notin ToSet(name)
  <2>1. \A k \in 1 .. Len(name) : k \in 1 .. n - r /\ r < r + k
    BY <1>1, <1>6, <1>7
  <2>2. \A k \in 1 .. Len(name) : name[k] = path[r + k] /\ path[r + k] # "/"
    BY <1>1, <1>7, <2>1
  <2>3. QED
    BY <1>7, <2>2, Lacks
<1>12. IsPrefix(stem, name)
  <2>1. Len(stem) <= Len(name)
    BY <1>1, <1>6, <1>7, <1>8
  <2>2. \A k \in 1 .. Len(stem) : stem[k] = name[k]
    BY <1>1, <1>6, <1>7, <1>8
  <2> DEFINE front == SubSeq(name, 1, Len(stem))
  <2>3. front \in Seq(C) /\ Len(front) = Len(stem)
        /\ \A k \in 1 .. Len(stem) : front[k] = name[k]
    BY <1>7, <1>8, <2>1
  <2> HIDE DEF front
  <2>4. front = stem
    BY <1>8, <2>2, <2>3, SameText
  <2>5. SubSeq(stem, 1, Len(stem)) = stem
    BY <1>8, SubSeqFull
  <2>6. QED
    BY <2>1, <2>4, <2>5 DEF IsPrefix, front
<1>13. name # <<>> => stem # <<>>
  <2>1. name # <<>> => Len(name) # 0
    BY <1>7
  <2>2. Len(stem) # 0 => stem # <<>>
    OBVIOUS
  <2>3. QED
    BY <1>1, <1>6, <1>7, <1>8, <2>1, <2>2
<1>14. ASSUME suffix = <<>>, name # <<>>
       PROVE  "." \notin ToSet(Tail(name))
  <2>1. e = n + 1
    BY <1>1, <1>6, <1>9, <1>14
  <2>2. /\ Tail(name) \in Seq(C) /\ Len(Tail(name)) = Len(name) - 1
        /\ \A k \in 1 .. Len(name) - 1 : Tail(name)[k] = name[k + 1]
    BY <1>7, <1>14
  <2>3. \A k \in 1 .. Len(name) - 1 : /\ k + 1 \in 1 .. n - r
                                      /\ u < r + (k + 1)
    BY <1>1, <1>6, <1>7, <2>1
  <2>4. \A k \in 1 .. Len(name) - 1 : name[k + 1] # "."
    <3>1. ASSUME NEW k \in 1 .. Len(name) - 1
          PROVE  name[k + 1] # "."
      <4>1. name[k + 1] = path[r + (k + 1)] /\ r + (k + 1) \in 1 .. n
        BY <1>7, <2>3
      <4>2. QED
        BY <1>1, <2>3, <4>1
    <3>2. QED
      BY <3>1
  <2>5. \A k \in 1 .. Len(Tail(name)) : Tail(name)[k] # "."
    BY <2>2, <2>4
  <2>6. QED
    BY <2>2, <2>5, Lacks
<1>15. ASSUME suffix # <<>>
       PROVE  Head(suffix) = "." /\ "." \notin ToSet(Tail(suffix))
  <2>1. Len(suffix) # 0
    BY <1>9, <1>15
  <2>2. e = u /\ e # n + 1 /\ u # 0 /\ 1 \in 1 .. n + 1 - e /\ (e - 1) + 1 = u
    BY <1>1, <1>6, <1>9, <2>1
  <2>3. suffix[1] = "."
    BY <1>1, <1>9, <2>2
  <2>4. /\ Head(suffix) = suffix[1]
        /\ Tail(suffix) \in Seq(C) /\ Len(Tail(suffix)) = Len(suffix) - 1
        /\ \A k \in 1 .. Len(suffix) - 1 : Tail(suffix)[k] = suffix[k + 1]
    BY <1>9, <1>15
  <2>5. \A k \in 1 .. Len(suffix) - 1 : k + 1 \in 1 .. n + 1 - e /\ u < (e - 1) + (k + 1)
    BY <1>1, <1>6, <1>9, <2>2
  <2>6. \A k \in 1 .. Len(Tail(suffix)) : Tail(suffix)[k] # "."
    BY <1>1, <1>9, <2>4, <2>5
  <2>7. "." \notin ToSet(Tail(suffix))
    BY <2>4, <2>6, Lacks
  <2>8. QED
    BY <2>3, <2>4, <2>7
<1>16. QED
  BY <1>10, <1>11, <1>12, <1>13, <1>14, <1>15 DEF name, stem, suffix

LEMMA TypedPathParts == Typed => PathParts
BY PathOfParts DEF Typed, PathParts

\* For arguments of every length, empty ones included: the helpers that cut
\* texts and put them together lose and invent no character, and a file's path
\* is the directory and the name they take it apart into; the one call that
\* does not is replace_string with an empty token, which never returns
\* (log.cpp 185-203 and 269-343).
THEOREM TextsAreKept == TextSpec => []TextsKept
<1>1. Typed => TextsKept
  BY TypedSplitIsReference, TypedReplaceFits, TypedPathParts DEF TextsKept
<1>2. QED
  BY <1>1, TypesHold, PTL

-----------------------------------------------------------------------------
(* Documents.  The tree of a document is read off the depths of its nodes; *)
(* TraversalNode goes down it, and is shown to visit the nodes in the      *)
(* order of the text.                                                      *)

Leaves == [depth : Nat, key : VarNames, kind : {"null", "seq", "map", "scalar"},
           text : Scalars \cup {""}]

IsParent(p, n) ==
  /\ Depth(n) = Depth(p) + 1
  /\ \A k \in p + 1 .. n - 1 : Depth(k) > Depth(p)

\* The first node is the root, and every other one has a parent before it.
Document ==
  /\ doc \in Seq(Leaves)
  /\ Len(doc) \in 1 .. MaxNodes
  /\ Depth(1) = 0
  /\ \A n \in 2 .. Len(doc) : \E p \in 1 .. n - 1 : IsParent(p, n)

LEMMA DocumentPlaces ==
  ASSUME Document
  PROVE  /\ Len(doc) \in Nat \ {0} /\ Nodes = 1 .. Len(doc)
         /\ \A n \in 1 .. Len(doc) : Depth(n) \in Nat
<1>1. Len(doc) \in Nat \ {0} /\ Nodes = 1 .. Len(doc) /\ doc \in Seq(Leaves)
  <2>1. doc \in Seq(Leaves) /\ Len(doc) \in 1 .. MaxNodes
    BY DEF Document
  <2>2. QED
    BY <2>1 DEF Nodes
<1>2. \A n \in 1 .. Len(doc) : doc[n] \in Leaves
  BY <1>1
<1>3. \A n \in 1 .. Len(doc) : doc[n].depth \in Nat
  BY <1>2 DEF Leaves
<1>4. QED
  BY <1>1, <1>3 DEF Depth

LEMMA KidsAre ==
  ASSUME Document, NEW n \in 1 .. Len(doc), NEW k \in Kids(n)
  PROVE  /\ k \in n + 1 .. Len(doc) /\ k \in 2 .. Len(doc) /\ n < k
         /\ Depth(k) = Depth(n) + 1
         /\ \A j \in n + 1 .. k : Depth(j) > Depth(n)
BY DocumentPlaces DEF Kids

LEMMA IsKid ==
  ASSUME Document, NEW n \in 1 .. Len(doc), NEW k \in n + 1 .. Len(doc), IsParent(n, k)
  PROVE  k \in Kids(n)
<1>1. Len(doc) \in Nat /\ n \in Nat /\ k \in Nat /\ n < k /\ k <= Len(doc)
  BY DocumentPlaces
<1>2. Depth(k) \in Nat /\ Depth(n) \in Nat
  BY <1>1, DocumentPlaces
<1>3. \A j \in n + 1 .. k : j = k \/ j \in n + 1 .. k - 1
  BY <1>1
<1>4. \A j \in n + 1 .. k : Depth(j) > Depth(n)
  BY <1>2, <1>3 DEF IsParent
<1>5. QED
  BY <1>4 DEF Kids, IsParent

LEMMA ParentIs ==
  ASSUME Document, NEW p \in 1 .. Len(doc), NEW n \in p + 1 .. Len(doc), IsParent(p, n)
  PROVE  Parent(n) = p
<1> DEFINE S == {m \in 1 .. n - 1 : Depth(m) = Depth(n) - 1}
<1>1. Len(doc) \in Nat /\ p \in Nat /\ n \in Nat /\ p < n /\ n <= Len(doc)
  BY DocumentPlaces
<1>2. \A m \in 1 .. n : Depth(m) \in Nat
  BY <1>1, DocumentPlaces
<1>3. p \in S /\ S \in SUBSET Nat
  BY <1>1, <1>2 DEF IsParent
<1>4. ASSUME NEW m \in S, p < m
      PROVE  FALSE
  <2>1. m \in p + 1 .. n - 1 /\ m \in 1 .. n /\ p \in 1 .. n
    BY <1>1, <1>4
  <2>2. Depth(m) > Depth(p) /\ Depth(m) = Depth(n) - 1 /\ Depth(n) = Depth(p) + 1
    BY <1>4, <2>1 DEF IsParent
  <2>3. QED
    BY <1>2, <2>1, <2>2
<1>5. \A m \in S : m <= p
  BY <1>1, <1>4
<1> HIDE DEF S
<1>6. Max(S) = p
  BY <1>3, <1>5, MaxIs
<1>7. QED
  BY <1>6 DEF Parent, S

LEMMA KidParent ==
  ASSUME Document, NEW n \in 1 .. Len(doc), NEW k \in Kids(n)
  PROVE  Parent(k) = n
<1>1. k \in n + 1 .. Len(doc)
  BY KidsAre
<1>2. n \in Nat /\ k \in Nat
  BY <1>1, DocumentPlaces
<1>3. IsParent(n, k)
  BY <1>2, KidsAre DEF IsParent
<1>4. QED
  BY <1>1, <1>3, ParentIs

LEMMA HasParent ==
  ASSUME Document, NEW n \in 2 .. Len(doc)
  PROVE  /\ Parent(n) \in 1 .. n - 1 /\ Parent(n) \in 1 .. Len(doc)
         /\ n \in Kids(Parent(n))
         /\ Depth(n) = Depth(Parent(n)) + 1
<1>1. PICK p \in 1 .. n - 1 : IsParent(p, n)
  BY DEF Document
<1>2. p \in 1 .. Len(doc) /\ n \in p + 1 .. Len(doc)
  BY DocumentPlaces
<1>3. Parent(n) = p
  BY <1>1, <1>2, ParentIs
<1>4. n \in Kids(p)
  BY <1>1, <1>2, IsKid
<1>5. QED
  BY <1>1, <1>2, <1>3, <1>4 DEF IsParent

-----------------------------------------------------------------------------
(* The nodes below a node are those up to its end.                         *)

End(n) == Max({e \in n .. Len(doc) : \A k \in n + 1 .. e : Depth(k) > Depth(n)})

LEMMA EndIs ==
  ASSUME Document, NEW n \in 1 .. Len(doc)
  PROVE  /\ End(n) \in n .. Len(doc)
         /\ \A k \in n + 1 .. End(n) : Depth(k) > Depth(n)
         /\ \A e \in n .. Len(doc) : (\A k \in n + 1 .. e : Depth(k) > Depth(n)) => e <= End(n)
<1> DEFINE S == {e \in n .. Len(doc) : \A k \in n + 1 .. e : Depth(k) > Depth(n)}
<1>1. Len(doc) \in Nat /\ n \in Nat
  BY DocumentPlaces
<1>2. n \in S /\ S \in SUBSET (0 .. Len(doc)) /\ S # {}
  BY <1>1
<1>3. \A e : e \in S <=> e \in n .. Len(doc) /\ \A k \in n + 1 .. e : Depth(k) > Depth(n)
  OBVIOUS
<1> HIDE DEF S
<1>4. Max(S) \in S /\ \A e \in S : e <= Max(S)
  BY <1>1, <1>2, MaxOf
<1>5. End(n) = Max(S)
  BY DEF End, S
<1>6. QED
  BY <1>3, <1>4, <1>5

LEMMA EndStops ==
  ASSUME Document, NEW n \in 1 .. Len(doc), End(n) # Len(doc)
  PROVE  End(n) + 1 \in 1 .. Len(doc) /\ Depth(End(n) + 1) <= Depth(n)
<1>1. Len(doc) \in Nat /\ n \in Nat /\ End(n) \in n .. Len(doc)
  BY DocumentPlaces, EndIs
<1> DEFINE e == End(n) + 1
<1>2. e \in n .. Len(doc) /\ e \in 1 .. Len(doc) /\ ~(e <= End(n))
  BY <1>1
<1>3. \A k \in n + 1 .. e : k = e \/ k \in n + 1 .. End(n)
  BY <1>1
<1>4. Depth(e) \in Nat /\ Depth(n) \in Nat
  BY <1>2, DocumentPlaces
<1> HIDE DEF e
<1>5. PICK k \in n + 1 .. e : ~(Depth(k) > Depth(n))
  BY <1>2, EndIs
<1>6. k = e
  BY <1>3, <1>5, EndIs
<1>7. QED
  BY <1>2, <1>4, <1>5, <1>6 DEF e

LEMMA KidEnds ==
  ASSUME Document, NEW n \in 1 .. Len(doc), NEW k \in Kids(n)
  PROVE  /\ k <= End(n) /\ End(k) <= End(n)
         /\ \A j \in Kids(n) : k < j => End(k) < j
<1>0. Len(doc) \in Nat /\ n \in Nat /\ k \in n + 1 .. Len(doc) /\ k \in 1 .. Len(doc)
  BY DocumentPlaces, KidsAre
<1>1. /\ End(k) \in k .. Len(doc) /\ End(n) \in n .. Len(doc)
      /\ \A j \in k + 1 .. End(k) : Depth(j) > Depth(k)
  BY <1>0, EndIs
<1>2. /\ Depth(k) = Depth(n) + 1 /\ Depth(n) \in Nat
      /\ \A j \in n + 1 .. k : Depth(j) > Depth(n)
      /\ \A j \in 1 .. Len(doc) : Depth(j) \in Nat
  BY <1>0, KidsAre, DocumentPlaces
<1>3. End(k) \in n .. Len(doc) /\ \A j \in n + 1 .. End(k) : Depth(j) > Depth(n)
  <2>1. ASSUME NEW j \in n + 1 .. End(k)
        PROVE  Depth(j) > Depth(n)
    <3>1. j \in 1 .. Len(doc) /\ (j \in n + 1 .. k \/ j \in k + 1 .. End(k))
      BY <1>0, <1>1
    <3>2. QED
      BY <1>1, <1>2, <3>1
  <2>2. QED
    BY <1>0, <1>1, <2>1
<1>4. End(k) <= End(n)
  BY <1>3, EndIs
<1>5. ASSUME NEW j \in Kids(n), k < j, ~(End(k) < j)
      PROVE  FALSE
  <2>1. j \in n + 1 .. Len(doc) /\ Depth(j) = Depth(n) + 1
    BY KidsAre
  <2>2. j \in k + 1 .. End(k)
    BY <1>0, <1>1, <1>5, <2>1
  <2>3. QED
    BY <1>1, <1>2, <2>1, <2>2
<1>6. QED
  BY <1>0, <1>1, <1>4, <1>5

\* Behind the node itself, and behind the end of each child, comes the next.
LEMMA NextKid ==
  ASSUME Document, NEW n \in 1 .. Len(doc),
         NEW e, e = n \/ \E k \in Kids(n) : e = End(k), e < End(n)
  PROVE  e + 1 \in Kids(n)
<1>0. Len(doc) \in Nat /\ n \in Nat /\ End(n) \in n .. Len(doc) /\ Depth(n) \in Nat
      /\ \A j \in 1 .. Len(doc) : Depth(j) \in Nat
  BY DocumentPlaces, EndIs
<1>1. CASE e = n
  <2>1. n + 1 \in 2 .. Len(doc) /\ n + 1 \in n + 1 .. End(n)
    BY <1>0, <1>1
  <2> DEFINE p == Parent(n + 1)
  <2>2. /\ p \in 1 .. (n + 1) - 1 /\ n + 1 \in Kids(p) /\ p \in 1 .. Len(doc)
        /\ Depth(n + 1) = Depth(p) + 1
    BY <2>1, HasParent
  <2> HIDE DEF p
  <2>3. Depth(n + 1) > Depth(n)
    BY <2>1, EndIs
  <2>4. CASE p < n
    <3>1. n \in p + 1 .. n + 1
      BY <1>0, <2>2, <2>4
    <3>2. Depth(n) > Depth(p)
      BY <2>2, <3>1, KidsAre
    <3>3. QED
      BY <1>0, <2>2, <2>3, <3>2
  <2>5. p = n \/ p < n
    BY <1>0, <2>2
  <2>6. QED
    BY <1>1, <2>2, <2>4, <2>5
<1>2. ASSUME NEW k \in Kids(n), e = End(k)
      PROVE  e + 1 \in Kids(n)
  <2>1. k \in n + 1 .. Len(doc) /\ k \in 1 .. Len(doc) /\ Depth(k) = Depth(n) + 1
    BY <1>0, KidsAre
  <2>2. End(k) \in k .. Len(doc)
    BY <2>1, EndIs
  <2>3. e + 1 \in n + 1 .. End(n) /\ e + 1 \in n + 1 .. Len(doc) /\ End(k) # Len(doc)
        /\ e + 1 \in 1 .. Len(doc)
    BY <1>0, <1>2, <2>1, <2>2
  <2>4. Depth(e + 1) <= Depth(k)
    BY <1>2, <2>1, <2>3, EndStops
  <2>5. \A j \in n + 1 .. e + 1 : j \in n + 1 .. End(n)
    BY <1>0, <2>3
  <2>6. \A j \in n + 1 .. e + 1 : Depth(j) > Depth(n)
    BY <2>5, EndIs
  <2>7. Depth(e + 1) = Depth(n) + 1
    <3>1. Depth(e + 1) > Depth(n)
      BY <2>3, EndIs
    <3>2. Depth(e + 1) \in Nat /\ Depth(k) \in Nat
      BY <1>0, <2>1, <2>3
    <3>3. QED
      BY <1>0, <2>1, <2>4, <3>1, <3>2
  <2>8. QED
    BY <2>3, <2>6, <2>7 DEF Kids
<1>3. QED
  BY <1>1, <1>2

-----------------------------------------------------------------------------
(* The children of a node, counted.                                        *)

LEMMA FewKids ==
  ASSUME Document, NEW n \in 1 .. Len(doc)
  PROVE  /\ IsFiniteSet(Kids(n)) /\ Cardinality(Kids(n)) \in 0 .. Len(doc)
         /\ \A k : IsFiniteSet(Before(n, k)) /\ Cardinality(Before(n, k)) \in 0 .. Len(doc)
<1>1. Len(doc) \in Nat /\ IsFiniteSet(1 .. Len(doc)) /\ Cardinality(1 .. Len(doc)) = Len(doc)
  <2> DEFINE l == Len(doc)
  <2>1. l \in Nat
    BY DocumentPlaces
  <2> HIDE DEF l
  <2>2. IsFiniteSet(1 .. l) /\ Cardinality(1 .. l) = IF 1 > l THEN 0 ELSE l - 1 + 1
    BY <2>1, FS_Interval
  <2>3. QED
    BY <2>1, <2>2 DEF l
<1>2. Kids(n) \in SUBSET (1 .. Len(doc))
  BY <1>1 DEF Kids
<1>3. \A k : Before(n, k) \in SUBSET (1 .. Len(doc))
  BY <1>2 DEF Before
<1>4. ASSUME NEW S \in SUBSET (1 .. Len(doc))
      PROVE  IsFiniteSet(S) /\ Cardinality(S) \in 0 .. Len(doc)
  <2>1. IsFiniteSet(S) /\ Cardinality(S) <= Len(doc)
    BY <1>1, FS_Subset
  <2>2. Cardinality(S) \in Nat
    BY <2>1, FS_CardinalityType
  <2>3. QED
    BY <1>1, <2>1, <2>2
<1>5. QED
  BY <1>2, <1>3, <1>4

LEMMA BeforeGrows ==
  ASSUME Document, NEW n \in 1 .. Len(doc), NEW x \in Kids(n)
  PROVE  /\ \A y \in Kids(n) : x < y => Cardinality(Before(n, x)) < Cardinality(Before(n, y))
         /\ Cardinality(Before(n, x)) < Cardinality(Kids(n))
<1> DEFINE S == Before(n, x) \cup {x}
<1>1. \A k \in Kids(n) : k \in Nat
  BY DocumentPlaces, KidsAre
<1>2. Cardinality(S) = Cardinality(Before(n, x)) + 1
  <2>1. x \notin Before(n, x)
    BY <1>1 DEF Before
  <2>2. IsFiniteSet(Before(n, x))
    BY FewKids
  <2>3. QED
    BY <2>1, <2>2, FS_AddElement
<1>3. ASSUME NEW T, IsFiniteSet(T), S \subseteq T, Cardinality(T) \in 0 .. Len(doc)
      PROVE  Cardinality(Before(n, x)) < Cardinality(T)
  <2>1. Cardinality(S) <= Cardinality(T)
    BY <1>3, FS_Subset
  <2>2. Cardinality(Before(n, x)) \in Nat
    BY FewKids, DocumentPlaces
  <2>3. QED
    BY <1>2, <1>3, <2>1, <2>2
<1>4. S \subseteq Kids(n)
  BY DEF Before
<1>5. ASSUME NEW y \in Kids(n), x < y
      PROVE  S \subseteq Before(n, y)
  BY <1>1, <1>5 DEF Before
<1>6. QED
  BY <1>3, <1>4, <1>5, FewKids

LEMMA KidIs ==
  ASSUME Document, NEW n \in 1 .. Len(doc), NEW k \in Kids(n)
  PROVE  Kid(n, Cardinality(Before(n, k))) = k
<1> DEFINE i == Cardinality(Before(n, k))
<1>1. \A y \in Kids(n) : y \in Nat
  BY DocumentPlaces, KidsAre
<1>2. Kid(n, i) \in Kids(n) /\ Cardinality(Before(n, Kid(n, i))) = i
  BY DEF Kid
<1>3. \A y \in Kids(n) : Cardinality(Before(n, y)) \in Nat
  BY FewKids, DocumentPlaces
<1>4. ASSUME NEW y \in Kids(n), Cardinality(Before(n, y)) = i
      PROVE  y = k
  <2>1. ~(y < k) /\ ~(k < y)
    BY <1>3, <1>4, BeforeGrows
  <2>2. QED
    BY <1>1, <2>1
<1>5. QED
  BY <1>2, <1>4

\* The place up to which the document has been visited when i children of
\* the node n have.
Reach(n, i) == IF i = 0 THEN n ELSE End(Kid(n, i - 1))

IsNext(n, i) ==
  /\ Kid(n, i) \in Kids(n)
  /\ Cardinality(Before(n, Kid(n, i))) = i
  /\ Kid(n, i) = Reach(n, i) + 1

\* The child e + 1 that follows x (or is the first): it has one more before it.
LEMMA FirstKid ==
  ASSUME Document, NEW n \in 1 .. Len(doc), n < End(n)
  PROVE  n + 1 \in Kids(n) /\ Cardinality(Before(n, n + 1)) = 0
<1>1. n + 1 \in Kids(n)
  BY NextKid
<1>2. \A k \in Kids(n) : n < k /\ k \in Nat /\ n \in Nat
  BY DocumentPlaces, KidsAre
<1>3. Before(n, n + 1) = {}
  BY <1>2 DEF Before
<1>4. QED
  BY <1>1, <1>3, FS_EmptySet

LEMMA KidAfter ==
  ASSUME Document, NEW n \in 1 .. Len(doc), NEW x \in Kids(n), End(x) < End(n)
  PROVE  /\ End(x) + 1 \in Kids(n)
         /\ Cardinality(Before(n, End(x) + 1)) = Cardinality(Before(n, x)) + 1
<1> DEFINE y == End(x) + 1
<1>1. y \in Kids(n)
  BY NextKid
<1>2. (\A k \in Kids(n) : k \in Nat) /\ x \in 1 .. Len(doc) /\ Len(doc) \in Nat
  BY DocumentPlaces, KidsAre
<1>3. x <= End(x) /\ End(x) \in Nat
  BY <1>2, EndIs
<1>4. Before(n, y) = Before(n, x) \cup {x}
  <2>1. \A k \in Kids(n) : k < y <=> k < x \/ k = x
    <3>1. ASSUME NEW k \in Kids(n), x < k
          PROVE  ~(k < y)
      <4>1. End(x) < k
        BY <3>1, KidEnds
      <4>2. QED
        BY <1>2, <1>3, <4>1
    <3>2. QED
      BY <1>2, <1>3, <3>1
  <2> HIDE DEF y
  <2>2. QED
    BY <2>1 DEF Before
<1> HIDE DEF y
<1>5. x \notin Before(n, x) /\ IsFiniteSet(Before(n, x))
  BY <1>2, FewKids DEF Before
<1>6. Cardinality(Before(n, y)) = Cardinality(Before(n, x)) + 1
  BY <1>4, <1>5, FS_AddElement
<1>7. QED
  BY <1>1, <1>6 DEF y

LEMMA LastKid ==
  ASSUME Document, NEW n \in 1 .. Len(doc), NEW x \in Kids(n), End(x) = End(n)
  PROVE  Cardinality(Kids(n)) = Cardinality(Before(n, x)) + 1
<1>1. \A k \in Kids(n) : k \in Nat
  BY DocumentPlaces, KidsAre
<1>2. Kids(n) = Before(n, x) \cup {x}
  <2>1. \A k \in Kids(n) : k < x \/ k = x
    <3>1. ASSUME NEW k \in Kids(n), x < k
          PROVE  FALSE
      <4>1. End(x) < k /\ k <= End(n)
        BY <3>1, KidEnds
      <4>2. x \in 1 .. Len(doc) /\ Len(doc) \in Nat
        BY KidsAre, DocumentPlaces
      <4>3. End(x) \in x .. Len(doc) /\ End(n) \in n .. Len(doc)
        BY <4>2, EndIs
      <4>4. QED
        BY <1>1, <4>1, <4>2, <4>3
    <3>2. QED
      BY <1>1, <3>1
  <2>2. QED
    BY <2>1 DEF Before
<1>3. x \notin Before(n, x)
  BY <1>1 DEF Before
<1>4. IsFiniteSet(Before(n, x))
  BY FewKids
<1>5. QED
  BY <1>2, <1>3, <1>4, FS_AddElement

\* The subscripts count the children in the order of the text.
LEMMA KidsInTurn ==
  ASSUME Document, NEW n \in 1 .. Len(doc)
  PROVE  \A i \in 0 .. Cardinality(Kids(n)) :
           IF i < Cardinality(Kids(n)) THEN IsNext(n, i) ELSE Reach(n, i) = End(n)
<1> DEFINE c == Cardinality(Kids(n))
           Right(i) == IF i < c THEN IsNext(n, i) ELSE Reach(n, i) = End(n)
           Bad == {i \in 0 .. c : ~Right(i)}
<1>0. c \in Nat /\ Len(doc) \in Nat /\ n \in Nat /\ End(n) \in n .. Len(doc)
  BY DocumentPlaces, FewKids, EndIs
<1>1. SUFFICES ASSUME Bad # {} PROVE FALSE
  OBVIOUS
<1> HIDE DEF c, Right
<1>2. PICK i \in Bad : \A j \in Bad : i <= j
  <2>1. Bad \in SUBSET Nat
    BY <1>0
  <2> HIDE DEF Bad
  <2>2. QED
    BY <1>1, <2>1, LeastExists
<1>3. i \in 0 .. c /\ ~Right(i) /\ \A j \in 0 .. c : j < i => Right(j)
  BY <1>0, <1>2
<1>4. CASE i = 0
  <2>1. CASE n < End(n)
    <3>1. n + 1 \in Kids(n) /\ Cardinality(Before(n, n + 1)) = 0
      BY <2>1, FirstKid
    <3>2. Kid(n, 0) = n + 1
      BY <3>1, KidIs
    <3>3. 0 < c
      BY <3>1, BeforeGrows DEF c
    <3>4. IsNext(n, 0)
      BY <3>1, <3>2 DEF IsNext, Reach
    <3>5. QED
      BY <1>3, <1>4, <3>3, <3>4 DEF Right
  <2>2. CASE End(n) = n
    <3>1. Kids(n) = {}
      <4>1. ASSUME NEW k \in Kids(n) PROVE FALSE
        <5>1. k <= End(n) /\ n < k /\ k \in n + 1 .. Len(doc)
          BY KidEnds, KidsAre
        <5>2. QED
          BY <1>0, <2>2, <5>1
      <4>2. QED
        BY <4>1
    <3>2. c = 0
      BY <3>1, FS_EmptySet DEF c
    <3>3. QED
      BY <1>3, <1>4, <2>2, <3>2 DEF Right, Reach
  <2>3. QED
    BY <1>0, <2>1, <2>2
<1>5. CASE i # 0
  <2> DEFINE x == Kid(n, i - 1)
  <2>1. i - 1 \in 0 .. c /\ i - 1 < i /\ i - 1 < c /\ i \in Nat
    BY <1>0, <1>3, <1>5
  <2>2. x \in Kids(n) /\ Cardinality(Before(n, x)) = i - 1
    BY <1>3, <2>1 DEF Right, IsNext
  <2>3. Reach(n, i) = End(x)
    BY <1>5 DEF Reach
  <2> HIDE DEF x
  <2>4. End(x) <= End(n) /\ End(x) \in Nat
    <3>1. x \in 1 .. Len(doc)
      BY <2>2, KidsAre, DocumentPlaces
    <3>2. QED
      BY <1>0, <2>2, <3>1, KidEnds, EndIs
  <2>5. CASE End(x) < End(n)
    <3>1. End(x) + 1 \in Kids(n) /\ Cardinality(Before(n, End(x) + 1)) = (i - 1) + 1
      BY <2>2, <2>5, KidAfter
    <3>2. (i - 1) + 1 = i
      BY <2>1
    <3>3. Kid(n, i) = End(x) + 1
      BY <3>1, <3>2, KidIs
    <3>4. i < c
      BY <3>1, <3>2, BeforeGrows DEF c
    <3>5. IsNext(n, i)
      BY <2>3, <3>1, <3>2, <3>3 DEF IsNext
    <3>6. QED
      BY <1>3, <3>4, <3>5 DEF Right
  <2>6. CASE End(x) = End(n)
    <3>1. c = (i - 1) + 1
      BY <2>2, <2>6, LastKid DEF c
    <3>2. ~(i < c)
      BY <2>1, <3>1
    <3>3. QED
      BY <1>3, <2>3, <2>6, <3>2 DEF Right
  <2>7. QED
    BY <1>0, <2>4, <2>5, <2>6
<1>6. QED
  BY <1>4, <1>5

-----------------------------------------------------------------------------
(* The names the reference gives.                                          *)

LEMMA SubNameType ==
  ASSUME NEW name \in VarNames, NEW i \in 0 .. MaxNodes
  PROVE  SubName(name, i) \in VarNames
<1> DEFINE e == ""
           x == Subscripts[i]
           first == IF name = <<>> THEN <<e>> ELSE name
<1>1. e \in Components /\ x \in Components
  BY TreeAssumption
<1>2. SubName(name, i) = first \o <<x>>
  BY DEF SubName
<1> HIDE DEF e, x
<1>3. first \in Seq(Components) /\ <<x>> \in Seq(Components)
  BY <1>1 DEF VarNames
<1> HIDE DEF first
<1>4. QED
  BY <1>2, <1>3 DEF VarNames

LEMMA KeyType ==
  ASSUME Document, NEW n \in 1 .. Len(doc)
  PROVE  doc[n].key \in VarNames
<1>1. doc[n] \in Leaves
  BY DocumentPlaces DEF Document
<1>2. QED
  BY <1>1 DEF Leaves

LEMMA NamesTypes ==
  ASSUME Document
  PROVE  VarNames # {} /\ <<>> \in VarNames
<1>1. <<>> \in VarNames
  BY DEF VarNames
<1>2. QED
  BY <1>1

\* Of the name function of the reference, NameFrom reads the parent only.
LEMMA NameFromParent ==
  ASSUME Document, NEW n \in 1 .. Len(doc)
  PROVE  /\ n = 1 => \A f : NameFrom(f, n) = <<>>
         /\ n # 1 => /\ Parent(n) \in 1 .. Len(doc) /\ Parent(n) < n
                     /\ \A f : f[Parent(n)] \in VarNames => NameFrom(f, n) \in VarNames
                     /\ \A f, g : f[Parent(n)] = g[Parent(n)] => NameFrom(f, n) = NameFrom(g, n)
<1>0. Len(doc) \in Nat /\ n \in Nat /\ Depth(1) = 0
  BY DocumentPlaces DEF Document
<1>1. CASE n = 1
  BY <1>0, <1>1 DEF NameFrom
<1>2. CASE n # 1
  <2> DEFINE p == Parent(n)
             before == {m \in p + 1 .. n - 1 : Depth(m) = Depth(n)}
             c == Cardinality(before)
  <2>1. n \in 2 .. Len(doc)
    BY <1>0, <1>2
  <2>2. /\ p \in 1 .. n - 1 /\ p \in 1 .. Len(doc) /\ Depth(n) = Depth(p) + 1
    BY <2>1, HasParent
  <2>3. p < n /\ p \in Nat /\ Depth(n) # 0
    BY <1>0, <2>2, DocumentPlaces
  <2>4. c \in 0 .. MaxNodes
    <3>1. IsFiniteSet(1 .. Len(doc)) /\ Cardinality(1 .. Len(doc)) \in 0 .. MaxNodes
      <4>1. Len(doc) \in 1 .. MaxNodes
        BY DEF Document
      <4> DEFINE l == Len(doc)
      <4>2. l \in Nat /\ l \in 1 .. MaxNodes
        BY <1>0, <4>1
      <4> HIDE DEF l
      <4>3. IsFiniteSet(1 .. l) /\ Cardinality(1 .. l) = IF 1 > l THEN 0 ELSE l - 1 + 1
        BY <4>2, FS_Interval
      <4>4. MaxNodes \in Nat
        BY TreeAssumption
      <4>5. QED
        BY <4>2, <4>3, <4>4 DEF l
    <3>2. before \in SUBSET (1 .. Len(doc))
      BY <1>0, <2>3
    <3> HIDE DEF before
    <3>3. IsFiniteSet(before) /\ Cardinality(before) <= Cardinality(1 .. Len(doc))
      BY <3>1, <3>2, FS_Subset
    <3>4. Cardinality(before) \in Nat
      BY <3>3, FS_CardinalityType
    <3>5. MaxNodes \in Nat
      BY TreeAssumption
    <3>6. QED
      BY <3>1, <3>3, <3>4, <3>5
  <2>5. \A f : NameFrom(f, n) = IF doc[p].kind = "map" THEN f[p] \o doc[n].key
                                ELSE SubName(f[p], c)
    BY <2>3 DEF NameFrom
  <2> HIDE DEF p, c
  <2>6. ASSUME NEW f, f[p] \in VarNames
        PROVE  NameFrom(f, n) \in VarNames
    <3>1. f[p] \o doc[n].key \in VarNames
      BY <2>6, KeyType DEF VarNames
    <3>2. SubName(f[p], c) \in VarNames
      BY <2>4, <2>6, SubNameType
    <3>3. QED
      BY <2>5, <3>1, <3>2
  <2>7. \A f, g : f[p] = g[p] => NameFrom(f, n) = NameFrom(g, n)
    BY <2>5
  <2>8. QED
    BY <1>2, <2>2, <2>3, <2>6, <2>7 DEF p
<1>3. QED
  BY <1>1, <1>2

Itself == [n \in Nodes |-> n]

NameSteps == [xf \in Nodes \X [Nodes -> VarNames] |-> NameFrom(xf[2], xf[1])]

LEMMA NameContracts ==
  ASSUME Document
  PROVE  Contracts(Nodes, VarNames, Itself, NameSteps)
<1>0. Nodes = 1 .. Len(doc) /\ Len(doc) \in Nat
  BY DocumentPlaces
<1>1. Itself \in [Nodes -> Nat]
  BY <1>0 DEF Itself
<1>2. ASSUME NEW n \in Nodes, NEW f \in [Nodes -> VarNames]
      PROVE  NameFrom(f, n) \in VarNames
  <2>1. CASE n = 1
    BY <1>0, <2>1, NameFromParent, NamesTypes
  <2>2. CASE n # 1
    <3>1. Parent(n) \in Nodes /\ f[Parent(n)] \in VarNames
      BY <1>0, <2>2, NameFromParent
    <3>2. QED
      BY <1>0, <2>2, <3>1, NameFromParent
  <2>3. QED
    BY <2>1, <2>2
<1>3. NameSteps \in [Nodes \X [Nodes -> VarNames] -> VarNames]
  BY <1>2 DEF NameSteps
<1>4. ASSUME NEW x \in Nodes, NEW f \in [Nodes -> VarNames], NEW g \in [Nodes -> VarNames],
             \A y \in Nodes : Itself[y] < Itself[x] => f[y] = g[y]
      PROVE  NameSteps[<<x, f>>] = NameSteps[<<x, g>>]
  <2>1. CASE x = 1
    BY <1>0, <2>1, NameFromParent DEF NameSteps
  <2>2. CASE x # 1
    <3>1. Parent(x) \in Nodes /\ Parent(x) < x
      BY <1>0, <2>2, NameFromParent
    <3>2. f[Parent(x)] = g[Parent(x)]
      BY <1>4, <3>1 DEF Itself
    <3>3. NameFrom(f, x) = NameFrom(g, x)
      BY <1>0, <2>2, <3>2, NameFromParent
    <3>4. QED
      BY <3>3 DEF NameSteps
  <2>3. QED
    BY <2>1, <2>2
<1>5. QED
  BY <1>1, <1>3, <1>4 DEF Contracts

Naming(f) ==
  /\ f \in [Nodes -> VarNames]
  /\ \A n \in Nodes : f[n] = NameFrom(f, n)
  /\ \A n \in Nodes : NameOf(n) = f[n]

LEMMA NameFunction ==
  ASSUME Document
  PROVE  \E f : Naming(f)
<1> DEFINE D == Nodes
           S == VarNames
           solves(f) == f = [n \in Nodes |-> NameFrom(f, n)]
           name == CHOOSE f : solves(f)
<1>0. D = 1 .. Len(doc) /\ Len(doc) \in Nat
  BY DocumentPlaces
<1>1. \E f : Solution(D, S, NameSteps, f)
  <2>1. Contracts(D, S, Itself, NameSteps) /\ S # {}
    BY NameContracts, NamesTypes
  <2> HIDE DEF D, S
  <2>2. QED
    BY <2>1, Recursion
<1>2. PICK h : h \in [D -> S] /\ \A x \in D : h[x] = NameFrom(h, x)
  BY <1>1 DEF Solution, NameSteps
<1>3. solves(name)
  <2>1. h = [n \in Nodes |-> NameFrom(h, n)]
    BY <1>2
  <2> HIDE DEF solves
  <2>2. solves(h)
    BY <2>1 DEF solves
  <2>3. QED
    BY <2>2
<1>4. \A n \in D : NameOf(n) = name[n]
  BY DEF NameOf
<1> HIDE DEF name
<1>5. \A x \in D : name[x] = NameFrom(name, x)
  BY <1>3
<1>6. \A x \in D : name[x] \in S
  <2> DEFINE Bad == {x \in D : name[x] \notin S}
  <2>1. SUFFICES ASSUME Bad # {} PROVE FALSE
    OBVIOUS
  <2>2. PICK x \in Bad : \A y \in Bad : x <= y
    <3>1. Bad \in SUBSET Nat
      BY <1>0
    <3> HIDE DEF Bad
    <3>2. QED
      BY <2>1, <3>1, LeastExists
  <2>3. \A y \in D : y < x => name[y] \in S
    BY <1>0, <2>2
  <2>4. CASE x = 1
    BY <1>0, <1>5, <2>2, <2>4, NameFromParent, NamesTypes
  <2>5. CASE x # 1
    <3>1. x \in 1 .. Len(doc) /\ name[x] = NameFrom(name, x) /\ name[x] \notin S
      BY <1>0, <1>5, <2>2
    <3>2. Parent(x) \in D /\ Parent(x) < x
      BY <1>0, <2>5, <3>1, NameFromParent
    <3>3. name[Parent(x)] \in VarNames
      BY <2>3, <3>2
    <3>4. NameFrom(name, x) \in VarNames
      BY <2>5, <3>1, <3>3, NameFromParent
    <3>5. QED
      BY <3>1, <3>4
  <2>6. QED
    BY <2>4, <2>5
<1>7. name \in [D -> S]
  BY <1>3, <1>6
<1>8. Naming(name)
  BY <1>4, <1>5, <1>7 DEF Naming
<1>9. QED
  BY <1>8

LEMMA NameOfType ==
  ASSUME Document
  PROVE  /\ \A n \in 1 .. Len(doc) : NameOf(n) \in VarNames
         /\ NameOf(1) = <<>>
<1>1. PICK f : Naming(f)
  BY NameFunction
<1>2. Nodes = 1 .. Len(doc) /\ 1 \in Nodes
  BY DocumentPlaces
<1>3. QED
  BY <1>1, <1>2, NameFromParent DEF Naming

\* What TraversalNode passes on is the name of the child.
LEMMA ChildNameIs ==
  ASSUME Document, NEW n \in 1 .. Len(doc), NEW k \in Kids(n),
         NEW i, i = Cardinality(Before(n, k))
  PROVE  Kid(n, i) = k /\ ChildName(n, NameOf(n), i) = NameOf(k)
<1>1. Kid(n, i) = k
  BY KidIs
<1>2. /\ k \in n + 1 .. Len(doc) /\ k \in 1 .. Len(doc) /\ Depth(k) = Depth(n) + 1
      /\ \A j \in n + 1 .. k : Depth(j) > Depth(n)
      /\ n \in Nat /\ k \in Nat /\ Len(doc) \in Nat /\ Depth(n) \in Nat
  BY DocumentPlaces, KidsAre
<1>3. PICK f : Naming(f)
  BY NameFunction
<1>4. NameOf(k) = NameFrom(f, k) /\ NameOf(n) = f[n]
  BY <1>2, <1>3, DocumentPlaces DEF Naming
<1>5. Parent(k) = n
  BY KidParent
<1>6. {m \in n + 1 .. k - 1 : Depth(m) = Depth(k)} = Before(n, k)
  <2>1. ASSUME NEW m \in n + 1 .. k - 1, Depth(m) = Depth(k)
        PROVE  m \in Before(n, k)
    <3>1. m \in n + 1 .. Len(doc) /\ m < k /\ \A j \in n + 1 .. m : j \in n + 1 .. k
      BY <1>2
    <3>2. m \in Kids(n)
      BY <1>2, <2>1, <3>1 DEF Kids
    <3>3. QED
      BY <3>1, <3>2 DEF Before
  <2>2. ASSUME NEW m \in Before(n, k)
        PROVE  m \in n + 1 .. k - 1 /\ Depth(m) = Depth(k)
    <3>1. m \in Kids(n) /\ m < k
      BY DEF Before
    <3>2. m \in n + 1 .. Len(doc) /\ Depth(m) = Depth(n) + 1
      BY <3>1, KidsAre
    <3>3. QED
      BY <1>2, <3>1, <3>2
  <2>3. QED
    BY <2>1, <2>2
<1>7. NameOf(k) = IF doc[n].kind = "map" THEN f[n] \o doc[k].key ELSE SubName(f[n], i)
  <2>1. Depth(k) # 0
    BY <1>2
  <2>2. QED
    BY <1>4, <1>5, <1>6, <2>1 DEF NameFrom
<1>8. QED
  BY <1>1, <1>4, <1>7 DEF ChildName

-----------------------------------------------------------------------------
(* TraversalNode.                                                          *)

Entries == [name : VarNames, node : Nodes]

LEMMA EnterType ==
  ASSUME Document, NEW output \in Outputs, NEW name \in VarNames, NEW n \in Nodes
  PROVE  Enter(output, name, n) \in Outputs
<1> DEFINE new == [name |-> name, node |-> n]
           S == Entries
<1>1. new \in S
  BY DEF Entries
<1>2. output \in Seq(S) /\ Outputs = Seq(S)
  BY DEF Outputs, Entries
<1>3. Enter(output, name, n)
        = IF \E e \in DOMAIN output : output[e].name = name
          THEN [e \in DOMAIN output |-> IF output[e].name = name THEN new ELSE output[e]]
          ELSE Append(output, new)
  BY DEF Enter
<1> HIDE DEF new, S
<1>4. [e \in DOMAIN output |-> IF output[e].name = name THEN new ELSE output[e]] \in Seq(S)
  BY <1>1, <1>2
<1>5. Append(output, new) \in Seq(S)
  BY <1>1, <1>2
<1>6. QED
  BY <1>2, <1>3, <1>4, <1>5

\* The later a node, the less is left to visit, and so within its loop.
Weight(at) == (Len(doc) + 1) * (Len(doc) - at.node) + (Len(doc) - at.i)

Weights == [at \in Visits |-> Weight(at)]

LEMMA WeightFalls ==
  ASSUME NEW l \in Nat, NEW n \in 1 .. l, NEW k \in n + 1 .. l,
         NEW i \in 0 .. l, NEW j \in 0 .. l
  PROVE  /\ (l + 1) * (l - n) + (l - i) \in Nat
         /\ (l + 1) * (l - k) + (l - j) < (l + 1) * (l - n) + (l - i)
<1> DEFINE a == l - k
           b == l - n
<1>1. a \in Nat /\ b \in Nat /\ a + 1 <= b
  OBVIOUS
<1> HIDE DEF a, b
<1>2. (l + 1) * (a + 1) <= (l + 1) * b
  BY <1>1, TimesMonotonic
<1>3. (l + 1) * (a + 1) = (l + 1) * a + (l + 1)
  BY <1>1
<1>4. (l + 1) * a \in Nat /\ (l + 1) * b \in Nat
  BY <1>1
<1>5. (l + 1) * b + (l - i) \in Nat /\ (l + 1) * a + (l - j) < (l + 1) * b + (l - i)
  BY <1>2, <1>3, <1>4
<1>6. QED
  BY <1>5 DEF a, b

LEMMA WeightType ==
  ASSUME Document
  PROVE  Weights \in [Visits -> Nat]
<1>1. Len(doc) \in Nat /\ Nodes = 1 .. Len(doc)
  BY DocumentPlaces
<1>2. ASSUME NEW at \in Visits
      PROVE  Weight(at) \in Nat
  <2> DEFINE l == Len(doc)
             a == l - at.node
  <2>1. at.node \in 1 .. l /\ at.i \in 0 .. l /\ l \in Nat
    BY <1>1 DEF Visits
  <2>2. a \in Nat /\ l - at.i \in Nat
    BY <2>1
  <2> HIDE DEF a
  <2>3. (l + 1) * a \in Nat
    BY <2>1, <2>2
  <2>4. (l + 1) * a + (l - at.i) \in Nat
    BY <2>2, <2>3
  <2>5. QED
    BY <2>4 DEF Weight, a
<1>3. QED
  BY <1>2 DEF Weights

LEMMA VisitsGoOn ==
  ASSUME Document, NEW at \in Visits, at.i < Cardinality(Kids(at.node))
  PROVE  /\ ChildVisit(at) \in Visits /\ Weight(ChildVisit(at)) < Weight(at)
         /\ \A output \in Outputs : /\ NextVisit(at, output) \in Visits
                                    /\ Weight(NextVisit(at, output)) < Weight(at)
<1> DEFINE n == at.node
           i == at.i
           l == Len(doc)
           k == Kid(n, i)
           name == ChildName(n, at.name, i)
<1>1. /\ l \in Nat /\ Nodes = 1 .. l /\ n \in 1 .. l /\ i \in 0 .. l
      /\ at.name \in VarNames /\ at.output \in Outputs
      /\ at = [node |-> n, name |-> at.name, i |-> i, output |-> at.output]
  BY DocumentPlaces DEF Visits
<1>2. Cardinality(Kids(n)) \in 0 .. l
  BY <1>1, FewKids
<1>3. i \in 0 .. Cardinality(Kids(n)) /\ i < Cardinality(Kids(n)) /\ i + 1 \in 0 .. l
  BY <1>1, <1>2
<1>4. k \in Kids(n)
  BY <1>1, <1>3, KidsInTurn DEF IsNext
<1>5. k \in n + 1 .. l /\ k \in 1 .. l
  BY <1>1, <1>4, KidsAre
<1>6. name \in VarNames
  <2>1. i \in 0 .. MaxNodes
    <3>1. Len(doc) \in 1 .. MaxNodes /\ MaxNodes \in Nat
      BY TreeAssumption DEF Document
    <3>2. QED
      BY <1>1, <3>1
  <2>2. doc[k].key \in VarNames
    BY <1>5, KeyType
  <2>3. at.name \o doc[k].key \in VarNames
    BY <1>1, <2>2 DEF VarNames
  <2>4. SubName(at.name, i) \in VarNames
    BY <1>1, <2>1, SubNameType
  <2> HIDE DEF k
  <2>5. QED
    BY <2>3, <2>4 DEF ChildName, k
<1> HIDE DEF k, name, n, i, l
<1>7. ChildVisit(at) \in Visits /\ ChildVisit(at).node = k /\ ChildVisit(at).i = 0
  <2>1. Enter(at.output, name, k) \in Outputs
    BY <1>1, <1>5, <1>6, EnterType
  <2>2. ChildVisit(at) = [node |-> k, name |-> name, i |-> 0,
                          output |-> Enter(at.output, name, k)]
    BY DEF ChildVisit, k, name, n, i
  <2>3. 0 \in 0 .. l /\ k \in Nodes
    BY <1>1, <1>5
  <2>4. QED
    BY <1>6, <2>1, <2>2, <2>3 DEF Visits, l
<1>8. ASSUME NEW output \in Outputs
      PROVE  /\ NextVisit(at, output) \in Visits
             /\ NextVisit(at, output).node = n /\ NextVisit(at, output).i = i + 1
  <2>1. NextVisit(at, output) = [node |-> n, name |-> at.name, i |-> i + 1, output |-> output]
    BY DEF NextVisit, i, n
  <2>2. QED
    BY <1>1, <1>3, <2>1 DEF Visits, l
<1>9. Weight(at) = (l + 1) * (l - n) + (l - i)
  BY DEF Weight, l, n, i
<1>10. Weight(ChildVisit(at)) < Weight(at)
  <2>1. Weight(ChildVisit(at)) = (l + 1) * (l - k) + (l - 0)
    BY <1>7 DEF Weight, l
  <2>2. 0 \in 0 .. l
    BY <1>1
  <2>3. (l + 1) * (l - k) + (l - 0) < (l + 1) * (l - n) + (l - i)
    BY <1>1, <1>5, <2>2, WeightFalls
  <2>4. QED
    BY <1>9, <2>1, <2>3
<1>11. ASSUME NEW output \in Outputs
       PROVE  Weight(NextVisit(at, output)) < Weight(at)
  <2> DEFINE w == (l + 1) * (l - n)
  <2>1. Weight(NextVisit(at, output)) = w + (l - (i + 1))
    BY <1>8 DEF Weight, l
  <2>2. w \in Int
    BY <1>1
  <2>3. Weight(at) = w + (l - i)
    BY <1>9
  <2> HIDE DEF w
  <2>4. QED
    BY <1>1, <2>1, <2>2, <2>3
<1>12. QED
  BY <1>7, <1>8, <1>10, <1>11

VisitSteps == [xf \in Visits \X [Visits -> Outputs] |-> TraversalFrom(xf[2], xf[1])]

LEMMA TraversalFromType ==
  ASSUME Document, NEW at \in Visits, NEW f,
         \A x \in Visits : Weight(x) < Weight(at) => f[x] \in Outputs
  PROVE  TraversalFrom(f, at) \in Outputs
<1>1. at.output \in Outputs /\ at.i \in Int /\ at.node \in 1 .. Len(doc)
  BY DocumentPlaces DEF Visits
<1>2. Cardinality(Kids(at.node)) \in Int
  BY <1>1, FewKids, DocumentPlaces
<1>3. CASE at.i >= Cardinality(Kids(at.node))
  BY <1>1, <1>3 DEF TraversalFrom
<1>4. CASE at.i < Cardinality(Kids(at.node))
  <2>1. f[ChildVisit(at)] \in Outputs
    BY <1>4, VisitsGoOn
  <2>2. f[NextVisit(at, f[ChildVisit(at)])] \in Outputs
    BY <1>4, <2>1, VisitsGoOn
  <2>3. ~(at.i >= Cardinality(Kids(at.node)))
    BY <1>1, <1>2, <1>4
  <2>4. QED
    BY <2>2, <2>3 DEF TraversalFrom
<1>5. QED
  BY <1>1, <1>2, <1>3, <1>4

LEMMA VisitContracts ==
  ASSUME Document
  PROVE  Contracts(Visits, Outputs, Weights, VisitSteps)
<1>1. Weights \in [Visits -> Nat]
  BY WeightType
<1>2. \A x \in Visits, f \in [Visits -> Outputs] : TraversalFrom(f, x) \in Outputs
  BY TraversalFromType
<1>3. VisitSteps \in [Visits \X [Visits -> Outputs] -> Outputs]
  BY <1>2 DEF VisitSteps
<1>4. ASSUME NEW x \in Visits, NEW f \in [Visits -> Outputs], NEW g \in [Visits -> Outputs],
             \A y \in Visits : Weights[y] < Weights[x] => f[y] = g[y]
      PROVE  TraversalFrom(f, x) = TraversalFrom(g, x)
  <2>1. \A y \in Visits : Weight(y) < Weight(x) => f[y] = g[y]
    BY <1>4 DEF Weights
  <2>2. CASE x.i < Cardinality(Kids(x.node))
    <3>1. ChildVisit(x) \in Visits /\ f[ChildVisit(x)] = g[ChildVisit(x)]
      BY <2>1, <2>2, VisitsGoOn
    <3>2. f[ChildVisit(x)] \in Outputs
      BY <3>1
    <3> DEFINE y == NextVisit(x, f[ChildVisit(x)])
    <3>3. y \in Visits /\ Weight(y) < Weight(x)
      BY <2>2, <3>2, VisitsGoOn
    <3>4. f[y] = g[y] /\ y = NextVisit(x, g[ChildVisit(x)])
      BY <2>1, <3>1, <3>3
    <3> HIDE DEF y
    <3>5. QED
      BY <3>4 DEF TraversalFrom, y
  <2>3. CASE ~(x.i < Cardinality(Kids(x.node)))
    <3>1. x.i \in Int /\ Cardinality(Kids(x.node)) \in Int
      BY FewKids, DocumentPlaces DEF Visits
    <3>2. x.i >= Cardinality(Kids(x.node))
      BY <2>3, <3>1
    <3>3. QED
      BY <3>2 DEF TraversalFrom
  <2>4. QED
    BY <2>2, <2>3
<1>5. \A x \in Visits : \A f, g \in [Visits -> Outputs] :
        (\A y \in Visits : Weights[y] < Weights[x] => f[y] = g[y])
          => VisitSteps[<<x, f>>] = VisitSteps[<<x, g>>]
  BY <1>4 DEF VisitSteps
<1>6. QED
  BY <1>1, <1>3, <1>5 DEF Contracts

Visiting(f) ==
  /\ f \in [Visits -> Outputs]
  /\ \A at \in Visits : f[at] = TraversalFrom(f, at)

LEMMA VisitFunction ==
  ASSUME Document
  PROVE  \E f : /\ Visiting(f)
                /\ \A n, name, output :
                     TraversalNode(n, name, output)
                       = f[[node |-> n, name |-> name, i |-> 0,
                            output |-> Enter(output, name, n)]]
<1> DEFINE D == Visits
           S == Outputs
           solves(f) == f = [at \in Visits |-> TraversalFrom(f, at)]
           visit == CHOOSE f : solves(f)
<1>1. \E f : Solution(D, S, VisitSteps, f)
  <2>1. Contracts(D, S, Weights, VisitSteps)
    BY VisitContracts
  <2>2. S # {}
    <3>1. <<>> \in S
      BY DEF Outputs
    <3>2. QED
      BY <3>1
  <2> HIDE DEF D, S
  <2>3. QED
    BY <2>1, <2>2, Recursion
<1>2. PICK h : h \in [D -> S] /\ \A x \in D : h[x] = TraversalFrom(h, x)
  BY <1>1 DEF Solution, VisitSteps
<1>3. solves(visit)
  <2>1. h = [at \in Visits |-> TraversalFrom(h, at)]
    BY <1>2
  <2> HIDE DEF solves
  <2>2. solves(h)
    BY <2>1 DEF solves
  <2>3. QED
    BY <2>2
<1>4. \A n, name, output :
        TraversalNode(n, name, output)
          = visit[[node |-> n, name |-> name, i |-> 0, output |-> Enter(output, name, n)]]
  BY DEF TraversalNode
<1> HIDE DEF visit
<1>5. \A x \in D : visit[x] = TraversalFrom(visit, x)
  BY <1>3
<1>6. \A x \in D : visit[x] \in S
  <2> DEFINE Bad == {x \in D : visit[x] \notin S}
  <2>1. SUFFICES ASSUME Bad # {} PROVE FALSE
    OBVIOUS
  <2>2. PICK x \in Bad : \A y \in D : Weights[y] < Weights[x] => y \notin Bad
    <3>1. Bad \in SUBSET D /\ Weights \in [D -> Nat]
      BY WeightType
    <3> HIDE DEF Bad, D
    <3>2. QED
      BY <2>1, <3>1, SmallestPlace
  <2>3. \A y \in D : Weight(y) < Weight(x) => visit[y] \in S
    BY <2>2 DEF Weights
  <2>4. TraversalFrom(visit, x) \in S
    BY <2>2, <2>3, TraversalFromType
  <2>5. QED
    BY <1>5, <2>2, <2>4
<1>7. visit \in [D -> S]
  BY <1>3, <1>6
<1>8. Visiting(visit)
  BY <1>5, <1>7 DEF Visiting
<1>9. QED
  BY <1>4, <1>8

\* The output after the entries of the first nodes of the text, in its order.
Logging(w) ==
  /\ w \in [0 .. Len(doc) -> Outputs]
  /\ w[0] = <<>>
  /\ \A k \in 1 .. Len(doc) : w[k] = Enter(w[k - 1], NameOf(k), k)

LogSteps == [xf \in (0 .. Len(doc)) \X [0 .. Len(doc) -> Outputs] |->
               IF xf[1] = 0 THEN <<>> ELSE Enter(xf[2][xf[1] - 1], NameOf(xf[1]), xf[1])]

LEMMA LogExists ==
  ASSUME Document
  PROVE  \E w : Logging(w)
<1> DEFINE D == 0 .. Len(doc)
           S == Outputs
           size == [k \in D |-> k]
<1>0. Len(doc) \in Nat /\ Nodes = 1 .. Len(doc) /\ <<>> \in S /\ 0 \in D
  BY DocumentPlaces DEF Outputs
<1>1. size \in [D -> Nat]
  BY <1>0
<1>2. ASSUME NEW x \in D, x # 0
      PROVE  x - 1 \in D /\ x \in Nodes /\ size[x - 1] < size[x] /\ NameOf(x) \in VarNames
  <2>1. x - 1 \in D /\ x \in Nodes /\ size[x - 1] < size[x]
    BY <1>0, <1>2
  <2>2. QED
    BY <1>0, <2>1, NameOfType
<1>3. ASSUME NEW x \in D, NEW f \in [D -> S]
      PROVE  (IF x = 0 THEN <<>> ELSE Enter(f[x - 1], NameOf(x), x)) \in S
  <2>1. CASE x = 0
    BY <1>0, <2>1
  <2>2. CASE x # 0
    BY <1>2, <2>2, EnterType
  <2>3. QED
    BY <2>1, <2>2
<1>4. LogSteps \in [D \X [D -> S] -> S]
  BY <1>3 DEF LogSteps
<1>5. ASSUME NEW x \in D, NEW f \in [D -> S], NEW g \in [D -> S],
             \A y \in D : size[y] < size[x] => f[y] = g[y]
      PROVE  LogSteps[<<x, f>>] = LogSteps[<<x, g>>]
  <2>1. CASE x = 0
    BY <2>1 DEF LogSteps
  <2>2. CASE x # 0
    <3>1. f[x - 1] = g[x - 1]
      BY <1>2, <1>5, <2>2
    <3>2. QED
      BY <2>2, <3>1 DEF LogSteps
  <2>3. QED
    BY <2>1, <2>2
<1>6. \E w : Solution(D, S, LogSteps, w)
  <2> HIDE DEF D, S, size
  <2>1. Contracts(D, S, size, LogSteps)
    BY <1>1, <1>4, <1>5 DEF Contracts
  <2>2. S # {}
    BY <1>0
  <2>3. QED
    BY <2>1, <2>2, Recursion
<1>7. PICK w : w \in [D -> S] /\ \A x \in D : w[x] = LogSteps[<<x, w>>]
  BY <1>6 DEF Solution
<1>8. \A x \in D : w[x] = IF x = 0 THEN <<>> ELSE Enter(w[x - 1], NameOf(x), x)
  BY <1>7 DEF LogSteps
<1>9. \A k \in 1 .. Len(doc) : k \in D /\ k # 0
  BY <1>0
<1>10. QED
  BY <1>0, <1>7, <1>8, <1>9 DEF Logging

\* A call or a loop that is where the text order would have it.
InStep(at, w) ==
  /\ at.name = NameOf(at.node)
  /\ at.i <= Cardinality(Kids(at.node))
  /\ at.output = w[Reach(at.node, at.i)]

\* The recursion visits the nodes in the order of the text.
LEMMA VisitsInOrder ==
  ASSUME Document, NEW f, Visiting(f), NEW w, Logging(w)
  PROVE  \A at \in Visits : InStep(at, w) => f[at] = w[End(at.node)]
<1> DEFINE strays(x) == InStep(x, w) /\ f[x] # w[End(x.node)]
           Bad == {x \in Visits : strays(x)}
<1>0. Len(doc) \in Nat /\ Nodes = 1 .. Len(doc)
  BY DocumentPlaces
<1>1. SUFFICES ASSUME Bad # {} PROVE FALSE
  OBVIOUS
<1>2. PICK at \in Visits : /\ strays(at)
                           /\ \A y \in Visits : Weights[y] < Weights[at] => ~strays(y)
  <2> HIDE DEF strays
  <2>1. Bad \in SUBSET Visits /\ Weights \in [Visits -> Nat]
    BY WeightType
  <2>2. PICK x \in Bad : \A y \in Visits : Weights[y] < Weights[x] => y \notin Bad
    <3> HIDE DEF Bad
    <3>1. QED
      BY <1>1, <2>1, SmallestPlace
  <2>3. QED
    BY <2>2
<1>3. InStep(at, w) /\ f[at] # w[End(at.node)]
  BY <1>2
<1>4. \A y \in Visits : Weight(y) < Weight(at) /\ InStep(y, w) => f[y] = w[End(y.node)]
  BY <1>2 DEF Weights
<1> HIDE DEF strays, Bad
<1> DEFINE n == at.node
           i == at.i
           c == Cardinality(Kids(n))
<1>5. /\ n \in 1 .. Len(doc) /\ n \in Nodes /\ i \in Nat /\ c \in Nat /\ i <= c
      /\ at.name = NameOf(n) /\ at.output = w[Reach(n, i)] /\ i \in 0 .. c
      /\ f[at] = TraversalFrom(f, at)
  <2>1. n \in 1 .. Len(doc) /\ n \in Nodes /\ i \in Nat
    BY <1>0 DEF Visits
  <2>2. c \in Nat
    BY <1>0, <2>1, FewKids
  <2>3. i <= c /\ at.name = NameOf(n) /\ at.output = w[Reach(n, i)]
    BY <1>3 DEF InStep
  <2>4. f[at] = TraversalFrom(f, at)
    BY DEF Visiting
  <2>5. QED
    BY <2>1, <2>2, <2>3, <2>4
<1> HIDE DEF n, i, c
<1>6. IF i < c THEN IsNext(n, i) ELSE Reach(n, i) = End(n)
  BY <1>5, KidsInTurn DEF c
<1>7. CASE ~(i < c)
  <2>1. at.i >= Cardinality(Kids(at.node))
    BY <1>5, <1>7 DEF n, i, c
  <2>2. f[at] = at.output
    BY <1>5, <2>1 DEF TraversalFrom
  <2>3. QED
    BY <1>3, <1>5, <1>6, <1>7, <2>2 DEF n
<1>8. CASE i < c
  <2> DEFINE k == Kid(n, i)
             child == ChildVisit(at)
  <2>1. k \in Kids(n) /\ Cardinality(Before(n, k)) = i /\ k = Reach(n, i) + 1
    BY <1>6, <1>8 DEF IsNext
  <2>2. k \in 1 .. Len(doc) /\ k \in Nodes /\ Reach(n, i) \in Int
    <3>1. k \in n + 1 .. Len(doc)
      BY <1>5, <2>1, KidsAre
    <3>2. Reach(n, i) \in Int
      <4>1. CASE i = 0
        BY <1>0, <1>5, <4>1 DEF Reach
      <4>2. CASE i # 0
        <5>1. i - 1 \in 0 .. c /\ i - 1 < c
          BY <1>5, <4>2
        <5>2. Kid(n, i - 1) \in Kids(n)
          BY <1>5, <5>1, KidsInTurn DEF c, IsNext
        <5>3. Kid(n, i - 1) \in 1 .. Len(doc)
          BY <1>0, <1>5, <5>2, KidsAre
        <5>4. End(Kid(n, i - 1)) \in Int
          BY <1>0, <5>3, EndIs
        <5>5. QED
          BY <4>2, <5>4 DEF Reach
      <4>3. QED
        BY <4>1, <4>2
    <3>3. QED
      BY <1>0, <1>5, <3>1, <3>2
  <2>3. ChildName(n, NameOf(n), i) = NameOf(k)
    BY <1>5, <2>1, ChildNameIs
  <2>4. Enter(at.output, NameOf(k), k) = w[k]
    <3>1. k - 1 = Reach(n, i)
      BY <2>1, <2>2
    <3> HIDE DEF k
    <3>2. w[k] = Enter(w[k - 1], NameOf(k), k)
      BY <2>2 DEF Logging
    <3>3. QED
      BY <1>5, <3>1, <3>2
  <2>5. child = [node |-> k, name |-> NameOf(k), i |-> 0, output |-> w[k]]
    BY <1>5, <2>3, <2>4 DEF ChildVisit, n, i
  <2>6. at.i < Cardinality(Kids(at.node))
    BY <1>8 DEF n, i, c
  <2>7. child \in Visits /\ Weight(child) < Weight(at)
    BY <2>6, VisitsGoOn
  <2> HIDE DEF k, child
  <2>8. InStep(child, w)
    <3>1. Cardinality(Kids(k)) \in Nat
      BY <1>0, <2>2, FewKids
    <3>2. Reach(k, 0) = k /\ 0 <= Cardinality(Kids(k))
      BY <3>1 DEF Reach
    <3>3. QED
      BY <2>5, <3>2 DEF InStep
  <2>9. f[child] = w[End(k)]
    BY <1>4, <2>5, <2>7, <2>8
  <2>10. f[child] \in Outputs
    BY <2>7 DEF Visiting
  <2> DEFINE next == NextVisit(at, f[child])
  <2>11. next \in Visits /\ Weight(next) < Weight(at)
    BY <2>6, <2>10, VisitsGoOn
  <2>12. next = [node |-> n, name |-> NameOf(n), i |-> i + 1, output |-> w[End(k)]]
    BY <1>5, <2>9 DEF NextVisit, n, i
  <2>13. f[at] = f[next]
    <3>1. ~(at.i >= Cardinality(Kids(at.node)))
      BY <1>5, <1>8 DEF n, i, c
    <3>2. QED
      BY <1>5, <3>1 DEF TraversalFrom, child
  <2> HIDE DEF next
  <2>14. InStep(next, w)
    <3>1. i + 1 <= Cardinality(Kids(n)) /\ i + 1 # 0 /\ (i + 1) - 1 = i
      BY <1>5, <1>8 DEF c
    <3>2. Reach(n, i + 1) = End(k)
      BY <3>1 DEF Reach, k
    <3>3. QED
      BY <2>12, <3>1, <3>2 DEF InStep
  <2>15. f[next] = w[End(n)]
    BY <1>4, <2>11, <2>12, <2>14
  <2>16. QED
    BY <1>3, <2>13, <2>15 DEF n
<1>9. QED
  BY <1>7, <1>8

LEMMA TraversalIsLog ==
  ASSUME Document, NEW w, Logging(w)
  PROVE  TraversalNode(1, <<>>, <<>>) = w[Len(doc)]
<1>0. Len(doc) \in Nat /\ Nodes = 1 .. Len(doc) /\ 1 \in 1 .. Len(doc)
  BY DocumentPlaces
<1> DEFINE at == [node |-> 1, name |-> <<>>, i |-> 0, output |-> Enter(<<>>, <<>>, 1)]
<1>1. PICK f : Visiting(f) /\ TraversalNode(1, <<>>, <<>>) = f[at]
  BY VisitFunction
<1>2. NameOf(1) = <<>> /\ <<>> \in VarNames
  BY NameOfType, NamesTypes
<1>3. w[1] = Enter(<<>>, <<>>, 1) /\ w[1] \in Outputs
  <2>1. w[1] = Enter(w[1 - 1], NameOf(1), 1) /\ w[0] = <<>> /\ 1 - 1 = 0 /\ w[1] \in Outputs
    BY <1>0 DEF Logging
  <2>2. QED
    BY <1>2, <2>1
<1>4. at \in Visits
  BY <1>0, <1>2, <1>3 DEF Visits
<1>5. InStep(at, w)
  <2>1. Cardinality(Kids(1)) \in Nat
    BY <1>0, FewKids
  <2>2. QED
    BY <1>2, <1>3, <2>1 DEF InStep, Reach
<1>6. f[at] = w[End(1)]
  <2> DEFINE n == at.node
  <2>1. n = 1
    OBVIOUS
  <2> HIDE DEF at
  <2>2. f[at] = w[End(n)]
    BY <1>1, <1>4, <1>5, VisitsInOrder
  <2>3. QED
    BY <2>1, <2>2
<1>7. End(1) = Len(doc)
  <2>1. ASSUME End(1) # Len(doc)
        PROVE  FALSE
    <3> DEFINE n == End(1) + 1
    <3>1. n \in 1 .. Len(doc) /\ Depth(n) <= Depth(1) /\ End(1) \in 1 .. Len(doc)
      BY <1>0, <2>1, EndStops, EndIs
    <3>2. n \in 2 .. Len(doc)
      BY <1>0, <3>1
    <3> HIDE DEF n
    <3>3. Depth(n) = Depth(Parent(n)) + 1 /\ Parent(n) \in 1 .. Len(doc)
      BY <3>2, HasParent
    <3>4. Depth(Parent(n)) \in Nat /\ Depth(1) = 0
      BY <3>3, DocumentPlaces DEF Document
    <3>5. QED
      BY <3>1, <3>3, <3>4
  <2>2. QED
    BY <2>1
<1>8. QED
  BY <1>1, <1>6, <1>7

\* One entry for each name of the first k nodes, in the order in which the
\* names occur first, and with the last of their nodes.
LastOfEach(output, k) ==
  /\ output \in Outputs
  /\ \A j \in 1 .. k : \E e \in DOMAIN output : output[e].name = NameOf(j)
  /\ \A e \in DOMAIN output :
       /\ output[e].node \in 1 .. k
       /\ output[e].name = NameOf(output[e].node)
       /\ \A j \in 1 .. k : NameOf(j) = output[e].name => j <= output[e].node
  /\ \A d, e \in DOMAIN output :
       d < e => \E j \in 1 .. k :
                  /\ NameOf(j) = output[d].name
                  /\ \A m \in 1 .. k : NameOf(m) = output[e].name => j < m

LEMMA EnterLast ==
  ASSUME Document, NEW k \in 1 .. Len(doc), NEW output, LastOfEach(output, k - 1)
  PROVE  LastOfEach(Enter(output, NameOf(k), k), k)
<1>0. /\ Len(doc) \in Nat /\ Nodes = 1 .. Len(doc) /\ k \in Nodes /\ k \in Nat /\ k > 0
      /\ NameOf(k) \in VarNames
  <2>1. Len(doc) \in Nat /\ Nodes = 1 .. Len(doc)
    BY DocumentPlaces
  <2>2. QED
    BY <2>1, NameOfType
<1> DEFINE name == NameOf(k)
           new == [name |-> name, node |-> k]
           o == Enter(output, name, k)
           D == DOMAIN output
<1>1. output \in Outputs /\ o \in Outputs
  BY <1>0, EnterType DEF LastOfEach
<1>2. \A e \in D :
        /\ output[e].node \in 1 .. k - 1
        /\ output[e].name = NameOf(output[e].node)
        /\ \A j \in 1 .. k - 1 : NameOf(j) = output[e].name => j <= output[e].node
  BY DEF LastOfEach
<1>3. \A j \in 1 .. k - 1 : \E e \in D : output[e].name = NameOf(j)
  BY DEF LastOfEach
<1>4. \A d, e \in D :
        d < e => \E j \in 1 .. k - 1 :
                   /\ NameOf(j) = output[d].name
                   /\ \A m \in 1 .. k - 1 : NameOf(m) = output[e].name => j < m
  BY DEF LastOfEach
<1>5. \A j \in 1 .. k : j = k \/ j \in 1 .. k - 1
  BY <1>0
<1>6. /\ \A j \in 1 .. k - 1 : j \in 1 .. k /\ j < k
      /\ k \in 1 .. k
  BY <1>0
<1>7. output \in Seq(Entries) /\ Len(output) \in Nat /\ D = 1 .. Len(output)
  <2>1. output \in Seq(Entries)
    BY <1>1 DEF Outputs, Entries
  <2>2. QED
    BY <2>1
<1>8. CASE \E e \in D : output[e].name = name
  <2>1. o = [e \in D |-> IF output[e].name = name THEN new ELSE output[e]]
    BY <1>8 DEF Enter
  <2>2. DOMAIN o = D /\ \A e \in D : o[e] = IF output[e].name = name THEN new ELSE output[e]
    BY <2>1
  <2>3. new.name = name /\ new.node = k
    OBVIOUS
  <2> HIDE DEF new, o, D, name
  <2>4. \A e \in D :
          /\ o[e].name = output[e].name
          /\ o[e].node = IF output[e].name = name THEN k ELSE output[e].node
    BY <2>2, <2>3
  <2>5. \A j \in 1 .. k : \E e \in DOMAIN o : o[e].name = NameOf(j)
    <3>1. \E e \in DOMAIN o : o[e].name = NameOf(k)
      BY <1>8, <2>2, <2>4 DEF name
    <3>2. \A j \in 1 .. k - 1 : \E e \in DOMAIN o : o[e].name = NameOf(j)
      BY <1>3, <2>2, <2>4
    <3>3. QED
      BY <1>5, <3>1, <3>2
  <2>6. ASSUME NEW e \in D
        PROVE  /\ o[e].node \in 1 .. k
               /\ o[e].name = NameOf(o[e].node)
               /\ \A j \in 1 .. k : NameOf(j) = o[e].name => j <= o[e].node
    <3>1. CASE output[e].name = name
      <4>1. o[e].node = k /\ o[e].name = name
        BY <2>4, <3>1
      <4>2. \A j \in 1 .. k : j <= k
        BY <1>0
      <4>3. QED
        BY <1>6, <4>1, <4>2 DEF name
    <3>2. CASE output[e].name # name
      <4>1. o[e].node = output[e].node /\ o[e].name = output[e].name
        BY <2>4, <3>2
      <4>2. \A j \in 1 .. k : NameOf(j) = o[e].name => j \in 1 .. k - 1
        BY <1>5, <3>2, <4>1 DEF name
      <4>3. QED
        BY <1>2, <1>6, <4>1, <4>2
    <3>3. QED
      BY <3>1, <3>2
  <2>7. ASSUME NEW d \in D, NEW e \in D, d < e
        PROVE  \E j \in 1 .. k :
                 /\ NameOf(j) = o[d].name
                 /\ \A m \in 1 .. k : NameOf(m) = o[e].name => j < m
    <3>1. PICK j \in 1 .. k - 1 :
            /\ NameOf(j) = output[d].name
            /\ \A m \in 1 .. k - 1 : NameOf(m) = output[e].name => j < m
      BY <1>4, <2>7
    <3>2. \A m \in 1 .. k : NameOf(m) = output[e].name => j < m
      BY <1>5, <1>6, <3>1
    <3>3. QED
      BY <1>6, <2>4, <3>1, <3>2
  <2>8. QED
    <3>1. LastOfEach(o, k)
      BY <1>1, <2>2, <2>5, <2>6, <2>7 DEF LastOfEach
    <3>2. QED
      BY <3>1 DEF o, name
<1>9. CASE ~\E e \in D : output[e].name = name
  <2> DEFINE l == Len(output)
  <2>1. o = Append(output, new) /\ new \in Entries
    BY <1>0, <1>9 DEF Enter, Entries
  <2>2. /\ DOMAIN o = 1 .. l + 1
        /\ \A e \in D : o[e] = output[e]
        /\ o[l + 1] = new
    <3> HIDE DEF new, o
    <3>1. QED
      BY <1>7, <2>1
  <2>3. new.name = name /\ new.node = k
    OBVIOUS
  <2>4. l \in Nat /\ D = 1 .. l
    BY <1>7
  <2> HIDE DEF new, o, D, name, l
  <2>5. /\ o[l + 1].name = name /\ o[l + 1].node = k
        /\ l + 1 \in DOMAIN o
        /\ \A e \in D : e \in DOMAIN o /\ e < l + 1
        /\ \A e \in DOMAIN o : e \in D \/ e = l + 1
    BY <2>2, <2>3, <2>4
  <2>6. \A j \in 1 .. k - 1 : NameOf(j) # name
    BY <1>3, <1>9
  <2>7. \A j \in 1 .. k : \E e \in DOMAIN o : o[e].name = NameOf(j)
    <3>1. \E e \in DOMAIN o : o[e].name = NameOf(k)
      BY <2>5 DEF name
    <3>2. \A j \in 1 .. k - 1 : \E e \in DOMAIN o : o[e].name = NameOf(j)
      BY <1>3, <2>2, <2>5
    <3>3. QED
      BY <1>5, <3>1, <3>2
  <2>8. ASSUME NEW e \in DOMAIN o
        PROVE  /\ o[e].node \in 1 .. k
               /\ o[e].name = NameOf(o[e].node)
               /\ \A j \in 1 .. k : NameOf(j) = o[e].name => j <= o[e].node
    <3>1. CASE e = l + 1
      <4>1. \A j \in 1 .. k : j <= k
        BY <1>0
      <4>2. QED
        BY <1>6, <2>5, <3>1, <4>1 DEF name
    <3>2. CASE e \in D
      <4>1. o[e] = output[e] /\ output[e].name # name
        BY <1>9, <2>2, <3>2
      <4>2. \A j \in 1 .. k : NameOf(j) = o[e].name => j \in 1 .. k - 1
        BY <1>5, <4>1 DEF name
      <4>3. QED
        BY <1>2, <1>6, <3>2, <4>1, <4>2
    <3>3. QED
      BY <2>5, <3>1, <3>2
  <2>9. ASSUME NEW d \in DOMAIN o, NEW e \in DOMAIN o, d < e
        PROVE  \E j \in 1 .. k :
                 /\ NameOf(j) = o[d].name
                 /\ \A m \in 1 .. k : NameOf(m) = o[e].name => j < m
    <3>1. d \in D
      BY <2>2, <2>4, <2>9
    <3>2. CASE e = l + 1
      <4>1. output[d].node \in 1 .. k - 1 /\ NameOf(output[d].node) = o[d].name
        BY <1>2, <2>2, <3>1
      <4>2. \A m \in 1 .. k : NameOf(m) = o[e].name => m = k
        BY <1>5, <2>5, <2>6, <3>2
      <4>3. QED
        BY <1>6, <4>1, <4>2
    <3>3. CASE e \in D
      <4>1. PICK j \in 1 .. k - 1 :
              /\ NameOf(j) = output[d].name
              /\ \A m \in 1 .. k - 1 : NameOf(m) = output[e].name => j < m
        BY <1>4, <2>9, <3>1, <3>3
      <4>2. \A m \in 1 .. k : NameOf(m) = output[e].name => j < m
        BY <1>5, <1>6, <4>1
      <4>3. QED
        BY <1>6, <2>2, <3>1, <3>3, <4>1, <4>2
    <3>4. QED
      BY <2>5, <3>2, <3>3
  <2>10. QED
    <3>1. LastOfEach(o, k)
      BY <1>1, <2>7, <2>8, <2>9 DEF LastOfEach
    <3>2. QED
      BY <3>1 DEF o, name
<1>10. QED
  BY <1>8, <1>9

LEMMA LogKeepsLast ==
  ASSUME Document, NEW w, Logging(w)
  PROVE  LastOfEach(w[Len(doc)], Len(doc))
<1>0. Len(doc) \in Nat
  BY DocumentPlaces
<1> DEFINE Bad == {k \in 0 .. Len(doc) : ~LastOfEach(w[k], k)}
<1>1. SUFFICES ASSUME Bad # {} PROVE FALSE
  BY <1>0
<1>2. PICK k \in Bad : \A j \in Bad : k <= j
  <2>1. Bad \in SUBSET Nat
    OBVIOUS
  <2> HIDE DEF Bad
  <2>2. QED
    BY <1>1, <2>1, LeastExists
<1>3. CASE k = 0
  <2>1. w[0] = <<>> /\ <<>> \in Outputs /\ DOMAIN <<>> = {}
    BY DEF Logging, Outputs
  <2>2. LastOfEach(<<>>, 0)
    BY <2>1 DEF LastOfEach
  <2>3. QED
    BY <1>2, <1>3, <2>1, <2>2
<1>4. CASE k # 0
  <2>1. k \in 1 .. Len(doc) /\ k - 1 \in 0 .. Len(doc) /\ k - 1 < k /\ k \in Nat
    BY <1>0, <1>2, <1>4
  <2>2. LastOfEach(w[k - 1], k - 1)
    BY <1>2, <2>1
  <2>3. w[k] = Enter(w[k - 1], NameOf(k), k)
    BY <2>1 DEF Logging
  <2> HIDE DEF Bad
  <2>4. LastOfEach(w[k], k)
    BY <2>1, <2>2, <2>3, EnterLast
  <2>5. QED
    BY <1>2, <2>4 DEF Bad
<1>5. QED
  BY <1>3, <1>4

LEMMA FlattenedInOrder ==
  ASSUME Document
  PROVE  LastOfNameWins
<1>0. /\ Len(doc) \in Nat /\ Nodes = 1 .. Len(doc)
      /\ Nodes \in SUBSET Nat /\ Nodes \in SUBSET (0 .. Len(doc))
  BY DocumentPlaces
<1> DEFINE output == TraversalNode(1, <<>>, <<>>)
           names == [n \in Nodes |-> NameOf(n)]
           ofName(name) == {n \in Nodes : names[n] = name}
           first(e) == Min(ofName(output[e].name))
<1>1. LastOfEach(output, Len(doc))
  <2>1. PICK w : Logging(w)
    BY LogExists
  <2>2. QED
    BY <2>1, TraversalIsLog, LogKeepsLast
<1>2. \A n \in Nodes : names[n] = NameOf(n)
  OBVIOUS
<1>3. \A name : /\ ofName(name) \in SUBSET Nat
                /\ \A n : n \in ofName(name) <=> n \in Nodes /\ NameOf(n) = name
  BY <1>0
<1> HIDE DEF output, names, ofName
<1>4. {output[e].name : e \in DOMAIN output} = {names[n] : n \in Nodes}
  <2>1. \A e \in DOMAIN output : \E n \in Nodes : output[e].name = names[n]
    BY <1>0, <1>1, <1>2 DEF LastOfEach
  <2>2. \A n \in Nodes : \E e \in DOMAIN output : output[e].name = names[n]
    BY <1>0, <1>1, <1>2 DEF LastOfEach
  <2>3. QED
    BY <2>1, <2>2
<1>5. ASSUME NEW e \in DOMAIN output
      PROVE  /\ output[e].node \in ofName(output[e].name)
             /\ output[e].node = Max(ofName(output[e].name))
  <2> DEFINE S == ofName(output[e].name)
             x == output[e].node
  <2>1. x \in Nodes /\ NameOf(x) = output[e].name
    BY <1>0, <1>1 DEF LastOfEach
  <2>2. \A j \in Nodes : NameOf(j) = output[e].name => j <= x
    BY <1>0, <1>1 DEF LastOfEach
  <2>3. S \in SUBSET Nat /\ x \in S /\ \A y \in S : y <= x
    BY <1>3, <2>1, <2>2
  <2> HIDE DEF S, x
  <2>4. Max(S) = x
    BY <2>3, MaxIs
  <2>5. QED
    BY <2>3, <2>4 DEF S, x
<1>6. ASSUME NEW d \in DOMAIN output, NEW e \in DOMAIN output, d < e
      PROVE  first(d) < first(e)
  <2> DEFINE A == ofName(output[d].name)
             B == ofName(output[e].name)
  <2>1. A \in SUBSET Nat /\ A # {} /\ B \in SUBSET Nat /\ B # {}
    BY <1>3, <1>5
  <2>2. PICK j \in Nodes : /\ NameOf(j) = output[d].name
                           /\ \A m \in Nodes : NameOf(m) = output[e].name => j < m
    BY <1>0, <1>1, <1>6 DEF LastOfEach
  <2>3. j \in A /\ \A m \in B : j < m
    BY <1>3, <2>2
  <2> HIDE DEF A, B
  <2>4. Min(A) <= j /\ Min(A) \in Nat /\ j \in Nat
    BY <2>1, <2>3, MinOf
  <2>5. Min(B) \in B /\ Min(B) \in Nat
    BY <2>1, MinOf
  <2>6. Min(A) < Min(B)
    BY <2>3, <2>4, <2>5
  <2>7. QED
    BY <2>6 DEF A, B
<1>7. QED
  BY <1>4, <1>5, <1>6 DEF LastOfNameWins, output, names, ofName

LEMMA ContentTypes ==
  \A c \in Contents : /\ c[1] \in {"null", "seq", "map", "scalar"}
                      /\ c[2] \in Scalars \cup {""}
<1> SUFFICES ASSUME NEW c \in Contents
             PROVE  /\ c[1] \in {"null", "seq", "map", "scalar"}
                    /\ c[2] \in Scalars \cup {""}
  OBVIOUS
<1>1. \/ c = <<"null", "">> \/ c = <<"seq", "">> \/ c = <<"map", "">>
      \/ \E x \in Scalars : c = <<"scalar", x>>
  BY DEF Contents
<1>2. ASSUME NEW k, NEW x, c = <<k, x>>
      PROVE  c[1] = k /\ c[2] = x
  BY <1>2
<1>3. QED
  BY <1>1, <1>2, Zenon

LEMMA DocumentStarts == TreeInit => Document
<1> SUFFICES ASSUME TreeInit PROVE Document
  OBVIOUS
<1>0. MaxNodes \in Nat \ {0}
  BY TreeAssumption
<1>1. PICK c \in Contents : doc = <<Leaf(0, <<>>, c[1], c[2])>>
  BY DEF TreeInit
<1> DEFINE leaf == Leaf(0, <<>>, c[1], c[2])
<1>2. leaf \in Leaves /\ leaf.depth = 0
  <2>1. c[1] \in {"null", "seq", "map", "scalar"} /\ c[2] \in Scalars \cup {""}
    BY ContentTypes
  <2>2. <<>> \in VarNames
    BY DEF VarNames
  <2>3. QED
    BY <2>1, <2>2 DEF Leaf, Leaves
<1> HIDE DEF leaf
<1>3. doc \in Seq(Leaves) /\ Len(doc) = 1 /\ doc[1] = leaf
  BY <1>1, <1>2 DEF leaf
<1>4. QED
  BY <1>0, <1>2, <1>3 DEF Document, Depth

LEMMA DocumentGrows == Document /\ [AddNode]_doc => Document'
<1> SUFFICES ASSUME Document, [AddNode]_doc PROVE Document'
  OBVIOUS
<1>1. CASE doc' = doc
  BY <1>1 DEF Document, IsParent, Depth
<1>2. CASE AddNode
  <2>0. /\ Len(doc) \in Nat \ {0} /\ Nodes = 1 .. Len(doc) /\ doc \in Seq(Leaves)
        /\ \A n \in 1 .. Len(doc) : Depth(n) \in Nat
        /\ MaxNodes \in Nat
    BY DocumentPlaces, TreeAssumption DEF Document
  <2>1. PICK p \in Nodes, c \in Contents :
          /\ \A k \in p + 1 .. Len(doc) : Depth(k) > Depth(p)
          /\ \E key \in (IF doc[p].kind = "map" THEN Keys ELSE {<<>>}) :
               doc' = Append(doc, Leaf(Depth(p) + 1, key, c[1], c[2]))
    BY <1>2 DEF AddNode
  <2>2. PICK key \in (IF doc[p].kind = "map" THEN Keys ELSE {<<>>}) :
          doc' = Append(doc, Leaf(Depth(p) + 1, key, c[1], c[2]))
    BY <2>1
  <2>3. PICK leaf \in Leaves : /\ leaf = Leaf(Depth(p) + 1, key, c[1], c[2])
                              /\ leaf.depth = Depth(p) + 1
    <3>1. c[1] \in {"null", "seq", "map", "scalar"} /\ c[2] \in Scalars \cup {""}
      BY ContentTypes
    <3>2. key \in VarNames
      <4>1. Keys \subseteq VarNames
        BY TreeAssumption, Zenon DEF VarNames
      <4>2. <<>> \in VarNames
        BY DEF VarNames
      <4>3. QED
        BY <2>2, <4>1, <4>2
    <3>3. Depth(p) + 1 \in Nat
      BY <2>0
    <3>4. Leaf(Depth(p) + 1, key, c[1], c[2]) \in Leaves
      BY <3>1, <3>2, <3>3 DEF Leaf, Leaves
    <3>5. Leaf(Depth(p) + 1, key, c[1], c[2]).depth = Depth(p) + 1
      BY DEF Leaf
    <3>6. QED
      BY <3>4, <3>5
  <2>4. PICK l \in Nat \ {0} : l = Len(doc) /\ l < MaxNodes
    BY <1>2, <2>0 DEF AddNode
  <2>5. doc' = Append(doc, leaf)
    BY <2>2, <2>3
  <2>6. /\ doc' \in Seq(Leaves) /\ Len(doc') = l + 1
        /\ \A n \in 1 .. l : doc'[n] = doc[n]
        /\ doc'[l + 1] = leaf
    BY <2>0, <2>4, <2>5
  <2>7. /\ \A n \in 1 .. l : Depth(n)' = Depth(n)
        /\ Depth(l + 1)' = Depth(p) + 1
    BY <2>3, <2>6 DEF Depth
  <2>8. p \in 1 .. l /\ l \in Nat \ {0}
    BY <2>0, <2>4
  <2>9. Depth(1)' = 0 /\ Len(doc') \in 1 .. MaxNodes
    <3>1. Depth(1) = 0 /\ 1 \in 1 .. l
      BY <2>8 DEF Document
    <3>2. QED
      BY <2>0, <2>4, <2>6, <2>7, <2>8, <3>1
  <2>10. ASSUME NEW n \in 2 .. Len(doc')
         PROVE  \E q \in 1 .. n - 1 : IsParent(q, n)'
    <3>1. CASE n = l + 1
      <4>1. p \in 1 .. n - 1 /\ Depth(n)' = Depth(p)' + 1
        BY <2>7, <2>8, <3>1
      <4>2. ASSUME NEW k \in p + 1 .. n
            PROVE  Depth(k)' > Depth(p)'
        <5>1. CASE k = n
          BY <2>0, <2>4, <2>7, <2>8, <4>1, <5>1
        <5>2. CASE k # n
          <6>1. k \in p + 1 .. l /\ k \in 1 .. l
            BY <2>8, <3>1, <5>2
          <6>2. QED
            BY <2>1, <2>4, <2>7, <2>8, <6>1
        <5>3. QED
          BY <5>1, <5>2
      <4>3. QED
        BY <4>1, <4>2 DEF IsParent
    <3>2. CASE n # l + 1
      <4>1. n \in 2 .. l
        BY <2>6, <2>8, <3>2
      <4>2. PICK q \in 1 .. n - 1 : IsParent(q, n)
        BY <2>4, <4>1 DEF Document
      <4>3. q \in 1 .. l /\ n \in 1 .. l /\ \A k \in q + 1 .. n : k \in 1 .. l
        BY <2>8, <4>1
      <4>4. QED
        BY <2>7, <4>2, <4>3 DEF IsParent
    <3>3. QED
      BY <3>1, <3>2
  <2>11. QED
    BY <2>6, <2>9, <2>10 DEF Document
<1>3. QED
  BY <1>1, <1>2

-----------------------------------------------------------------------------
(* Every node of a document but the first lies below one before it, and    *)
(* all the nodes between them do: what TraversalNode walks through is a    *)
(* tree, written in the order it visits it (config.h 525-566).             *)
THEOREM DocumentsAreTrees == TreeSpec => []Document
<1>1. QED
  BY DocumentStarts, DocumentGrows, PTL DEF TreeSpec

(* LastOfNameWins: TraversalNode makes one entry of each name a document   *)
(* gives, in the order the names occur first, and with the last node of    *)
(* the name, however many keys hold points, occur twice or lie below       *)
(* another of the same name (config.h 525-566).                            *)
THEOREM LastEntryWins == TreeSpec => []LastOfNameWins
<1>1. QED
  BY DocumentsAreTrees, FlattenedInOrder, PTL

-----------------------------------------------------------------------------
(* Texts.  The trees are those of some height; a document is one.          *)

Heights == 0 .. MaxDepth + 1

LEMMA HeightTypes ==
  /\ MaxDepth \in Nat /\ MaxDepth + 1 \in Heights
  /\ \A h \in Heights : h \in Nat /\ (h # 0 => h - 1 \in Heights)
<1>1. MaxDepth \in Nat
  BY TreeAssumption
<1>2. QED
  BY <1>1 DEF Heights

LEMMA TreesTo ==
  ASSUME NEW n \in Heights
  PROVE  \E g : \A h \in 0 .. n : g[h] = TreesFrom(g, h)
<1> DEFINE Bad == {m \in Heights : ~\E g : \A h \in 0 .. m : g[h] = TreesFrom(g, h)}
<1>1. SUFFICES ASSUME Bad # {} PROVE FALSE
  OBVIOUS
<1>2. PICK m \in Bad : \A j \in Bad : m <= j
  <2>1. Bad \in SUBSET Nat
    BY HeightTypes
  <2> HIDE DEF Bad
  <2>2. QED
    BY <1>1, <2>1, LeastExists
<1>3. m \in Nat /\ m \in Heights
  BY <1>2, HeightTypes
<1>4. CASE m = 0
  <2> DEFINE g == [h \in {0} |-> {}]
  <2>1. \A h \in 0 .. m : h = 0
    BY <1>4
  <2>2. g[0] = TreesFrom(g, 0)
    BY DEF TreesFrom
  <2> HIDE DEF g
  <2>3. \A h \in 0 .. m : g[h] = TreesFrom(g, h)
    BY <2>1, <2>2
  <2>4. QED
    BY <1>2, <2>3
<1>5. CASE m # 0
  <2>1. m - 1 \in Heights /\ m - 1 < m
    BY <1>3, <1>5, HeightTypes
  <2>2. PICK f : \A h \in 0 .. m - 1 : f[h] = TreesFrom(f, h)
    <3>1. m - 1 \notin Bad
      <4> HIDE DEF Bad
      <4>1. QED
        BY <1>2, <1>3, <2>1
    <3>2. QED
      BY <2>1, <3>1
  <2> DEFINE g == [h \in 0 .. m |-> IF h = m THEN TreesFrom(f, m) ELSE f[h]]
  <2>3. /\ g[m] = TreesFrom(f, m)
        /\ \A h \in 0 .. m - 1 : g[h] = f[h]
    BY <1>3
  <2>4. \A h \in 0 .. m : /\ h = m \/ h \in 0 .. m - 1
                          /\ h # 0 => h - 1 \in 0 .. m - 1
    BY <1>3
  <2> HIDE DEF g
  <2>5. \A h \in 0 .. m : TreesFrom(g, h) = TreesFrom(f, h)
    <3> SUFFICES ASSUME NEW h \in 0 .. m PROVE TreesFrom(g, h) = TreesFrom(f, h)
      OBVIOUS
    <3>1. h # 0 => g[h - 1] = f[h - 1]
      BY <2>3, <2>4
    <3>2. QED
      BY <3>1 DEF TreesFrom
  <2>6. \A h \in 0 .. m : g[h] = TreesFrom(g, h)
    BY <2>2, <2>3, <2>4, <2>5
  <2>7. QED
    BY <1>2, <2>6
<1>6. QED
  BY <1>4, <1>5

LEMMA TreesOfIs ==
  \A h \in Heights : TreesOf[h] = TreesFrom(TreesOf, h)
<1> DEFINE solves(g) == g = [h \in Heights |-> TreesFrom(g, h)]
           trees == CHOOSE g : solves(g)
<1>1. PICK f : \A h \in 0 .. MaxDepth + 1 : f[h] = TreesFrom(f, h)
  BY TreesTo, HeightTypes
<1> DEFINE g == [h \in Heights |-> f[h]]
<1>2. \A h \in Heights : TreesFrom(g, h) = TreesFrom(f, h)
  <2> SUFFICES ASSUME NEW h \in Heights PROVE TreesFrom(g, h) = TreesFrom(f, h)
    OBVIOUS
  <2>1. h # 0 => g[h - 1] = f[h - 1]
    BY HeightTypes
  <2>2. QED
    BY <2>1 DEF TreesFrom
<1>3. g = [h \in Heights |-> TreesFrom(g, h)]
  BY <1>1, <1>2 DEF Heights
<1> HIDE DEF g
<1>4. solves(g)
  BY <1>3
<1> HIDE DEF solves
<1>5. solves(trees)
  BY <1>4
<1>6. TreesOf = trees
  BY DEF TreesOf, solves, Heights
<1>7. QED
  BY <1>5, <1>6 DEF solves

LEMMA TreesAre ==
  /\ TreesOf[0] = {}
  /\ \A h \in Heights \ {0} :
       TreesOf[h] = [kind : {"null", "scalar", "seq", "map"}, text : Texts,
                     of : Seq(VarNames \X TreesOf[h - 1])]
<1>1. 0 \in Heights
  BY HeightTypes DEF Heights
<1>2. QED
  BY <1>1, TreesOfIs DEF TreesFrom

LEMMA SeqGrows ==
  ASSUME NEW S, NEW T, S \subseteq T
  PROVE  Seq(S) \subseteq Seq(T)
OBVIOUS

LEMMA HigherTrees ==
  \A h \in Heights : h < MaxDepth + 1 => TreesOf[h] \subseteq TreesOf[h + 1]
<1> DEFINE Bad == {h \in Heights : h < MaxDepth + 1 /\ ~(TreesOf[h] \subseteq TreesOf[h + 1])}
<1>1. SUFFICES ASSUME Bad # {} PROVE FALSE
  OBVIOUS
<1>2. PICK h \in Bad : \A j \in Bad : h <= j
  <2>1. Bad \in SUBSET Nat
    BY HeightTypes
  <2> HIDE DEF Bad
  <2>2. QED
    BY <1>1, <2>1, LeastExists
<1>3. h \in Nat /\ h \in Heights /\ h + 1 \in Heights \ {0} /\ h # 0
  BY <1>2, HeightTypes, TreesAre DEF Heights
<1>4. h - 1 \in Heights /\ h - 1 < MaxDepth + 1 /\ (h - 1) + 1 = h /\ (h + 1) - 1 = h /\ h - 1 < h
  BY <1>2, <1>3, HeightTypes
<1>5. TreesOf[h - 1] \subseteq TreesOf[h]
  BY <1>2, <1>3, <1>4
<1>6. VarNames \X TreesOf[h - 1] \subseteq VarNames \X TreesOf[h]
  BY <1>5
<1>7. Seq(VarNames \X TreesOf[h - 1]) \subseteq Seq(VarNames \X TreesOf[h])
  BY <1>6, SeqGrows
<1>8. TreesOf[h] \subseteq TreesOf[h + 1]
  <2> DEFINE A == Seq(VarNames \X TreesOf[h - 1])
             B == Seq(VarNames \X TreesOf[h])
             K == {"null", "scalar", "seq", "map"}
  <2>1. TreesOf[h] = [kind : K, text : Texts, of : A]
    BY <1>3, TreesAre
  <2>2. TreesOf[h + 1] = [kind : K, text : Texts, of : B]
    <3>1. TreesOf[h + 1] = [kind : K, text : Texts, of : Seq(VarNames \X TreesOf[(h + 1) - 1])]
      BY <1>3, TreesAre
    <3>2. QED
      BY <1>4, <3>1
  <2>3. A \subseteq B
    BY <1>7
  <2> HIDE DEF A, B, K
  <2>4. QED
    BY <2>1, <2>2, <2>3
<1>9. QED
  BY <1>2, <1>8

LEMMA AllTrees ==
  \A h \in Heights : TreesOf[h] \subseteq Trees
<1> DEFINE size == [h \in Heights |-> MaxDepth + 1 - h]
           Bad == {h \in Heights : ~(TreesOf[h] \subseteq Trees)}
<1>1. SUFFICES ASSUME Bad # {} PROVE FALSE
  OBVIOUS
<1>2. PICK h \in Bad : \A y \in Heights : size[y] < size[h] => y \notin Bad
  <2>1. size \in [Heights -> Nat] /\ Bad \in SUBSET Heights
    BY HeightTypes DEF Heights
  <2> HIDE DEF Bad, size
  <2>2. QED
    BY <1>1, <2>1, SmallestPlace
<1>3. h # MaxDepth + 1
  BY <1>2 DEF Trees
<1>4. h \in Heights /\ h < MaxDepth + 1 /\ h + 1 \in Heights /\ size[h + 1] < size[h]
  BY <1>2, <1>3, HeightTypes DEF Heights
<1>5. TreesOf[h + 1] \subseteq Trees /\ TreesOf[h] \subseteq TreesOf[h + 1]
  BY <1>2, <1>4, HigherTrees
<1>6. QED
  BY <1>2, <1>5

-----------------------------------------------------------------------------
(* The conversions of a container keep what those of its elements do.      *)

\* The kinds of the nodes elements are added to.
Branches == {"seq", "map"}

ItemsOf(h) == VarNames \X TreesOf[h - 1]

LEMMA TreeItems ==
  ASSUME NEW h \in Heights \ {0}, NEW tree \in TreesOf[h], NEW kind
  PROVE  Items(kind, tree) \in Seq(ItemsOf(h))
<1>1. tree.of \in Seq(ItemsOf(h))
  <2>1. TreesOf[h] = [kind : {"null", "scalar", "seq", "map"}, text : Texts,
                      of : Seq(ItemsOf(h))]
    BY TreesAre DEF ItemsOf
  <2>2. QED
    BY <2>1
<1>2. QED
  BY <1>1 DEF Items

LEMMA NodeOfTree ==
  ASSUME NEW h \in Heights \ {0}, NEW kind \in Branches,
         NEW items \in Seq(ItemsOf(h))
  PROVE  /\ NodeOf(kind, items) \in TreesOf[h]
         /\ Items(kind, NodeOf(kind, items)) = items
         /\ items # <<>> => NodeOf(kind, items) # Null
<1> DEFINE node == [kind |-> kind, text |-> "", of |-> items]
<1>0. /\ "" \in Texts /\ <<>> \in Seq(ItemsOf(h))
      /\ kind \in {"null", "scalar", "seq", "map"} /\ kind # "null"
  BY DEF Texts, Branches
<1>1. TreesOf[h] = [kind : {"null", "scalar", "seq", "map"}, text : Texts,
                    of : Seq(ItemsOf(h))]
  BY TreesAre DEF ItemsOf
<1>2. node \in TreesOf[h] /\ Null \in TreesOf[h]
  BY <1>0, <1>1 DEF Null
<1>3. /\ Null.kind = "null" /\ node.kind = kind /\ node.of = items
  BY DEF Null
<1>4. CASE items = <<>>
  BY <1>0, <1>2, <1>3, <1>4 DEF NodeOf, Items
<1>5. CASE items # <<>>
  <2>1. NodeOf(kind, items) = node
    BY <1>5 DEF NodeOf
  <2>2. QED
    BY <1>0, <1>2, <1>3, <2>1 DEF Items
<1>6. QED
  BY <1>4, <1>5

\* What a text converts to is written as a text, no higher, that converts to it.
Kept(cast, h) ==
  \A tree \in cast.reads \cap TreesOf[h] :
    /\ cast.from[tree] \in cast.values
    /\ cast.to[cast.from[tree]] \in cast.reads \cap TreesOf[h]
    /\ cast.from[cast.to[cast.from[tree]]] = cast.from[tree]

Keeps(cast) == cast.reads \subseteq Trees /\ \A h \in Heights : Kept(cast, h)

LEMMA IntKeeps == Keeps(IntCast)
<1> DEFINE node(x) == [kind |-> "scalar", text |-> x, of |-> <<>>]
           reads == {tree \in Trees : tree.kind = "scalar" /\ tree.text \in Ints}
           from == [tree \in Trees |-> tree.text]
           to == [x \in Texts |-> node(x)]
<1>1. /\ IntCast.reads = reads /\ IntCast.from = from
      /\ IntCast.to = to /\ IntCast.values = Texts
  BY DEF IntCast
<1>2. ASSUME NEW h \in Heights, NEW tree \in reads \cap TreesOf[h]
      PROVE  /\ from[tree] \in Texts
             /\ to[from[tree]] \in reads \cap TreesOf[h]
             /\ from[to[from[tree]]] = from[tree]
  <2>1. h \in Heights \ {0} /\ tree \in Trees
    BY <1>2, TreesAre
  <2>2. TreesOf[h] = [kind : {"null", "scalar", "seq", "map"}, text : Texts,
                      of : Seq(VarNames \X TreesOf[h - 1])]
    BY <2>1, TreesAre
  <2>3. tree.text \in Texts /\ tree.text \in Ints
    BY <1>2, <2>2
  <2>4. node(tree.text) \in TreesOf[h]
    BY <2>2, <2>3
  <2>5. node(tree.text) \in Trees
    BY <2>1, <2>4, AllTrees
  <2>6. from[tree] = tree.text /\ to[tree.text] = node(tree.text)
    BY <2>1, <2>3
  <2>7. from[node(tree.text)] = tree.text /\ node(tree.text) \in reads
    BY <2>3, <2>5
  <2>8. QED
    BY <2>3, <2>4, <2>6, <2>7
<1> HIDE DEF reads, from, to
<1>3. reads \subseteq Trees
  BY DEF reads
<1>4. QED
  BY <1>1, <1>2, <1>3 DEF Keeps, Kept

LEMMA StringKeeps == Keeps(StringCast)
<1>1. /\ StringCast.reads = Trees /\ StringCast.values = Trees
      /\ \A tree \in Trees : StringCast.from[tree] = tree /\ StringCast.to[tree] = tree
  BY DEF StringCast
<1>2. QED
  BY <1>1 DEF Keeps, Kept

\* What the trees lower than h convert to.
Converted(cast, h) == {cast.from[tree] : tree \in cast.reads \cap TreesOf[h - 1]}

LEMMA ConvertedKept ==
  ASSUME NEW cast, Keeps(cast), NEW h \in Heights \ {0}, NEW x \in Converted(cast, h)
  PROVE  /\ x \in cast.values
         /\ cast.to[x] \in cast.reads \cap TreesOf[h - 1]
         /\ cast.from[cast.to[x]] = x
<1>1. PICK tree \in cast.reads \cap TreesOf[h - 1] : x = cast.from[tree]
  BY DEF Converted
<1>2. h - 1 \in Heights
  BY HeightTypes
<1>3. QED
  BY <1>1, <1>2 DEF Keeps, Kept

\* The elements of a readable text.
LEMMA ReadItems ==
  ASSUME NEW cast, NEW kind, NEW h \in Heights \ {0},
         NEW tree \in Readable(kind, cast) \cap TreesOf[h]
  PROVE  /\ Items(kind, tree) \in Seq(ItemsOf(h))
         /\ \A i \in DOMAIN Items(kind, tree) :
              /\ Items(kind, tree)[i][1] \in VarNames
              /\ cast.from[Items(kind, tree)[i][2]] \in Converted(cast, h)
<1> DEFINE items == Items(kind, tree)
<1>1. items \in Seq(ItemsOf(h))
  BY TreeItems
<1>2. \A i \in DOMAIN items : items[i][2] \in cast.reads
  BY DEF Readable
<1> HIDE DEF items
<1>3. \A i \in DOMAIN items : items[i] \in ItemsOf(h)
  BY <1>1
<1>4. \A i \in DOMAIN items : items[i][1] \in VarNames /\ items[i][2] \in TreesOf[h - 1]
  BY <1>3 DEF ItemsOf
<1>5. \A i \in DOMAIN items : cast.from[items[i][2]] \in Converted(cast, h)
  BY <1>2, <1>4 DEF Converted
<1>6. QED
  BY <1>1, <1>4, <1>5 DEF items

\* Elements written one after the other are read back.
LEMMA WrittenItems ==
  ASSUME NEW cast, Keeps(cast), NEW h \in Heights \ {0}, NEW kind \in Branches,
         NEW items \in Seq(ItemsOf(h)),
         \A i \in DOMAIN items : items[i][2] \in cast.reads
  PROVE  /\ NodeOf(kind, items) \in Readable(kind, cast) \cap TreesOf[h]
         /\ Items(kind, NodeOf(kind, items)) = items
         /\ items # <<>> => NodeOf(kind, items) # Null
<1> DEFINE node == NodeOf(kind, items)
<1>1. /\ node \in TreesOf[h] /\ Items(kind, node) = items
      /\ items # <<>> => node # Null
  BY NodeOfTree
<1>2. node \in Trees
  BY <1>1, AllTrees
<1> HIDE DEF node
<1>3. node \in Readable(kind, cast)
  BY <1>1, <1>2 DEF Readable
<1>4. QED
  BY <1>1, <1>3 DEF node

LEMMA SequenceKept ==
  ASSUME NEW cast, Keeps(cast), NEW h \in Heights \ {0},
         NEW elements \in Seq(Converted(cast, h))
  PROVE  /\ Sequence(cast, elements) \in Readable("seq", cast) \cap TreesOf[h]
         /\ Elements(cast, Items("seq", Sequence(cast, elements))) = elements
         /\ elements # <<>> => Sequence(cast, elements) # Null
<1> DEFINE items == [i \in DOMAIN elements |-> <<<<>>, cast.to[elements[i]]>>]
<1>0. \A i \in DOMAIN elements : elements[i] \in Converted(cast, h)
  OBVIOUS
<1>1. \A i \in DOMAIN elements :
        /\ cast.to[elements[i]] \in cast.reads \cap TreesOf[h - 1]
        /\ cast.from[cast.to[elements[i]]] = elements[i]
  BY <1>0, ConvertedKept
<1>2. <<>> \in VarNames
  BY DEF VarNames
<1>3. /\ DOMAIN items = DOMAIN elements /\ DOMAIN elements = 1 .. Len(elements)
      /\ Len(elements) \in Nat
      /\ \A i \in DOMAIN items : items[i][2] = cast.to[elements[i]]
  OBVIOUS
<1>4. items \in Seq(ItemsOf(h))
  <2>1. \A i \in DOMAIN elements : <<<<>>, cast.to[elements[i]]>> \in ItemsOf(h)
    BY <1>1, <1>2 DEF ItemsOf
  <2>2. items \in [1 .. Len(elements) -> ItemsOf(h)]
    BY <1>3, <2>1
  <2> HIDE DEF items
  <2>3. QED
    BY <1>3, <2>2
<1>5. Sequence(cast, elements) = NodeOf("seq", items)
  BY DEF Sequence
<1>6. elements # <<>> => items # <<>>
  BY <1>3
<1> HIDE DEF items
<1>7. "seq" \in Branches /\ \A i \in DOMAIN items : items[i][2] \in cast.reads
  BY <1>1, <1>3 DEF Branches
<1>8. /\ NodeOf("seq", items) \in Readable("seq", cast) \cap TreesOf[h]
      /\ Items("seq", NodeOf("seq", items)) = items
      /\ items # <<>> => NodeOf("seq", items) # Null
  BY <1>4, <1>7, WrittenItems
<1>9. Elements(cast, items) = elements
  <2>1. \A i \in DOMAIN items : cast.from[items[i][2]] = elements[i]
    BY <1>1, <1>3
  <2>2. Elements(cast, items) = [i \in DOMAIN elements |-> elements[i]]
    BY <1>3, <2>1 DEF Elements
  <2>3. QED
    BY <2>2
<1>10. QED
  BY <1>5, <1>6, <1>8, <1>9

\* A text of a container's kind that is not empty is not written as null.
Fills(kind, cast) ==
  \A tree \in cast.reads :
    tree.kind = kind /\ tree.of # <<>> => cast.to[cast.from[tree]] # Null

LEMMA ElementsRead ==
  ASSUME NEW cast, NEW h \in Heights \ {0}, NEW tree \in Readable("seq", cast) \cap TreesOf[h]
  PROVE  /\ Elements(cast, Items("seq", tree)) \in Seq(Converted(cast, h))
         /\ (tree.kind = "seq" /\ tree.of # <<>>) => Elements(cast, Items("seq", tree)) # <<>>
<1> DEFINE items == Items("seq", tree)
           S == Converted(cast, h)
<1>1. /\ items \in Seq(ItemsOf(h))
      /\ \A i \in DOMAIN items : cast.from[items[i][2]] \in S
  BY ReadItems
<1>2. tree.kind = "seq" => items = tree.of
  BY DEF Items
<1> HIDE DEF items, S
<1>3. DOMAIN items = 1 .. Len(items) /\ Len(items) \in Nat
  BY <1>1
<1>4. Elements(cast, items) \in [1 .. Len(items) -> S]
  BY <1>1, <1>3 DEF Elements
<1>5. Elements(cast, items) \in Seq(S)
  BY <1>3, <1>4
<1>6. items # <<>> => Elements(cast, items) # <<>>
  BY <1>1, <1>3 DEF Elements
<1>7. QED
  BY <1>2, <1>5, <1>6 DEF items, S

LEMMA ConvertedTypes ==
  ASSUME NEW cast, Keeps(cast), NEW h \in Heights \ {0}
  PROVE  /\ Converted(cast, h) \subseteq cast.values
         /\ Seq(Converted(cast, h)) \subseteq Seq(cast.values)
<1>1. Converted(cast, h) \subseteq cast.values
  BY ConvertedKept
<1>2. QED
  BY <1>1, SeqGrows

\* A text that is read is a tree of some height.
LEMMA TopTrees ==
  /\ MaxDepth + 1 \in Heights \ {0}
  /\ Trees = TreesOf[MaxDepth + 1]
BY HeightTypes DEF Trees

LEMMA VectorKeeps ==
  ASSUME NEW cast, Keeps(cast)
  PROVE  Keeps(VectorCast(cast)) /\ Fills("seq", VectorCast(cast))
<1> DEFINE reads == Readable("seq", cast)
           read(tree) == Elements(cast, Items("seq", tree))
           values == Seq(cast.values)
           from == [tree \in Trees |-> read(tree)]
           to == [x \in values |-> Sequence(cast, x)]
           vector == VectorCast(cast)
<1>1. /\ vector.reads = reads /\ vector.from = from
      /\ vector.to = to /\ vector.values = values
  BY DEF VectorCast
<1>2. reads \subseteq Trees
  BY DEF Readable
<1>3. /\ \A tree \in reads : from[tree] = read(tree)
      /\ \A x \in values : to[x] = Sequence(cast, x)
  BY <1>2
<1> HIDE DEF from, to, vector
<1>4. ASSUME NEW h \in Heights \ {0}, NEW tree \in reads \cap TreesOf[h]
      PROVE  /\ from[tree] \in values
             /\ to[from[tree]] \in reads \cap TreesOf[h]
             /\ from[to[from[tree]]] = from[tree]
             /\ (tree.kind = "seq" /\ tree.of # <<>>) => to[from[tree]] # Null
  <2> DEFINE x == read(tree)
             text == Sequence(cast, x)
  <2>1. /\ x \in Seq(Converted(cast, h))
        /\ (tree.kind = "seq" /\ tree.of # <<>>) => x # <<>>
    BY <1>4, ElementsRead
  <2>2. x \in values
    BY <2>1, ConvertedTypes
  <2> HIDE DEF x
  <2>3. /\ text \in reads \cap TreesOf[h]
        /\ read(text) = x
        /\ x # <<>> => text # Null
    BY <2>1, SequenceKept
  <2> HIDE DEF text, reads, values
  <2>4. from[tree] = x /\ to[x] = text /\ from[text] = x
    BY <1>3, <1>4, <2>2, <2>3 DEF x, text
  <2>5. QED
    BY <2>1, <2>2, <2>3, <2>4
<1> HIDE DEF reads, values
<1>5. \A h \in Heights : Kept(vector, h)
  BY <1>1, <1>4, TreesAre DEF Kept
<1>6. Fills("seq", vector)
  BY <1>1, <1>2, <1>4, TopTrees DEF Fills
<1>7. QED
  BY <1>1, <1>2, <1>5, <1>6 DEF Keeps, vector

\* SetToSeq lists the elements of a finite set, each once.
LEMMA Listed ==
  ASSUME NEW S, IsFiniteSet(S)
  PROVE  /\ SetToSeq(S) \in Seq(S)
         /\ Range(SetToSeq(S)) = S
         /\ \A i, j \in DOMAIN SetToSeq(S) : SetToSeq(S)[i] = SetToSeq(S)[j] => i = j
<1> DEFINE n == Cardinality(S)
           f == SetToSeq(S)
<1>1. n \in Nat /\ ExistsBijection(1 .. n, S)
  BY FS_CardinalityType
<1>2. PICK g : g \in Bijection(1 .. n, S)
  BY <1>1 DEF ExistsBijection
<1>3. g \in [1 .. n -> S] /\ IsInjective(g)
  BY <1>2 DEF Bijection, Injection
<1>4. f \in [1 .. n -> S] /\ IsInjective(f)
  BY <1>3 DEF SetToSeq
<1>5. IsFiniteSet(1 .. n) /\ Cardinality(1 .. n) = n
  BY <1>1, FS_Interval
<1> HIDE DEF f
<1>6. f \in Injection(1 .. n, S)
  BY <1>4 DEF Injection
<1>7. f \in Surjection(1 .. n, S)
  BY <1>5, <1>6, FS_Injection
<1>8. f \in Seq(S) /\ DOMAIN f = 1 .. n
  BY <1>1, <1>4
<1>9. Range(f) = S
  BY <1>4, <1>7, <1>8 DEF Surjection, Range
<1>10. \A i, j \in DOMAIN f : f[i] = f[j] => i = j
  BY <1>4 DEF IsInjective
<1>11. QED
  BY <1>8, <1>9, <1>10 DEF f

LEMMA RangeFinite ==
  ASSUME NEW S, NEW s \in Seq(S)
  PROVE  IsFiniteSet(Range(s)) /\ Range(s) \subseteq S /\ (s # <<>> => Range(s) # {})
<1>1. Len(s) \in Nat /\ DOMAIN s = 1 .. Len(s)
  OBVIOUS
<1>2. IsFiniteSet(DOMAIN s)
  BY <1>1, FS_Interval
<1>3. s \in Surjection(DOMAIN s, Range(s))
  BY DEF Surjection, Range
<1>4. IsFiniteSet(Range(s))
  BY <1>2, <1>3, FS_Surjection
<1>5. QED
  BY <1>1, <1>4 DEF Range

LEMMA SetKeeps ==
  ASSUME NEW cast, Keeps(cast)
  PROVE  Keeps(SetCast(cast)) /\ Fills("seq", SetCast(cast))
<1> DEFINE reads == Readable("seq", cast)
           read(tree) == Elements(cast, Items("seq", tree))
           values == SUBSET cast.values
           from == [tree \in Trees |-> Range(read(tree))]
           to == [x \in values |-> Sequence(cast, SetToSeq(x))]
           set == SetCast(cast)
<1>1. /\ set.reads = reads /\ set.from = from
      /\ set.to = to /\ set.values = values
  BY DEF SetCast
<1>2. reads \subseteq Trees
  BY DEF Readable
<1>3. /\ \A tree \in reads : from[tree] = Range(read(tree))
      /\ \A x \in values : to[x] = Sequence(cast, SetToSeq(x))
  BY <1>2
<1> HIDE DEF from, to, set
<1>4. ASSUME NEW h \in Heights \ {0}, NEW tree \in reads \cap TreesOf[h]
      PROVE  /\ from[tree] \in values
             /\ to[from[tree]] \in reads \cap TreesOf[h]
             /\ from[to[from[tree]]] = from[tree]
             /\ (tree.kind = "seq" /\ tree.of # <<>>) => to[from[tree]] # Null
  <2> DEFINE x == Range(read(tree))
             s == SetToSeq(x)
             text == Sequence(cast, s)
  <2>1. /\ read(tree) \in Seq(Converted(cast, h))
        /\ (tree.kind = "seq" /\ tree.of # <<>>) => read(tree) # <<>>
    BY <1>4, ElementsRead
  <2>2. /\ IsFiniteSet(x) /\ x \subseteq Converted(cast, h)
        /\ (tree.kind = "seq" /\ tree.of # <<>>) => x # {}
    <3> HIDE DEF read
    <3>1. QED
      BY <2>1, RangeFinite
  <2>3. x \in values
    BY <2>2, ConvertedTypes
  <2> HIDE DEF x
  <2>4. s \in Seq(x) /\ Range(s) = x
    BY <2>2, Listed
  <2>5. x # {} => s # <<>>
    BY <2>4 DEF Range
  <2>6. s \in Seq(Converted(cast, h))
    BY <2>2, <2>4, SeqGrows
  <2> HIDE DEF s
  <2>7. /\ text \in reads \cap TreesOf[h]
        /\ read(text) = s
        /\ s # <<>> => text # Null
    BY <2>6, SequenceKept
  <2> HIDE DEF text, reads, values
  <2>8. from[tree] = x /\ to[x] = text /\ from[text] = x
    BY <1>3, <1>4, <2>3, <2>4, <2>7 DEF x, s, text
  <2>9. QED
    BY <2>2, <2>3, <2>5, <2>7, <2>8
<1> HIDE DEF reads, values
<1>5. \A h \in Heights : Kept(set, h)
  BY <1>1, <1>4, TreesAre DEF Kept
<1>6. Fills("seq", set)
  BY <1>1, <1>2, <1>4, TopTrees DEF Fills
<1>7. QED
  BY <1>1, <1>2, <1>5, <1>6 DEF Keeps, set

\* One pair for each key.
Keyed(P) == \A p, q \in P : p[1] = q[1] => p = q

LEMMA PairsRead ==
  ASSUME NEW cast, NEW h \in Heights \ {0}, NEW tree \in Readable("map", cast) \cap TreesOf[h]
  PROVE  LET x == Pairs(cast, Items("map", tree))
         IN /\ IsFiniteSet(x) /\ Keyed(x)
            /\ x \subseteq VarNames \X Converted(cast, h)
            /\ (tree.kind = "map" /\ tree.of # <<>>) => x # {}
<1> DEFINE items == Items("map", tree)
           S == Converted(cast, h)
           pair == [i \in FirstOfKey(items) |-> <<items[i][1], cast.from[items[i][2]]>>]
           x == Pairs(cast, items)
<1>1. /\ items \in Seq(ItemsOf(h))
      /\ \A i \in DOMAIN items :
           items[i][1] \in VarNames /\ cast.from[items[i][2]] \in S
  BY ReadItems
<1>2. tree.kind = "map" => items = tree.of
  BY DEF Items
<1> HIDE DEF items, S
<1>3. DOMAIN items = 1 .. Len(items) /\ Len(items) \in Nat
  BY <1>1
<1>4. /\ FirstOfKey(items) \subseteq DOMAIN items
      /\ \A i, j \in FirstOfKey(items) : items[i][1] = items[j][1] => i = j
  <2>1. FirstOfKey(items) \subseteq DOMAIN items
    BY DEF FirstOfKey
  <2>2. ASSUME NEW i \in FirstOfKey(items), NEW j \in FirstOfKey(items), i < j
        PROVE  items[i][1] # items[j][1]
    <3>1. i \in 1 .. j - 1
      BY <1>3, <2>1, <2>2
    <3>2. QED
      BY <3>1 DEF FirstOfKey
  <2>3. \A i, j \in FirstOfKey(items) : i < j \/ j < i \/ i = j
    BY <1>3, <2>1
  <2>4. QED
    BY <2>1, <2>2, <2>3
<1>5. IsFiniteSet(FirstOfKey(items))
  <2>1. IsFiniteSet(DOMAIN items)
    <3>1. PICK n \in Nat : DOMAIN items = 1 .. n
      BY <1>3
    <3>2. QED
      BY <3>1, FS_Interval
  <2>2. QED
    BY <1>4, <2>1, FS_Subset
<1>6. x = {pair[i] : i \in FirstOfKey(items)}
  BY DEF Pairs
<1>7. \A i \in FirstOfKey(items) :
        /\ pair[i] \in VarNames \X S
        /\ pair[i][1] = items[i][1]
  BY <1>1, <1>4
<1>8. pair \in Surjection(FirstOfKey(items), x)
  BY <1>6 DEF Surjection
<1> HIDE DEF pair, x
<1>9. IsFiniteSet(x)
  BY <1>5, <1>8, FS_Surjection
<1>10. Keyed(x)
  BY <1>4, <1>6, <1>7 DEF Keyed
<1>11. x \subseteq VarNames \X S
  BY <1>6, <1>7
<1>12. items # <<>> => x # {}
  <2>1. ASSUME items # <<>>
        PROVE  1 \in FirstOfKey(items)
    <3>1. 1 \in DOMAIN items /\ 1 .. 1 - 1 = {}
      BY <1>1, <1>3, <2>1
    <3>2. QED
      BY <3>1 DEF FirstOfKey
  <2>2. QED
    BY <1>6, <2>1
<1>13. QED
  BY <1>2, <1>9, <1>10, <1>11, <1>12 DEF x, items, S

LEMMA MappingKept ==
  ASSUME NEW cast, Keeps(cast), NEW h \in Heights \ {0},
         NEW x \in SUBSET (VarNames \X Converted(cast, h)), IsFiniteSet(x), Keyed(x)
  PROVE  /\ Mapping(cast, SetToSeq(x)) \in Readable("map", cast) \cap TreesOf[h]
         /\ Pairs(cast, Items("map", Mapping(cast, SetToSeq(x)))) = x
         /\ x # {} => Mapping(cast, SetToSeq(x)) # Null
<1> DEFINE s == SetToSeq(x)
           items == [i \in DOMAIN s |-> <<s[i][1], cast.to[s[i][2]]>>]
<1>0. /\ s \in Seq(x) /\ Range(s) = x
      /\ \A i, j \in DOMAIN s : s[i] = s[j] => i = j
  BY Listed
<1> HIDE DEF s
<1>1. /\ DOMAIN s = 1 .. Len(s) /\ Len(s) \in Nat
      /\ \A i \in DOMAIN s : s[i] \in x
  BY <1>0
<1>2. \A i \in DOMAIN s :
        /\ s[i] = <<s[i][1], s[i][2]>>
        /\ s[i][1] \in VarNames /\ s[i][2] \in Converted(cast, h)
  BY <1>1
<1>3. \A i \in DOMAIN s :
        /\ cast.to[s[i][2]] \in cast.reads \cap TreesOf[h - 1]
        /\ cast.from[cast.to[s[i][2]]] = s[i][2]
  BY <1>2, ConvertedKept
<1>4. /\ DOMAIN items = DOMAIN s
      /\ \A i \in DOMAIN items : items[i][1] = s[i][1] /\ items[i][2] = cast.to[s[i][2]]
  OBVIOUS
<1>5. items \in Seq(ItemsOf(h))
  <2>1. \A i \in DOMAIN s : <<s[i][1], cast.to[s[i][2]]>> \in ItemsOf(h)
    BY <1>2, <1>3 DEF ItemsOf
  <2>2. items \in [1 .. Len(s) -> ItemsOf(h)]
    BY <1>1, <2>1
  <2> HIDE DEF items
  <2>3. QED
    BY <1>1, <2>2
<1>6. Mapping(cast, s) = NodeOf("map", items)
  BY DEF Mapping
<1> HIDE DEF items
<1>7. x # {} => items # <<>>
  BY <1>0, <1>4 DEF Range
<1>8. "map" \in Branches /\ \A i \in DOMAIN items : items[i][2] \in cast.reads
  BY <1>3, <1>4 DEF Branches
<1>9. /\ NodeOf("map", items) \in Readable("map", cast) \cap TreesOf[h]
      /\ Items("map", NodeOf("map", items)) = items
      /\ items # <<>> => NodeOf("map", items) # Null
  BY <1>5, <1>8, WrittenItems
<1>10. FirstOfKey(items) = DOMAIN items
  <2>1. ASSUME NEW i \in DOMAIN items, NEW j \in 1 .. i - 1
        PROVE  items[j][1] # items[i][1]
    <3>1. j \in DOMAIN s /\ i \in DOMAIN s /\ j # i
      BY <1>1, <1>4, <2>1
    <3>2. s[j] # s[i] /\ s[j] \in x /\ s[i] \in x
      BY <1>0, <1>1, <3>1
    <3>3. s[j][1] # s[i][1]
      BY <3>2 DEF Keyed
    <3>4. QED
      BY <1>4, <3>1, <3>3
  <2>2. QED
    BY <2>1 DEF FirstOfKey
<1>11. Pairs(cast, items) = x
  <2>1. \A i \in DOMAIN s : <<items[i][1], cast.from[items[i][2]]>> = s[i]
    BY <1>2, <1>3, <1>4
  <2>2. Pairs(cast, items) = {s[i] : i \in DOMAIN s}
    BY <1>4, <1>10, <2>1 DEF Pairs
  <2>3. QED
    BY <1>0, <2>2 DEF Range
<1>12. QED
  BY <1>6, <1>7, <1>9, <1>11 DEF s

LEMMA MapKeeps ==
  ASSUME NEW cast, Keeps(cast)
  PROVE  Keeps(MapCast(cast)) /\ Fills("map", MapCast(cast))
<1> DEFINE reads == Readable("map", cast)
           read(tree) == Pairs(cast, Items("map", tree))
           values == SUBSET (VarNames \X cast.values)
           from == [tree \in Trees |-> read(tree)]
           to == [x \in values |-> Mapping(cast, SetToSeq(x))]
           map == MapCast(cast)
<1>1. /\ map.reads = reads /\ map.from = from
      /\ map.to = to /\ map.values = values
  BY DEF MapCast
<1>2. reads \subseteq Trees
  BY DEF Readable
<1>3. /\ \A tree \in reads : from[tree] = read(tree)
      /\ \A x \in values : to[x] = Mapping(cast, SetToSeq(x))
  BY <1>2
<1> HIDE DEF from, to, map
<1>4. ASSUME NEW h \in Heights \ {0}, NEW tree \in reads \cap TreesOf[h]
      PROVE  /\ from[tree] \in values
             /\ to[from[tree]] \in reads \cap TreesOf[h]
             /\ from[to[from[tree]]] = from[tree]
             /\ (tree.kind = "map" /\ tree.of # <<>>) => to[from[tree]] # Null
  <2> DEFINE x == read(tree)
             text == Mapping(cast, SetToSeq(x))
  <2>1. /\ IsFiniteSet(x) /\ Keyed(x)
        /\ x \subseteq VarNames \X Converted(cast, h)
        /\ (tree.kind = "map" /\ tree.of # <<>>) => x # {}
    BY <1>4, PairsRead
  <2>2. x \in values
    BY <2>1, ConvertedTypes
  <2> HIDE DEF x
  <2>3. /\ text \in reads \cap TreesOf[h]
        /\ read(text) = x
        /\ x # {} => text # Null
    BY <2>1, MappingKept
  <2> HIDE DEF text, reads, values
  <2>4. from[tree] = x /\ to[x] = text /\ from[text] = x
    BY <1>3, <1>4, <2>2, <2>3 DEF x, text
  <2>5. QED
    BY <2>1, <2>2, <2>3, <2>4
<1> HIDE DEF reads, values
<1>5. \A h \in Heights : Kept(map, h)
  BY <1>1, <1>4, TreesAre DEF Kept
<1>6. Fills("map", map)
  BY <1>1, <1>2, <1>4, TopTrees DEF Fills
<1>7. QED
  BY <1>1, <1>2, <1>5, <1>6 DEF Keeps, map

-----------------------------------------------------------------------------
(* A type is converted as its elements are.                                *)

LEMMA TypeParts ==
  ASSUME NEW type \in Types
  PROVE  /\ Len(type) \in Nat \ {0} /\ DOMAIN type = 1 .. Len(type)
         /\ \A k \in 1 .. Len(type) :
              IF k = 1 THEN type[k] = "int" \/ type[k] = "str"
              ELSE type[k] = "vector" \/ type[k] = "set" \/ type[k] = "map"
<1> DEFINE all == Basic \cup {"vector", "set", "map"}
<1>1. /\ type \in Seq(all) /\ type # <<>>
      /\ \A k \in DOMAIN type : type[k] \in Basic <=> k = 1
  BY CastAssumption
<1>2. Len(type) \in Nat \ {0} /\ DOMAIN type = 1 .. Len(type)
  BY <1>1
<1>3. \A k \in 1 .. Len(type) : type[k] \in all
  BY <1>1, <1>2
<1>4. QED
  BY <1>1, <1>2, <1>3 DEF Basic

LEMMA CastSteps ==
  ASSUME NEW type \in Types, NEW k \in 1 .. Len(type), NEW f, NEW g,
         k # 1 => f[k - 1] = g[k - 1]
  PROVE  CastFrom(f, type, k) = CastFrom(g, type, k)
<1>1. CASE k = 1
  <2>1. CASE type[k] = "int"
    BY <2>1 DEF CastFrom
  <2>2. CASE type[k] = "str"
    BY <2>2 DEF CastFrom
  <2>3. QED
    BY <1>1, <2>1, <2>2, TypeParts
<1>2. CASE k # 1
  BY <1>2 DEF CastFrom
<1>3. QED
  BY <1>1, <1>2

LEMMA CastsTo ==
  ASSUME NEW type \in Types, NEW n \in 0 .. Len(type)
  PROVE  \E g : \A k \in 1 .. n : g[k] = CastFrom(g, type, k)
<1> DEFINE D == 0 .. Len(type)
           Bad == {m \in D : ~\E g : \A k \in 1 .. m : g[k] = CastFrom(g, type, k)}
<1>0. Len(type) \in Nat
  BY TypeParts
<1>1. SUFFICES ASSUME Bad # {} PROVE FALSE
  OBVIOUS
<1>2. PICK m \in Bad : \A j \in Bad : m <= j
  <2>1. Bad \in SUBSET Nat
    BY <1>0
  <2> HIDE DEF Bad
  <2>2. QED
    BY <1>1, <2>1, LeastExists
<1>3. m \in Nat /\ m \in D
  BY <1>0, <1>2
<1>4. m # 0
  BY <1>2
<1>5. m - 1 \in D /\ m - 1 < m /\ m \in 1 .. Len(type)
  BY <1>0, <1>3, <1>4
<1>6. m - 1 \notin Bad
  <2> HIDE DEF Bad
  <2>1. QED
    BY <1>2, <1>3, <1>5
<1>7. PICK f : \A k \in 1 .. m - 1 : f[k] = CastFrom(f, type, k)
  BY <1>5, <1>6
<1> DEFINE g == [k \in 1 .. m |-> IF k = m THEN CastFrom(f, type, m) ELSE f[k]]
<1>8. /\ g[m] = CastFrom(f, type, m)
      /\ \A k \in 1 .. m - 1 : g[k] = f[k]
  BY <1>3, <1>4
<1>9. \A k \in 1 .. m : /\ k = m \/ k \in 1 .. m - 1
                        /\ k # 1 => k - 1 \in 1 .. m - 1
                        /\ k \in 1 .. Len(type)
  BY <1>0, <1>3
<1> HIDE DEF g
<1>10. \A k \in 1 .. m : CastFrom(g, type, k) = CastFrom(f, type, k)
  <2> SUFFICES ASSUME NEW k \in 1 .. m PROVE CastFrom(g, type, k) = CastFrom(f, type, k)
    OBVIOUS
  <2>1. k \in 1 .. Len(type) /\ (k # 1 => g[k - 1] = f[k - 1])
    BY <1>8, <1>9
  <2>2. QED
    BY <2>1, CastSteps
<1>11. \A k \in 1 .. m : g[k] = CastFrom(g, type, k)
  BY <1>7, <1>8, <1>9, <1>10
<1>12. QED
  BY <1>2, <1>11

LEMMA CastFunction ==
  ASSUME NEW type \in Types
  PROVE  \E f : /\ \A k \in 1 .. Len(type) : f[k] = CastFrom(f, type, k)
                /\ Cast(type) = f[Len(type)]
<1> DEFINE D == DOMAIN type
           solves(g) == g = [k \in D |-> CastFrom(g, type, k)]
           cast == CHOOSE g : solves(g)
<1>0. Len(type) \in Nat /\ D = 1 .. Len(type) /\ Len(type) \in 0 .. Len(type)
  BY TypeParts
<1>1. PICK f : \A k \in 1 .. Len(type) : f[k] = CastFrom(f, type, k)
  BY <1>0, CastsTo
<1> DEFINE g == [k \in D |-> f[k]]
<1>2. \A k \in D : CastFrom(g, type, k) = CastFrom(f, type, k)
  <2> SUFFICES ASSUME NEW k \in D PROVE CastFrom(g, type, k) = CastFrom(f, type, k)
    OBVIOUS
  <2>1. k \in 1 .. Len(type) /\ (k # 1 => k - 1 \in D)
    BY <1>0
  <2>2. k # 1 => g[k - 1] = f[k - 1]
    BY <2>1
  <2> HIDE DEF g, D
  <2>3. QED
    BY <2>1, <2>2, CastSteps
<1>3. g = [k \in D |-> CastFrom(g, type, k)]
  BY <1>0, <1>1, <1>2
<1> HIDE DEF g
<1>4. solves(g)
  BY <1>3
<1>5. Cast(type) = cast[Len(type)]
  BY DEF Cast
<1> HIDE DEF solves
<1>6. solves(cast)
  BY <1>4
<1> HIDE DEF cast
<1>7. \A k \in D : cast[k] = CastFrom(cast, type, k)
  BY <1>6 DEF solves
<1>8. QED
  BY <1>0, <1>5, <1>7

LEMMA CastKeeps ==
  ASSUME NEW type \in Types, NEW f, NEW k \in 1 .. Len(type),
         f[k] = CastFrom(f, type, k), k # 1 => Keeps(f[k - 1])
  PROVE  /\ Keeps(f[k])
         /\ k # 1 => Fills(IF type[k] = "map" THEN "map" ELSE "seq", f[k])
<1>1. CASE k = 1
  <2>1. CASE type[k] = "int"
    BY <1>1, <2>1, IntKeeps DEF CastFrom
  <2>2. CASE type[k] = "str"
    BY <1>1, <2>2, StringKeeps DEF CastFrom
  <2>3. QED
    BY <1>1, <2>1, <2>2, TypeParts
<1>2. CASE k # 1
  <2> DEFINE cast == f[k - 1]
  <2>0. Keeps(cast)
    BY <1>2
  <2>1. CASE type[k] = "vector"
    <3>1. f[k] = VectorCast(cast)
      BY <2>1 DEF CastFrom
    <3> HIDE DEF cast
    <3>2. QED
      BY <2>0, <2>1, <3>1, VectorKeeps
  <2>2. CASE type[k] = "set"
    <3>1. f[k] = SetCast(cast)
      BY <2>2 DEF CastFrom
    <3> HIDE DEF cast
    <3>2. QED
      BY <2>0, <2>2, <3>1, SetKeeps
  <2>3. CASE type[k] = "map"
    <3>1. f[k] = MapCast(cast)
      BY <2>3 DEF CastFrom
    <3> HIDE DEF cast
    <3>2. QED
      BY <2>0, <2>3, <3>1, MapKeeps
  <2>4. QED
    BY <1>2, <2>1, <2>2, <2>3, TypeParts
<1>3. QED
  BY <1>1, <1>2

LEMMA AllKeep ==
  ASSUME NEW type \in Types
  PROVE  /\ Keeps(Cast(type))
         /\ Len(type) > 1 => Fills(IF Last(type) = "map" THEN "map" ELSE "seq", Cast(type))
<1>0. Len(type) \in Nat \ {0} /\ Len(type) \in 1 .. Len(type) /\ Last(type) = type[Len(type)]
  BY TypeParts DEF Last
<1>1. PICK f : /\ \A k \in 1 .. Len(type) : f[k] = CastFrom(f, type, k)
               /\ Cast(type) = f[Len(type)]
  BY CastFunction
<1> DEFINE Bad == {k \in 1 .. Len(type) : ~Keeps(f[k])}
<1>2. Bad = {}
  <2>1. SUFFICES ASSUME Bad # {} PROVE FALSE
    OBVIOUS
  <2>2. PICK k \in Bad : \A j \in Bad : k <= j
    <3>1. Bad \in SUBSET Nat
      OBVIOUS
    <3> HIDE DEF Bad
    <3>2. QED
      BY <2>1, <3>1, LeastExists
  <2>3. k \in 1 .. Len(type) /\ (k # 1 => k - 1 \in 1 .. Len(type) /\ ~(k <= k - 1))
    BY <1>0, <2>2
  <2>4. k # 1 => k - 1 \notin Bad
    <3> HIDE DEF Bad
    <3>1. QED
      BY <2>2, <2>3
  <2>5. k # 1 => Keeps(f[k - 1])
    BY <2>3, <2>4
  <2>6. Keeps(f[k])
    BY <1>1, <2>3, <2>5, CastKeeps
  <2>7. QED
    BY <2>2, <2>6
<1>3. \A k \in 1 .. Len(type) : Keeps(f[k])
  BY <1>2
<1> HIDE DEF Bad
<1>4. Len(type) > 1 => Len(type) # 1 /\ Len(type) - 1 \in 1 .. Len(type)
  BY <1>0
<1>5. QED
  BY <1>0, <1>1, <1>3, <1>4, CastKeeps

-----------------------------------------------------------------------------
(* The document as a tree: it is not too high, and only lists and maps     *)
(* have children.                                                          *)

Nested ==
  \A n \in Nodes : /\ Depth(n) <= MaxDepth
                   /\ \A k \in Kids(n) : doc[n].kind \in Branches

LEMMA KidOf ==
  ASSUME Document, NEW n \in 1 .. Len(doc), NEW i \in 1 .. Cardinality(Kids(n))
  PROVE  Kid(n, i - 1) \in Kids(n) /\ Kid(n, i - 1) \in n + 1 .. Len(doc)
<1>1. Cardinality(Kids(n)) \in Nat
  BY FewKids
<1>2. i - 1 \in 0 .. Cardinality(Kids(n)) /\ i - 1 < Cardinality(Kids(n))
  BY <1>1
<1>3. IsNext(n, i - 1)
  BY <1>2, KidsInTurn
<1>4. Kid(n, i - 1) \in Kids(n)
  BY <1>3 DEF IsNext
<1>5. QED
  BY <1>4, KidsAre

LEMMA TreesFromEnd ==
  ASSUME Document, NEW n \in Nodes
  PROVE  \E g : \A k \in n .. Len(doc) : g[k] = TreeFrom(g, k)
<1> DEFINE size == [k \in Nodes |-> Len(doc) - k]
           Bad == {m \in Nodes : ~\E g : \A k \in m .. Len(doc) : g[k] = TreeFrom(g, k)}
<1>0. Len(doc) \in Nat /\ Nodes = 1 .. Len(doc)
  BY DocumentPlaces
<1>1. SUFFICES ASSUME Bad # {} PROVE FALSE
  OBVIOUS
<1>2. PICK m \in Bad : \A y \in Nodes : size[y] < size[m] => y \notin Bad
  <2>1. size \in [Nodes -> Nat] /\ Bad \in SUBSET Nodes
    BY <1>0
  <2> HIDE DEF Bad, size
  <2>2. QED
    BY <1>1, <2>1, SmallestPlace
<1>3. m \in Nodes /\ m \in Nat
  BY <1>0, <1>2
<1>4. \E f : \A k \in m + 1 .. Len(doc) : f[k] = TreeFrom(f, k)
  <2>1. CASE m = Len(doc)
    <3>1. m + 1 .. Len(doc) = {}
      BY <1>3, <2>1
    <3>2. QED
      BY <3>1
  <2>2. CASE m # Len(doc)
    <3>1. m + 1 \in Nodes /\ size[m + 1] < size[m]
      BY <1>0, <1>3, <2>2
    <3>2. m + 1 \notin Bad
      <4> HIDE DEF Bad, size
      <4>1. QED
        BY <1>2, <3>1
    <3>3. QED
      BY <3>1, <3>2
  <2>3. QED
    BY <2>1, <2>2
<1>5. PICK f : \A k \in m + 1 .. Len(doc) : f[k] = TreeFrom(f, k)
  BY <1>4
<1> DEFINE g == [k \in m .. Len(doc) |-> IF k = m THEN TreeFrom(f, m) ELSE f[k]]
<1>6. /\ g[m] = TreeFrom(f, m)
      /\ \A k \in m + 1 .. Len(doc) : g[k] = f[k]
  BY <1>0, <1>3
<1>7. \A k \in m .. Len(doc) : k = m \/ k \in m + 1 .. Len(doc)
  BY <1>0, <1>3
<1> HIDE DEF g
<1>8. ASSUME NEW k \in m .. Len(doc)
      PROVE  TreeFrom(g, k) = TreeFrom(f, k)
  <2>1. k \in 1 .. Len(doc)
    BY <1>0, <1>3
  <2>2. ASSUME NEW i \in 1 .. Cardinality(Kids(k))
        PROVE  g[Kid(k, i - 1)] = f[Kid(k, i - 1)]
    <3>1. Kid(k, i - 1) \in k + 1 .. Len(doc)
      BY <2>1, KidOf
    <3>2. Kid(k, i - 1) \in m + 1 .. Len(doc)
      BY <1>0, <1>3, <3>1
    <3>3. QED
      BY <1>6, <3>2
  <2>3. QED
    BY <2>2 DEF TreeFrom
<1>9. \A k \in m .. Len(doc) : g[k] = TreeFrom(g, k)
  BY <1>5, <1>6, <1>7, <1>8
<1>10. QED
  BY <1>2, <1>9

LEMMA TreeIs ==
  ASSUME Document
  PROVE  \E f : \A n \in Nodes : f[n] = TreeFrom(f, n) /\ Tree(n) = f[n]
<1> DEFINE solves(g) == g = [k \in Nodes |-> TreeFrom(g, k)]
           tree == CHOOSE g : solves(g)
<1>0. Len(doc) \in Nat /\ Nodes = 1 .. Len(doc) /\ 1 \in Nodes
  BY DocumentPlaces
<1>1. PICK f : \A k \in 1 .. Len(doc) : f[k] = TreeFrom(f, k)
  BY <1>0, TreesFromEnd
<1> DEFINE g == [k \in Nodes |-> f[k]]
<1>2. ASSUME NEW k \in Nodes
      PROVE  TreeFrom(g, k) = TreeFrom(f, k)
  <2>1. \A i \in 1 .. Cardinality(Kids(k)) : Kid(k, i - 1) \in Nodes
    BY <1>0, KidOf
  <2>2. \A i \in 1 .. Cardinality(Kids(k)) : g[Kid(k, i - 1)] = f[Kid(k, i - 1)]
    BY <2>1
  <2> HIDE DEF g
  <2>3. QED
    BY <2>2 DEF TreeFrom
<1>3. g = [k \in Nodes |-> TreeFrom(g, k)]
  BY <1>0, <1>1, <1>2
<1> HIDE DEF g
<1>4. solves(g)
  BY <1>3
<1>5. \A n : Tree(n) = tree[n]
  BY DEF Tree
<1> HIDE DEF solves
<1>6. solves(tree)
  BY <1>4
<1> HIDE DEF tree
<1>7. \A k \in Nodes : tree[k] = TreeFrom(tree, k)
  BY <1>6 DEF solves
<1>8. QED
  BY <1>5, <1>7

LEMMA TreeHeights ==
  ASSUME Document, Nested
  PROVE  /\ Tree(1) \in Trees
         /\ Tree(1).of # <<>> => Tree(1).kind \in Branches
<1> DEFINE size == [k \in Nodes |-> Len(doc) - k]
           height(n) == MaxDepth + 1 - Depth(n)
<1>0. /\ Len(doc) \in Nat /\ Nodes = 1 .. Len(doc) /\ 1 \in Nodes
      /\ \A n \in Nodes : Depth(n) \in Nat
  BY DocumentPlaces
<1>1. PICK f : \A n \in Nodes : f[n] = TreeFrom(f, n) /\ Tree(n) = f[n]
  BY TreeIs
<1> DEFINE Bad == {n \in Nodes : f[n] \notin TreesOf[height(n)]}
<1>2. \A n \in Nodes : height(n) \in Heights \ {0}
  BY <1>0, HeightTypes DEF Nested, Heights
<1>3. ASSUME NEW n \in Nodes,
             \A k \in Kids(n) : f[k] \in TreesOf[height(k)]
      PROVE  f[n] \in TreesOf[height(n)]
  <2> DEFINE h == height(n)
             c == Cardinality(Kids(n))
             of == [i \in 1 .. c |-> <<doc[Kid(n, i - 1)].key, f[Kid(n, i - 1)]>>]
  <2>1. f[n] = [kind |-> doc[n].kind, text |-> doc[n].text, of |-> of]
    BY <1>1 DEF TreeFrom
  <2>2. c \in Nat
    BY <1>0, FewKids
  <2>3. ASSUME NEW i \in 1 .. c
        PROVE  <<doc[Kid(n, i - 1)].key, f[Kid(n, i - 1)]>> \in VarNames \X TreesOf[h - 1]
    <3>1. Kid(n, i - 1) \in Kids(n) /\ Kid(n, i - 1) \in n + 1 .. Len(doc)
      BY <1>0, KidOf
    <3>2. Kid(n, i - 1) \in 1 .. Len(doc) /\ Depth(Kid(n, i - 1)) = Depth(n) + 1
      BY <1>0, <3>1, KidsAre
    <3>3. height(Kid(n, i - 1)) = h - 1
      BY <1>0, <3>2, HeightTypes
    <3>4. doc[Kid(n, i - 1)].key \in VarNames
      BY <3>2, KeyType
    <3>5. f[Kid(n, i - 1)] \in TreesOf[h - 1]
      BY <1>3, <3>1, <3>3
    <3>6. QED
      BY <3>4, <3>5
  <2>4. of \in Seq(VarNames \X TreesOf[h - 1])
    <3>1. of \in [1 .. c -> VarNames \X TreesOf[h - 1]]
      BY <2>3
    <3> HIDE DEF of, c
    <3>2. QED
      BY <2>2, <3>1
  <2>5. /\ doc[n].kind \in {"null", "scalar", "seq", "map"}
        /\ doc[n].text \in Texts
    <3>1. doc[n] \in Leaves
      BY <1>0 DEF Document
    <3>2. QED
      BY <3>1 DEF Leaves, Texts
  <2>6. h \in Heights \ {0}
    BY <1>2
  <2> HIDE DEF of, h
  <2>7. TreesOf[h] = [kind : {"null", "scalar", "seq", "map"}, text : Texts,
                      of : Seq(VarNames \X TreesOf[h - 1])]
    BY <2>6, TreesAre
  <2>8. QED
    BY <2>1, <2>4, <2>5, <2>7 DEF h
<1>4. Bad = {}
  <2>1. SUFFICES ASSUME Bad # {} PROVE FALSE
    OBVIOUS
  <2>2. PICK n \in Bad : \A y \in Nodes : size[y] < size[n] => y \notin Bad
    <3>1. size \in [Nodes -> Nat] /\ Bad \in SUBSET Nodes
      BY <1>0
    <3> HIDE DEF Bad, size
    <3>2. QED
      BY <2>1, <3>1, SmallestPlace
  <2>3. ASSUME NEW k \in Kids(n)
        PROVE  f[k] \in TreesOf[height(k)]
    <3>1. n \in 1 .. Len(doc) /\ k \in n + 1 .. Len(doc)
      BY <1>0, <2>2, KidsAre
    <3>2. k \in Nodes /\ size[k] < size[n]
      BY <1>0, <3>1
    <3>3. QED
      BY <2>2, <3>2
  <2>4. QED
    BY <1>3, <2>2, <2>3
<1>5. f[1] \in Trees
  <2>1. f[1] \in TreesOf[height(1)]
    BY <1>0, <1>4
  <2>2. height(1) \in Heights
    BY <1>0, <1>2
  <2>3. QED
    BY <2>1, <2>2, AllTrees
<1>6. ASSUME f[1].of # <<>>
      PROVE  f[1].kind \in Branches
  <2> DEFINE c == Cardinality(Kids(1))
             of == [i \in 1 .. c |-> <<doc[Kid(1, i - 1)].key, f[Kid(1, i - 1)]>>]
  <2>1. f[1] = [kind |-> doc[1].kind, text |-> doc[1].text, of |-> of]
    BY <1>0, <1>1 DEF TreeFrom
  <2>2. f[1].of = of /\ f[1].kind = doc[1].kind
    BY <2>1
  <2>3. c \in Nat
    BY <1>0, FewKids
  <2>4. c # 0
    BY <1>6, <2>2
  <2>5. 1 \in 1 .. c /\ 1 \in 1 .. Len(doc)
    BY <1>0, <2>3, <2>4
  <2>6. Kid(1, 1 - 1) \in Kids(1)
    BY <2>5, KidOf
  <2>7. QED
    BY <1>0, <2>2, <2>6 DEF Nested
<1>7. QED
  BY <1>0, <1>1, <1>5, <1>6

LEMMA NestedStarts == TreeInit => Nested
<1> SUFFICES ASSUME TreeInit PROVE Nested
  OBVIOUS
<1>1. Document
  BY DocumentStarts
<1>2. PICK c \in Contents : doc = <<Leaf(0, <<>>, c[1], c[2])>>
  BY DEF TreeInit
<1>3. Len(doc) = 1
  BY <1>2
<1>4. Depth(1) = 0 /\ Nodes = 1 .. Len(doc)
  BY <1>1, DocumentPlaces DEF Document
<1>5. \A n \in Nodes : n = 1
  BY <1>3, <1>4
<1>6. Kids(1) = {}
  BY <1>3 DEF Kids
<1>7. QED
  BY <1>4, <1>5, <1>6, HeightTypes DEF Nested

LEMMA NestedGrows == Document /\ Nested /\ [AddNode]_doc => Nested'
<1> SUFFICES ASSUME Document, Nested, [AddNode]_doc PROVE Nested'
  OBVIOUS
<1>1. CASE doc' = doc
  BY <1>1 DEF Nested, Nodes, Depth, Kids
<1>2. CASE AddNode
  <2>0. /\ Len(doc) \in Nat \ {0} /\ Nodes = 1 .. Len(doc) /\ doc \in Seq(Leaves)
        /\ \A n \in 1 .. Len(doc) : Depth(n) \in Nat
        /\ MaxDepth \in Nat
    BY DocumentPlaces, HeightTypes DEF Document
  <2>1. PICK p \in Nodes, c \in Contents :
          /\ Depth(p) < MaxDepth
          /\ \A k \in p + 1 .. Len(doc) : Depth(k) > Depth(p)
          /\ doc[p].kind \in {"seq", "map"}
          /\ \E key \in (IF doc[p].kind = "map" THEN Keys ELSE {<<>>}) :
               doc' = Append(doc, Leaf(Depth(p) + 1, key, c[1], c[2]))
    BY <1>2 DEF AddNode
  <2>2. PICK key \in (IF doc[p].kind = "map" THEN Keys ELSE {<<>>}) :
          doc' = Append(doc, Leaf(Depth(p) + 1, key, c[1], c[2]))
    BY <2>1
  <2>3. PICK leaf : /\ doc' = Append(doc, leaf)
                    /\ leaf.depth = Depth(p) + 1
    <3>1. Leaf(Depth(p) + 1, key, c[1], c[2]).depth = Depth(p) + 1
      BY DEF Leaf
    <3>2. QED
      BY <2>2, <3>1
  <2>4. PICK l \in Nat \ {0} : l = Len(doc)
    BY <2>0
  <2>5. /\ Len(doc') = l + 1 /\ DOMAIN doc' = 1 .. l + 1
        /\ \A n \in 1 .. l : doc'[n] = doc[n]
        /\ doc'[l + 1] = leaf
    BY <2>0, <2>3, <2>4
  <2>6. /\ \A n \in 1 .. l : Depth(n)' = Depth(n)
        /\ Depth(l + 1)' = Depth(p) + 1
    BY <2>3, <2>5 DEF Depth
  <2>7. p \in 1 .. l
    BY <2>0, <2>4
  <2>8. Nodes' = 1 .. l + 1
    BY <2>5 DEF Nodes
  <2>9. ASSUME NEW n \in 1 .. l + 1
        PROVE  Depth(n)' <= MaxDepth
    <3>1. CASE n = l + 1
      BY <2>0, <2>1, <2>4, <2>6, <2>7, <3>1
    <3>2. CASE n # l + 1
      <4>1. n \in 1 .. l
        BY <3>2
      <4>2. QED
        BY <2>0, <2>4, <2>6, <4>1 DEF Nested
    <3>3. QED
      BY <3>1, <3>2
  <2>10. ASSUME NEW n \in 1 .. l + 1, NEW k \in Kids(n)'
         PROVE  doc'[n].kind \in Branches
    <3>1. /\ k \in n + 1 .. l + 1 /\ Depth(k)' = Depth(n)' + 1
          /\ \A j \in n + 1 .. k : Depth(j)' > Depth(n)'
      BY <2>5 DEF Kids
    <3>2. n \in 1 .. l
      BY <3>1
    <3>3. CASE k = l + 1
      <4>1. Depth(n) = Depth(p)
        BY <2>0, <2>4, <2>6, <2>7, <3>1, <3>2, <3>3
      <4>2. ~(n < p)
        <5>1. ASSUME n < p PROVE FALSE
          <6>1. p \in n + 1 .. k
            BY <2>7, <3>3, <5>1
          <6>2. Depth(p)' > Depth(n)' /\ Depth(p)' = Depth(p) /\ Depth(n)' = Depth(n)
            BY <2>6, <2>7, <3>1, <3>2, <6>1
          <6>3. QED
            BY <2>0, <2>4, <2>7, <4>1, <6>2
        <5>2. QED
          BY <5>1
      <4>3. ~(p < n)
        <5>1. ASSUME p < n PROVE FALSE
          <6>1. n \in p + 1 .. Len(doc)
            BY <2>4, <2>7, <3>2, <5>1
          <6>2. Depth(n) > Depth(p)
            BY <2>1, <6>1
          <6>3. QED
            BY <2>0, <2>4, <2>7, <4>1, <6>2
        <5>2. QED
          BY <5>1
      <4>4. n = p
        BY <2>7, <3>2, <4>2, <4>3
      <4>5. QED
        BY <2>1, <2>5, <3>2, <4>4 DEF Branches
    <3>4. CASE k # l + 1
      <4>1. k \in n + 1 .. l /\ \A j \in n + 1 .. k : j \in 1 .. l
        BY <3>1, <3>2, <3>4
      <4>2. k \in Kids(n)
        BY <2>4, <2>6, <3>1, <3>2, <4>1 DEF Kids
      <4>3. QED
        BY <2>0, <2>4, <2>5, <3>2, <4>2 DEF Nested
    <3>5. QED
      BY <3>3, <3>4
  <2>11. QED
    BY <2>8, <2>9, <2>10 DEF Nested
<1>3. QED
  BY <1>1, <1>2

LEMMA ReadBack ==
  ASSUME Document, Nested
  PROVE  SaveLoad
<1> DEFINE tree == Tree(1)
<1>0. tree \in Trees /\ (tree.of # <<>> => tree.kind \in Branches)
  BY TreeHeights
<1> HIDE DEF tree
<1>1. ASSUME NEW type \in Types, tree \in Cast(type).reads
      PROVE  LET cast == Cast(type)
                 value == cast.from[tree]
                 text == cast.to[value]
                 same == Last(type) = "map" <=> tree.kind = "map"
             IN /\ text \in cast.reads
                /\ cast.from[text] = value
                /\ (Len(type) > 1 /\ same /\ tree.of # <<>>) => text # Null
  <2> DEFINE cast == Cast(type)
             kind == IF Last(type) = "map" THEN "map" ELSE "seq"
  <2>1. Keeps(cast) /\ (Len(type) > 1 => Fills(kind, cast))
    BY AllKeep
  <2> HIDE DEF cast
  <2>2. tree \in cast.reads \cap TreesOf[MaxDepth + 1]
    BY <1>0, <1>1, TopTrees DEF cast
  <2>3. Kept(cast, MaxDepth + 1)
    BY <2>1, TopTrees DEF Keeps
  <2>4. /\ cast.to[cast.from[tree]] \in cast.reads
        /\ cast.from[cast.to[cast.from[tree]]] = cast.from[tree]
    BY <2>2, <2>3 DEF Kept
  <2>5. ASSUME Len(type) > 1, Last(type) = "map" <=> tree.kind = "map", tree.of # <<>>
        PROVE  cast.to[cast.from[tree]] # Null
    <3>1. tree.kind = kind
      BY <1>0, <2>5 DEF Branches
    <3>2. QED
      BY <2>1, <2>2, <2>5, <3>1 DEF Fills
  <2>6. QED
    BY <2>4, <2>5 DEF cast
<1>2. QED
  BY <1>1 DEF SaveLoad, tree

-----------------------------------------------------------------------------
(* SaveLoad: what toString writes fromString reads, for every nest of      *)
(* vectors, lists, sets and maps, whatever document the value came from    *)
(* (config.h 69-293).                                                      *)
THEOREM SavedIsLoaded == TreeSpec => []SaveLoad
<1>1. TreeSpec => []Nested
  BY DocumentsAreTrees, NestedStarts, NestedGrows, PTL DEF TreeSpec
<1>2. QED
  BY <1>1, DocumentsAreTrees, ReadBack, PTL
=============================================================================
