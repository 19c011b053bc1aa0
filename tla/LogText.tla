------------------------------ MODULE LogText ------------------------------
(***************************************************************************)
(* The text helpers of the logger's library: pattern_match, split_string,  *)
(* replace_string, file_name and directory (log.cpp 185-203 and 269-424).  *)
(* A text is a sequence of characters, and positions count from 1, where   *)
(* std::string counts from 0.  The functions are pure: the machine below   *)
(* only writes the two arguments, character by character, so that every    *)
(* pair of them within the bounds is a state.                              *)
(***************************************************************************)
EXTENDS Naturals, SequencesExt

CONSTANTS
  Uses,         \* which of the helpers the arguments are for
  StrChars,     \* for each use, the characters of the first argument
  ArgChars,     \* and of the second
  MaxStr,       \* for each use, the length of the first argument
  MaxArg,       \* and of the second
  Upper,        \* the upper case of each lower-case letter
  Replacements, \* the values replace_string is given
  Endless,      \* what a call comes to that never returns
  NotASize      \* a float that is infinite or no number, as a size

ASSUME LogTextAssumption ==
  /\ \A c \in DOMAIN Upper : Upper[c] \notin DOMAIN Upper
  /\ \A c, d \in DOMAIN Upper : Upper[c] = Upper[d] => c = d
  /\ \A v \in Replacements : v \in Seq(ToSet(v))

VARIABLES use, str, arg

textVars == <<use, str, arg>>

-----------------------------------------------------------------------------
(* std::string's find and rfind: a position, and 0 where they say npos.    *)
(* An empty text is found wherever the search begins, at the end as well.  *)

Find(s, t, from) ==
  LET found == {p \in from .. Len(s) + 1 : IsPrefix(t, SubSeq(s, p, Len(s)))}
  IN IF found = {} THEN 0 ELSE Min(found)

RFind(s, c) == LET found == {p \in 1 .. Len(s) : s[p] = c}
               IN IF found = {} THEN 0 ELSE Max(found)

-----------------------------------------------------------------------------
(* Patterns.  alphabet_equal raises the letters strictly between a and z.  *)

Raised(c) == IF c \in DOMAIN Upper \ {"a", "z"} THEN Upper[c] ELSE c

AlphabetEqual(x, y, ignoreCase) ==
  IF ignoreCase THEN Raised(x) = Raised(y) ELSE x = y

(* Wrong variant: nothing may be left.                                     *)
NothingLeft(m) == m = <<>>

(* What is left of a pattern when the text has ended must be stars.        *)
OnlyStars(m) == \A i \in DOMAIN m : m[i] = "*"

(* The loop has read i characters of the text and j of the pattern; match  *)
(* is what comes of every other place it may go on from.                   *)
MatchFrom(match, s, m, ic, i, j) ==
  IF i = Len(s) THEN OnlyStars(SubSeq(m, j + 1, Len(m)))
  ELSE /\ j < Len(m)
       /\ \/ m[j + 1] = "?" /\ match[<<i + 1, j + 1>>]
          \/ /\ m[j + 1] = "*"
             /\ j + 1 = Len(m) \/ match[<<i, j + 1>>] \/ match[<<i + 1, j>>]
          \/ /\ m[j + 1] \notin {"?", "*"}
             /\ AlphabetEqual(m[j + 1], s[i + 1], ic)
             /\ match[<<i + 1, j + 1>>]

PatternMatchBody(s, m, ic) ==
  LET match[at \in (0 .. Len(s)) \X (0 .. Len(m))] ==
        MatchFrom(match, s, m, ic, at[1], at[2])
  IN s # <<>> /\ m # <<>> /\ match[<<0, 0>>]

(* The parts of a filter, between its semicolons.                          *)
IsPart(m, i, j) ==
  /\ i <= j
  /\ \A k \in i .. j : m[k] # ";"
  /\ i = 1 \/ m[i - 1] = ";"
  /\ j = Len(m) \/ m[j + 1] = ";"

Parts(m) ==
  UNION {{SubSeq(m, i, j) : j \in {j \in DOMAIN m : IsPart(m, i, j)}} : i \in DOMAIN m}

PatternMatch(s, m, ic) ==
  s # <<>> /\ \E part \in Parts(m) : PatternMatchBody(s, part, ic)

-----------------------------------------------------------------------------
(* split_string: the non-empty pieces between the separators.              *)

Piece(s, i, j) == IF i <= j THEN <<SubSeq(s, i, j)>> ELSE <<>>

(* Where the search goes on: behind the separator it found.                *)
After(p, t) == p + Len(t)

(* The pieces from prev on; split is what comes of the later places.       *)
SplitFrom(split, s, t, prev) ==
  LET p == Find(s, t, prev)
  IN IF p = 0 THEN Piece(s, prev, Len(s))
     ELSE Piece(s, prev, p - 1) \o split[After(p, t)]

SplitString(s, t) ==
  LET split[prev \in 1 .. Len(s) + 1] == SplitFrom(split, s, t, prev)
  IN IF s = <<>> THEN <<>> ELSE IF t = <<>> THEN <<s>> ELSE split[1]

-----------------------------------------------------------------------------
(* replace_string writes its result into a buffer it has sized before: for *)
(* a longer value with the product of floats value.size() * (str.size() /  *)
(* token.size()), rounded down (exact for the lengths checked here).  An   *)
(* empty token makes the quotient infinite, or for an empty text no        *)
(* number, and what resize is then given is undefined.                     *)

(* Wrong variant: room for as many replacements as fit, and for no rest.   *)
BufferWithoutRest(s, t, v) ==
  IF Len(v) <= Len(t) THEN Len(s)
  ELSE IF t = <<>> THEN NotASize ELSE Len(v) * (Len(s) \div Len(t))

BufferSize(s, t, v) ==
  IF Len(v) <= Len(t) THEN Len(s)
  ELSE IF t = <<>> THEN NotASize ELSE (Len(v) * Len(s)) \div Len(t)

(* What is written from prev on; replace is what comes of the later places. *)
ReplaceFrom(replace, s, t, v, prev) ==
  LET p == Find(s, t, prev)
  IN IF p = 0 THEN SubSeq(s, prev, Len(s))
     ELSE SubSeq(s, prev, p - 1) \o v \o replace[After(p, t)]

(* Each round that finds the token goes on further behind than it began;   *)
(* a round that does not is followed by the same round for ever.           *)
GoesOn(s, t) ==
  \A prev \in 1 .. Len(s) + 1 :
    LET p == Find(s, t, prev) IN p # 0 => prev < After(p, t)

ReplaceString(s, t, v) ==
  LET replace[prev \in 1 .. Len(s) + 1] == ReplaceFrom(replace, s, t, v, prev)
  IN IF GoesOn(s, t) THEN replace[1] ELSE Endless

-----------------------------------------------------------------------------
(* Paths.                                                                  *)

(* Where the suffix starts: at the last point, unless that point is in the *)
(* directory's name or starts the file's.                                  *)
SuffixAt(path) ==
  LET u == RFind(path, ".")
  IN IF u <= RFind(path, "/") + 1 THEN Len(path) + 1 ELSE u

FileName(path, includeSuffix) ==
  SubSeq(path, RFind(path, "/") + 1,
         IF includeSuffix THEN Len(path) ELSE SuffixAt(path) - 1)

Directory(path) ==
  LET p == RFind(path, "/") IN IF p = 0 THEN <<".">> ELSE SubSeq(path, 1, p)

-----------------------------------------------------------------------------
TextInit ==
  /\ use \in Uses
  /\ str = <<>>
  /\ arg = <<>>

LengthenStr ==
  /\ Len(str) < MaxStr[use]
  /\ \E c \in StrChars[use] : str' = Append(str, c)
  /\ UNCHANGED <<use, arg>>

LengthenArg ==
  /\ Len(arg) < MaxArg[use]
  /\ \E c \in ArgChars[use] : arg' = Append(arg, c)
  /\ UNCHANGED <<use, str>>

TextNext == LengthenStr \/ LengthenArg

TextSpec == TextInit /\ [][TextNext]_textVars

-----------------------------------------------------------------------------
(* The reference for patterns reads the text once, and knows all the       *)
(* places of the pattern it may be at: a star may be left at any time.     *)

SameLetter(x, y, ic) ==
  x = y \/ (ic /\ \E c \in DOMAIN Upper : {x, y} = {c, Upper[c]})

Leave(m, at) ==
  {q \in 0 .. Len(m) : \E p \in at : p <= q /\ \A i \in p + 1 .. q : m[i] = "*"}

Advance(m, at, c, ic) ==
  LET from == Leave(m, at)
  IN {q \in from : q < Len(m) /\ m[q + 1] = "*"}
     \cup {q + 1 : q \in {p \in from : /\ p < Len(m)
                                       /\ m[p + 1] # "*"
                                       /\ \/ m[p + 1] = "?"
                                          \/ SameLetter(m[p + 1], c, ic)}}

GlobMatch(s, m, ic) ==
  LET at[k \in 0 .. Len(s)] ==
        IF k = 0 THEN {0} ELSE Advance(m, at[k - 1], s[k], ic)
  IN Len(m) \in Leave(m, at[Len(s)])

(* pattern_match accepts exactly the non-empty texts that one of the       *)
(* parts of the filter describes, wherever its stars and question marks    *)
(* stand and whichever branch of the recursion meets the end first, and    *)
(* neglects case where it is told to; only the letters a and z it never    *)
(* takes for their capitals (log.cpp 345-424).                             *)
GlobMatches ==
  use = "match" =>
    \A ic \in BOOLEAN :
      (ic => {"a", "z"} \cap (ToSet(str) \cup ToSet(arg)) = {}) =>
        (PatternMatch(str, arg, ic)
           <=> str # <<>> /\ \E part \in Parts(arg) : GlobMatch(str, part, ic))

(* The occurrences of t in s that a search from the left takes: those that *)
(* do not overlap one it took before, as a condition on the whole set.     *)
Taken(s, t) ==
  LET all == {p \in 1 .. Len(s) : IsPrefix(t, SubSeq(s, p, Len(s)))}
  IN CHOOSE took \in SUBSET all :
       \A p \in all : p \in took <=> ~\E q \in took : q < p /\ p < q + Len(t)

Rest(s, t) == {p \in 1 .. Len(s) : ~\E q \in Taken(s, t) : p \in q .. q + Len(t) - 1}

(* split_string returns, in their order, the longest pieces that no taken  *)
(* separator covers: none is empty, none is lost, and overlapping          *)
(* separators are taken from the left.  An empty separator covers nothing, *)
(* so that the text is the only piece (log.cpp 269-297).                   *)
SplitIsReference ==
  use = "split" =>
    LET rest   == Rest(str, arg)
        starts == {p \in rest : p - 1 \notin rest}
        end(p) == Max({q \in rest : p .. q \subseteq rest})
        pieces == SplitString(str, arg)
    IN /\ Len(pieces) = Cardinality(starts)
       /\ \A p \in starts :
            pieces[Cardinality({q \in starts : q <= p})] = SubSeq(str, p, end(p))

(* For every token but the empty one replace_string returns, and what it   *)
(* returns is the text with every taken occurrence replaced, and it never  *)
(* wrote behind the end of the buffer it had sized before it knew how many *)
(* occurrences there are.  For the empty token it never returns: find says *)
(* the same place for ever, and each round writes the value once more, so  *)
(* that with a value that is not empty it runs over the end of any buffer; *)
(* the size of that buffer is the quotient by 0 (log.cpp 299-343).         *)
ReplaceFits ==
  use = "split" =>
    \A v \in Replacements :
      LET made(p) == IF p \in Taken(str, arg) THEN v
                     ELSE IF p \in Rest(str, arg) THEN <<str[p]>> ELSE <<>>
          written[p \in 0 .. Len(str)] ==
            IF p = 0 THEN <<>> ELSE written[p - 1] \o made(p)
          result  == ReplaceString(str, arg, v)
      IN IF arg = <<>>
         THEN result = Endless /\ (v # <<>> => BufferSize(str, arg, v) = NotASize)
         ELSE /\ result = written[Len(str)]
              /\ Len(result) <= BufferSize(str, arg, v)

(* directory and file_name take a path apart without losing or keeping     *)
(* anything twice, and the name without suffix is the name up to its last  *)
(* point, but never empty for a name that is not (log.cpp 185-203).        *)
PathParts ==
  use = "path" /\ str # <<>> =>
    LET name == FileName(str, TRUE)
        stem == FileName(str, FALSE)
        suffix == SubSeq(name, Len(stem) + 1, Len(name))
    IN /\ (IF "/" \in ToSet(str) THEN Directory(str) ELSE <<>>) \o name = str
       /\ "/" \notin ToSet(name)
       /\ IsPrefix(stem, name)
       /\ name # <<>> => stem # <<>>
       /\ suffix = <<>> /\ name # <<>> => "." \notin ToSet(Tail(name))
       /\ suffix # <<>> => Head(suffix) = "." /\ "." \notin ToSet(Tail(suffix))

(* The helpers that cut texts and put them together lose and invent no     *)
(* character, whatever the positions of separators, tokens and points, but *)
(* for replace_string with an empty token, which gives nothing back at all *)
(* (log.cpp 185-203 and 269-343).                                          *)
TextsKept == SplitIsReference /\ ReplaceFits /\ PathParts
=============================================================================
