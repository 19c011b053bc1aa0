---------------------------- MODULE LexicalCast ----------------------------
(***************************************************************************)
(* The conversions LexicalCast of int, std::string and the containers from *)
(* and to text (config.h 69-293), as functions of the document ConfigTree  *)
(* writes.                                                                 *)
(*                                                                         *)
(* A text is the tree of nodes it is parsed into: the library's parser and *)
(* its operator<<, which writes a tree back, are taken to be inverses.     *)
(***************************************************************************)
EXTENDS ConfigTree

CONSTANTS
  Ints,      \* the scalars that are numbers
  Types      \* types from the inside out, as <<"int", "vector", "map">>

Basic == {"int", "str"}

ASSUME CastAssumption ==
  Types \subseteq {type \in Seq(Basic \cup {"vector", "set", "map"}) :
                     /\ type # <<>>
                     /\ \A k \in DOMAIN type : type[k] \in Basic <=> k = 1}

-----------------------------------------------------------------------------
Texts == Scalars \cup {""}

(* The trees of at most the height h.                                      *)
TreesFrom(trees, h) ==
  IF h = 0 THEN {}
  ELSE [kind : {"null", "scalar", "seq", "map"}, text : Texts,
        of : Seq(VarNames \X trees[h - 1])]

TreesOf[h \in 0 .. MaxDepth + 1] == TreesFrom(TreesOf, h)

Trees == TreesOf[MaxDepth + 1]

Null == [kind |-> "null", text |-> "", of |-> <<>>]

TreeFrom(tree, n) ==
  [kind |-> doc[n].kind, text |-> doc[n].text,
   of |-> [i \in 1 .. Cardinality(Kids(n)) |->
             <<doc[Kid(n, i - 1)].key, tree[Kid(n, i - 1)]>>]]

Tree(n) == LET tree[k \in Nodes] == TreeFrom(tree, k) IN tree[n]

-----------------------------------------------------------------------------
(* The two conversions of a type: values is the type, reads the texts that *)
(* convert, where no lexical_cast within throws, from what they convert to *)
(* and to the texts the values are written as.                             *)

(* The text of another kind is read as an empty container.                 *)
Items(kind, tree) == IF tree.kind = kind THEN tree.of ELSE <<>>

(* An element of a map is converted also when its key is already there.    *)
Readable(kind, cast) ==
  {tree \in Trees : \A i \in DOMAIN Items(kind, tree) :
                       Items(kind, tree)[i][2] \in cast.reads}

(* Wrong variant: null elements are not added.                             *)
NodeOfFilled(kind, items) ==
  LET filled == SelectSeq(items, LAMBDA item : item[2] # Null)
  IN IF filled = <<>> THEN Null ELSE [kind |-> kind, text |-> "", of |-> filled]

(* A node nothing was added to is null, whatever the container.            *)
NodeOf(kind, items) ==
  IF items = <<>> THEN Null ELSE [kind |-> kind, text |-> "", of |-> items]

(* An int is the text of its scalar, a std::string any text.               *)
IntCast ==
  [values |-> Texts,
   reads |-> {tree \in Trees : tree.kind = "scalar" /\ tree.text \in Ints},
   from |-> [tree \in Trees |-> tree.text],
   to |-> [x \in Texts |-> [kind |-> "scalar", text |-> x, of |-> <<>>]]]

StringCast ==
  [values |-> Trees, reads |-> Trees,
   from |-> [tree \in Trees |-> tree], to |-> [x \in Trees |-> x]]

(* A vector, or a list, is a sequence.                                     *)
Elements(cast, items) == [i \in DOMAIN items |-> cast.from[items[i][2]]]

Sequence(cast, elements) ==
  NodeOf("seq", [i \in DOMAIN elements |-> <<<<>>, cast.to[elements[i]]>>])

VectorCast(cast) ==
  [values |-> Seq(cast.values),
   reads |-> Readable("seq", cast),
   from |-> [tree \in Trees |-> Elements(cast, Items("seq", tree))],
   to |-> [x \in Seq(cast.values) |-> Sequence(cast, x)]]

SetCast(cast) ==
  [values |-> SUBSET cast.values,
   reads |-> Readable("seq", cast),
   from |-> [tree \in Trees |-> Range(Elements(cast, Items("seq", tree)))],
   to |-> [x \in SUBSET cast.values |-> Sequence(cast, SetToSeq(x))]]

(* A map is a set of pairs.  Its insert keeps the pair that is there.      *)
FirstOfKey(items) ==
  {i \in DOMAIN items : \A j \in 1 .. i - 1 : items[j][1] # items[i][1]}

Pairs(cast, items) ==
  {<<items[i][1], cast.from[items[i][2]]>> : i \in FirstOfKey(items)}

Mapping(cast, pairs) ==
  NodeOf("map", [i \in DOMAIN pairs |-> <<pairs[i][1], cast.to[pairs[i][2]]>>])

MapCast(cast) ==
  [values |-> SUBSET (VarNames \X cast.values),
   reads |-> Readable("map", cast),
   from |-> [tree \in Trees |-> Pairs(cast, Items("map", tree))],
   to |-> [x \in SUBSET (VarNames \X cast.values) |-> Mapping(cast, SetToSeq(x))]]

CastFrom(cast, type, k) ==
  CASE type[k] = "int" -> IntCast
    [] type[k] = "str" -> StringCast
    [] type[k] = "vector" -> VectorCast(cast[k - 1])
    [] type[k] = "set" -> SetCast(cast[k - 1])
    [] type[k] = "map" -> MapCast(cast[k - 1])

Cast(type) == LET cast[k \in DOMAIN type] == CastFrom(cast, type, k)
              IN cast[Len(type)]

-----------------------------------------------------------------------------
(* The variable toString wrote is the variable fromString reads: for every *)
(* type, whatever value a text converts to, its own text converts again,   *)
(* and to the same value, with empty containers inside others and repeated *)
(* keys; and only a text that is null, empty or of another kind is read as *)
(* an empty container (config.h 69-293).                                   *)
SaveLoad ==
  LET tree == Tree(1)
  IN \A type \in Types :
       LET cast == Cast(type)
           value == cast.from[tree]
           text == cast.to[value]
           same == Last(type) = "map" <=> tree.kind = "map"
       IN tree \in cast.reads =>
            /\ text \in cast.reads
            /\ cast.from[text] = value
            /\ (Len(type) > 1 /\ same /\ tree.of # <<>>) => text # Null
=============================================================================
