---------------------------- MODULE ConfigTree ----------------------------
(***************************************************************************)
(* YAML documents as Config::TraversalNode reads them: it gives every node *)
(* of a document the name of a variable (config.h 525-566).  It is a       *)
(* function of the document: the machine only writes one, node by node in  *)
(* the order of its text, so that every document within the bounds is a    *)
(* state.                                                                  *)
(*                                                                         *)
(* A node is its place in doc.  Its key is a sequence of components,       *)
(* because a key may itself hold the points that join the components of a  *)
(* name: the keys a, b within a and the key a.b give the same name.        *)
(***************************************************************************)
EXTENDS Naturals, SequencesExt

CONSTANTS
  Components,  \* what may stand between the points of a name
  Subscripts,  \* the component to_string makes of a subscript
  Keys,        \* the keys of maps
  Scalars,     \* the texts of scalar nodes
  MaxNodes,
  MaxDepth

ASSUME TreeAssumption ==
  /\ "" \in Components
  /\ Subscripts \in [0 .. MaxNodes -> Components]
  /\ Keys \subseteq Seq(Components) \ {<<>>}
  /\ MaxNodes \in Nat \ {0} /\ MaxDepth \in Nat

VARIABLE doc   \* a sequence of [depth, key, kind, text]

Nodes == DOMAIN doc

Depth(n) == doc[n].depth

(* The children of node n, and the one with the subscript i.               *)
Kids(n) == {m \in n + 1 .. Len(doc) :
              /\ Depth(m) = Depth(n) + 1
              /\ \A k \in n + 1 .. m : Depth(k) > Depth(n)}

Before(n, kid) == {k \in Kids(n) : k < kid}

Kid(n, i) == CHOOSE kid \in Kids(n) : Cardinality(Before(n, kid)) = i

-----------------------------------------------------------------------------
(* TraversalNode: the node's own entry, then its children's.               *)

VarNames == Seq(Components)

Outputs == Seq([name : VarNames, node : Nodes])

(* A list below the document's root has the empty name before its point.   *)
SubName(name, i) == (IF name = <<>> THEN <<"">> ELSE name) \o <<Subscripts[i]>>

(* The name of the child of n with the subscript i.                        *)
ChildName(n, name, i) ==
  IF doc[n].kind = "map" THEN name \o doc[Kid(n, i)].key ELSE SubName(name, i)

(* Wrong variant: the first entry of a name stays.                         *)
EnterOnce(output, name, n) ==
  IF \E e \in DOMAIN output : output[e].name = name THEN output
  ELSE Append(output, [name |-> name, node |-> n])

(* An entry of the same name is overwritten where it stands.  An entry     *)
(* says which node it holds, not what that node contains: assigning a      *)
(* YAML::Node (config.h:540) makes the overwritten node itself refer to    *)
(* the new one, so an ancestor's entry contains the new one from then on   *)
(* (of {a: {b: 1}, a.b: 2} the entry a is read as {b: 2} afterwards).      *)
Enter(output, name, n) ==
  IF \E e \in DOMAIN output : output[e].name = name
  THEN [e \in DOMAIN output |->
          IF output[e].name = name THEN [name |-> name, node |-> n] ELSE output[e]]
  ELSE Append(output, [name |-> name, node |-> n])

(* The call for the child with the subscript at.i, and the loop after it.  *)
ChildVisit(at) ==
  LET kid  == Kid(at.node, at.i)
      name == ChildName(at.node, at.name, at.i)
  IN [node |-> kid, name |-> name, i |-> 0, output |-> Enter(at.output, name, kid)]

NextVisit(at, output) ==
  [node |-> at.node, name |-> at.name, i |-> at.i + 1, output |-> output]

(* What the loop over the children of at.node, before the one with the     *)
(* subscript at.i, makes of the output; visit is what comes of the others. *)
TraversalFrom(visit, at) ==
  IF at.i >= Cardinality(Kids(at.node)) THEN at.output
  ELSE visit[NextVisit(at, visit[ChildVisit(at)])]

Visits == [node : Nodes, name : VarNames, i : 0 .. Len(doc), output : Outputs]

TraversalNode(n, name, output) ==
  LET visit[at \in Visits] == TraversalFrom(visit, at)
  IN visit[[node |-> n, name |-> name, i |-> 0, output |-> Enter(output, name, n)]]

-----------------------------------------------------------------------------
Leaf(depth, key, kind, text) ==
  [depth |-> depth, key |-> key, kind |-> kind, text |-> text]

Contents == {<<"null", "">>, <<"seq", "">>, <<"map", "">>}
              \cup {<<"scalar", x>> : x \in Scalars}

TreeInit == \E c \in Contents : doc = <<Leaf(0, <<>>, c[1], c[2])>>

(* The next node of the text is a child of the last one or of one of its   *)
(* ancestors, which is a list or a map.                                    *)
AddNode ==
  /\ Len(doc) < MaxNodes
  /\ \E n \in Nodes, c \in Contents :
       /\ Depth(n) < MaxDepth
       /\ \A k \in n + 1 .. Len(doc) : Depth(k) > Depth(n)
       /\ doc[n].kind \in {"seq", "map"}
       /\ \E key \in (IF doc[n].kind = "map" THEN Keys ELSE {<<>>}) :
            doc' = Append(doc, Leaf(Depth(n) + 1, key, c[1], c[2]))

TreeSpec == TreeInit /\ [][AddNode]_doc

-----------------------------------------------------------------------------
(* The reference names a node by its ancestors alone.                      *)
Parent(n) == Max({m \in 1 .. n - 1 : Depth(m) = Depth(n) - 1})

NameFrom(name, n) ==
  LET p == Parent(n)
      before == {m \in p + 1 .. n - 1 : Depth(m) = Depth(n)}
  IN IF Depth(n) = 0 THEN <<>>
     ELSE IF doc[p].kind = "map" THEN name[p] \o doc[n].key
     ELSE SubName(name[p], Cardinality(before))

NameOf(n) == LET name[k \in Nodes] == NameFrom(name, k) IN name[n]

(* A document is flattened to one entry for each name that occurs in it,   *)
(* in the order in which the names occur first, and each entry holds the   *)
(* last node of its name: also when the names are made equal by a key that *)
(* holds a point or occurs twice, and when what the name stood for first   *)
(* had children, whose entries stay (config.h 525-566).  This is about the *)
(* nodes the entries hold; what they contain see Enter.                    *)
LastOfNameWins ==
  LET output == TraversalNode(1, <<>>, <<>>)
      names == [n \in Nodes |-> NameOf(n)]
      ofName(name) == {n \in Nodes : names[n] = name}
      first(e) == Min(ofName(output[e].name))
  IN /\ {output[e].name : e \in DOMAIN output} = {names[n] : n \in Nodes}
     /\ \A e \in DOMAIN output : output[e].node = Max(ofName(output[e].name))
     /\ \A d, e \in DOMAIN output : d < e => first(d) < first(e)
=============================================================================
