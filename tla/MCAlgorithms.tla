--------------------------- MODULE MCAlgorithms ---------------------------
(***************************************************************************)
(* The helpers that are functions of their arguments, and find_files, side *)
(* by side: each behaviour exercises one of them.                          *)
(***************************************************************************)
EXTENDS LogText, LexicalCast, FindFiles, TLC

VARIABLE machine

vars == <<machine, textVars, doc, findVars>>

TextIdle == use = "match" /\ str = <<>> /\ arg = <<>>
TreeIdle == doc = <<Leaf(0, <<>>, "null", "")>>
FindIdle ==
  /\ fs = [p \in Paths |-> "none"] /\ changes = 0 /\ steady = {}
  /\ findDirectory = FALSE /\ includeSubDirectory = FALSE
  /\ ps = <<>> /\ reading = NoDir /\ todo = {} /\ maybe = {} /\ out = <<>>

Init ==
  \/ machine = "text" /\ TextInit /\ TreeIdle /\ FindIdle
  \/ machine = "tree" /\ TreeInit /\ TextIdle /\ FindIdle
  \/ machine = "find" /\ FindInit /\ TextIdle /\ TreeIdle

Next ==
  /\ UNCHANGED machine
  /\ \/ machine = "text" /\ TextNext /\ UNCHANGED <<doc, findVars>>
     \/ machine = "tree" /\ AddNode /\ UNCHANGED <<textVars, findVars>>
     \/ machine = "find" /\ FindNext /\ UNCHANGED <<textVars, doc>>

Spec == Init /\ [][Next]_vars

-----------------------------------------------------------------------------
MCUses == {"match", "split", "path"}
MCStrChars == [match |-> {"a", "b"}, split |-> {"a", "b"}, path |-> {"a", "/", "."}]
MCArgChars ==
  [match |-> {"A", "B", "b", "*", "?", ";"}, split |-> {"a", "b"}, path |-> {}]
MCMaxStr == [match |-> 4, split |-> 6, path |-> 6]
MCMaxArg == [match |-> 4, split |-> 3, path |-> 0]
MCUpper == [a |-> "A", b |-> "B"]
MCReplacements == {<<>>, <<"a">>, <<"b", "b">>, <<"a", "b", "a", "b">>}

MCComponents == {"", "a"} \cup {ToString(i) : i \in 0 .. MaxNodes}
MCSubscripts == [i \in 0 .. MaxNodes |-> ToString(i)]
MCKeys == {<<"a">>, <<"0">>, <<"a", "0">>}
MCTypes ==
  {<<"int">>, <<"str">>, <<"int", "vector">>, <<"str", "vector">>,
   <<"str", "set">>, <<"int", "map">>, <<"str", "map">>,
   <<"int", "vector", "vector">>, <<"int", "vector", "set">>,
   <<"int", "set", "map">>, <<"int", "map", "vector">>}

MCUnreadable == {<<"y">>}
=============================================================================
