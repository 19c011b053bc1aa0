----------------------------- MODULE FindFiles -----------------------------
(***************************************************************************)
(* find_files (log.cpp 427-474): a walk over directories with a stack of   *)
(* those still to be read, while other processes create and remove files   *)
(* and directories.  A path is the sequence of its names below the         *)
(* directory the search starts in.  The file system is external: an entry  *)
(* that appears or goes away while its directory is being read may be      *)
(* returned by readdir or not, and any other is returned once.             *)
(***************************************************************************)
EXTENDS Naturals, SequencesExt

CONSTANTS
  Names,       \* the names of directory entries
  Matching,    \* those pattern_match accepts (see LogText)
  Depths,      \* the length of paths
  Unreadable,  \* directories opendir fails for
  MaxChanges,  \* how often others change the file system
  NoDir

Paths == UNION {[1 .. d -> Names] : d \in 1 .. Depths}

FindFilesAssumption ==
  /\ Depths \in Nat /\ MaxChanges \in Nat
  /\ {".", ".."} \cap Names = {}
  /\ NoDir \notin Paths \union {<<>>}
ASSUME FindFilesAssumption

VARIABLES
  fs,          \* what each path is: "none", "file" or "dir"
  changes,     \* how often others have changed fs
  steady,      \* history: the entries nobody has changed since the start
  findDirectory, includeSubDirectory,
  ps,          \* the stack of directories to be read
  reading,     \* the directory that is open
  todo,        \* its names readdir has still to return
  maybe,       \* and those it may return
  out

osVars == <<fs, changes, steady>>
walkVars == <<ps, reading, todo, maybe, out>>
findVars == <<fs, changes, steady, findDirectory, includeSubDirectory,
              ps, reading, todo, maybe, out>>

IsDir(system, p) == p # <<>> => system[p] = "dir"

FindInit ==
  /\ fs \in {f \in [Paths -> {"none", "file", "dir"}] :
               \A p \in Paths : f[p] # "none" => IsDir(f, Front(p))}
  /\ changes = 0
  /\ steady = {p \in Paths : fs[p] # "none"}
  /\ findDirectory \in BOOLEAN
  /\ includeSubDirectory \in BOOLEAN
  /\ ps = <<<<>>>>
  /\ reading = NoDir
  /\ todo = {}
  /\ maybe = {}
  /\ out = <<>>

-----------------------------------------------------------------------------
(* Others create an entry in a directory, or remove a file or an empty     *)
(* directory.                                                              *)

InPlace(p) == reading # NoDir /\ Front(p) = reading

Create(p) ==
  /\ changes < MaxChanges
  /\ fs[p] = "none" /\ IsDir(fs, Front(p))
  /\ \E kind \in {"file", "dir"} : fs' = [fs EXCEPT ![p] = kind]
  /\ maybe' = IF InPlace(p) THEN maybe \cup {Last(p)} ELSE maybe
  /\ changes' = changes + 1
  /\ UNCHANGED <<steady, findDirectory, includeSubDirectory, ps, reading, todo, out>>

Unlink(p) ==
  /\ changes < MaxChanges
  /\ fs[p] # "none"
  /\ \A n \in Names : Append(p, n) \in Paths => fs[Append(p, n)] = "none"
  /\ fs' = [fs EXCEPT ![p] = "none"]
  /\ IF InPlace(p) /\ Last(p) \in todo
     THEN todo' = todo \ {Last(p)} /\ maybe' = maybe \cup {Last(p)}
     ELSE UNCHANGED <<todo, maybe>>
  /\ steady' = steady \ {p}
  /\ changes' = changes + 1
  /\ UNCHANGED <<findDirectory, includeSubDirectory, ps, reading, out>>

-----------------------------------------------------------------------------
Entries(p) ==
  {n \in Names : Append(p, n) \in Paths /\ fs[Append(p, n)] # "none"} \cup {".", ".."}

(* The directory itself and its parent are passed over.                    *)
Skipped(n) == n \in {".", ".."}

Open ==
  /\ reading = NoDir /\ ps # <<>>
  /\ ps' = Front(ps)
  /\ IF IsDir(fs, Last(ps)) /\ Last(ps) \notin Unreadable
     THEN /\ reading' = Last(ps)
          /\ todo' = {n \in Entries(Last(ps)) : ~Skipped(n)}
     ELSE UNCHANGED <<reading, todo>>
  /\ UNCHANGED <<osVars, findDirectory, includeSubDirectory, maybe, out>>

Wanted(p) == (fs[p] = "dir") = findDirectory

(* Wrong variant: a directory that was wanted is not entered.              *)
DescendOrReport(p) == includeSubDirectory /\ fs[p] = "dir" /\ ~findDirectory

Descend(p) == includeSubDirectory /\ fs[p] = "dir"

(* readdir returns a name, and lstat says what the path is by then.        *)
ReadEntry(n) ==
  /\ reading # NoDir
  /\ n \in todo \cup maybe
  /\ todo' = todo \ {n}
  /\ maybe' = maybe \ {n}
  /\ LET p == Append(reading, n)
     IN /\ out' = IF fs[p] # "none" /\ Wanted(p) /\ n \in Matching
                  THEN Append(out, p) ELSE out
        /\ ps' = IF Descend(p) THEN Append(ps, p) ELSE ps
  /\ UNCHANGED <<osVars, findDirectory, includeSubDirectory, reading>>

Close ==
  /\ reading # NoDir
  /\ todo = {}
  /\ reading' = NoDir
  /\ maybe' = {}
  /\ UNCHANGED <<osVars, findDirectory, includeSubDirectory, ps, todo, out>>

FindNext ==
  \/ Open
  \/ Close
  \/ \E n \in Names : ReadEntry(n)
  \/ \E p \in Paths : Create(p) \/ Unlink(p)

FindSpec == FindInit /\ [][FindNext]_findVars

-----------------------------------------------------------------------------
(* However others change the directories meanwhile: an entry that was     *)
(* there from the beginning is never in the result twice; and when         *)
(* find_files returns, it is in the result if it was there to the end,     *)
(* matches, is of the wanted kind and lies where the search was to go.     *)
(* What is removed and created anew may be returned twice (log.cpp         *)
(* 440-473).                                                               *)
SteadyFound ==
  \A p \in steady :
    LET places == {i \in DOMAIN out : out[i] = p}
    IN /\ Cardinality(places) <= 1
       /\ (/\ ps = <<>> /\ reading = NoDir
           /\ Wanted(p)
           /\ Last(p) \in Matching
           /\ Len(p) = 1 \/ includeSubDirectory
           /\ \A d \in 0 .. Len(p) - 1 : SubSeq(p, 1, d) \notin Unreadable)
          => places # {}
=============================================================================
