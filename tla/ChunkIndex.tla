----------------------------- MODULE ChunkIndex -----------------------------
(***************************************************************************)
(* The bookkeeping of HNSWIndex (vector/hnsw/index.ts) that the vault       *)
(* depends on: which chunk keys "<id>#<i>" the index knows, which vectors   *)
(* sit in the native graph, and what survives serialize() and load().       *)
(*                                                                          *)
(* A vector is identified by the file version it was read from, and a       *)
(* numeric label by the pair of key and version it was issued for: add()    *)
(* takes a fresh label on each call.  `strToNum` gives the newest label of  *)
(* a key, `numToStr` every label with a name, `native` every label alive in *)
(* the native graph.  The three differ exactly when something went wrong:   *)
(* a label named but no longer newest can never be removed again, and a     *)
(* native label without a name makes every search that meets it throw.      *)
(***************************************************************************)
EXTENDS Naturals

CONSTANTS
    Ids,        \* memento ids
    Texts,      \* memento texts, up to what the properties tell apart
    Size,       \* Size[x]: number of chunks the text x is split into
    MaxChunks,  \* the largest value of Size
    None        \* absence

ASSUME SizeAssumption ==
    /\ MaxChunks \in Nat \ {0}
    /\ Size \in [Texts -> 1..MaxChunks]

(* One write of a .mem file.  `at` is the mtime the write produced, which   *)
(* no other write of the same file shares; `ok` says whether the content    *)
(* authenticates under the vault key.                                       *)
Version == [at : Nat, txt : Texts, ok : BOOLEAN]

Key    == Ids \X (0..(MaxChunks - 1))
Labels == Key \X Version

ASSUME NoneAssumption == None \notin Version

(* The chunk keys of memento id whose content is v.                         *)
ChunkKeys(id, v) == {<<id, i>> : i \in 0..(Size[v.txt] - 1)}

Index == [strToNum : [Key -> Version \cup {None}],
          numToStr : SUBSET Labels,
          native   : SUBSET Labels]

EmptyIndex == [strToNum |-> [k \in Key |-> None], numToStr |-> {}, native |-> {}]

(* HNSWIndex.add over a function keys -> version.                           *)
Add(ix, f) ==
    LET new == {<<k, f[k]>> : k \in DOMAIN f}
    IN  [strToNum |-> [k \in Key |-> IF k \in DOMAIN f THEN f[k] ELSE ix.strToNum[k]],
         numToStr |-> ix.numToStr \cup new,
         native   |-> ix.native \cup new]

(* HNSWIndex.remove over a set of keys: only the newest label of each goes. *)
Remove(ix, keys) ==
    LET gone == {<<k, ix.strToNum[k]>> : k \in keys}
    IN  [strToNum |-> [k \in Key |-> IF k \in keys THEN None ELSE ix.strToNum[k]],
         numToStr |-> ix.numToStr \ gone,
         native   |-> ix.native \ gone]

(* HNSWIndex.removeMemento: every chunk key of id that has a newest label.  *)
RemoveMementos(ix, ids) == Remove(ix, {k \in Key : k[1] \in ids})

(* HNSWIndex.load: the serialized labels come back in label order, so the   *)
(* last one named for a key becomes its newest.                             *)
NewestOf(labels, k) ==
    LET vs   == {l[2] : l \in {m \in labels : m[1] = k}}
        last == {v \in vs : \A w \in vs : w.at <= v.at}
    IN  IF last = {} THEN None ELSE CHOOSE v \in last : TRUE

Load(names, graph) ==
    [strToNum |-> [k \in Key |-> NewestOf(names, k)],
     numToStr |-> names,
     native   |-> graph]
=============================================================================
