----------------------------- MODULE Collections ----------------------------
(***************************************************************************)
(* The arrays and maps of the code as sequences and functions.  An array    *)
(* that is sorted is defined by the rank of its members, one that is        *)
(* filtered by the places it keeps.                                         *)
(***************************************************************************)
EXTENDS Integers, Sequences, FiniteSets, FiniteSetsExt, SequencesExt

(* The members of S, in the order that before gives.                        *)
SortedBy(S, before(_, _)) ==
    LET place == [x \in S |-> 1 + Cardinality({y \in S : before(y, x)})]
    IN  [i \in 1..Cardinality(S) |-> CHOOSE x \in S : place[x] = i]

(* What s holds at some of its places, in the order it holds it.            *)
Kept(s, places) == LET order == SortedBy(places, <) IN [h \in DOMAIN order |-> s[order[h]]]

(* A map with the entries of another set in it; with one entry.             *)
Over(new, old) ==
    [x \in DOMAIN new \cup DOMAIN old |-> IF x \in DOMAIN new THEN new[x] ELSE old[x]]

Put(map, key, value) ==
    [x \in DOMAIN map \cup {key} |-> IF x = key THEN value ELSE map[x]]
=============================================================================
