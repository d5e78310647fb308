------------------------------ MODULE Searcher ------------------------------
(***************************************************************************)
(* The literal searchers (searchers/): scan walks every text, trigram looks *)
(* only at the texts its index names.  What a searcher holds is a value,    *)
(* and its operations are operators on that value.  A query by regular      *)
(* expression runs the same walk with an engine that is not part of src/.   *)
(***************************************************************************)
EXTENDS Chunker

CONSTANTS
    MaxPerMemento,   \* SEARCH_MAX_PER_MEMENTO: snippets of one memento
    MaxSnippets      \* SEARCH_MAX_SNIPPETS: snippets in all

ASSUME LimitsAssumption == MaxPerMemento \in Nat /\ MaxSnippets \in Nat

Size == 3            \* TRIGRAM_SIZE, and MIN_LITERAL_QUERY_CHARS
Gone == 0            \* a slot whose memento was removed

asciiLower(t) == [i \in Places(t) |-> IF t[i] = "B" THEN "b" ELSE t[i]]

(* TextStore: what is resident of each memento; orderedEntries keeps the    *)
(* order of ids and skips what is not resident or not in only.              *)
Entries(store, ids, only) == Kept(ids, {h \in DOMAIN ids : ids[h] \in DOMAIN store \cap only})

(* Where the matches of needle begin: each search goes on behind the last.  *)
MatchRanges(needle, hay) ==
    LET from[p \in 1..Len(hay) + 1] ==
          LET at == {i \in p..Len(hay) - Len(needle) + 1 :
                        SubSeq(hay, i, i + Len(needle) - 1) = needle}
          IN  IF at = {} THEN <<>> ELSE <<Min(at)>> \o from[Min(at) + Len(needle)]
    IN  IF needle = <<>> THEN <<>> ELSE from[1]

Matches(text, query, ignoreCase) ==
    IF ignoreCase THEN MatchRanges(asciiLower(query), asciiLower(text))
                  ELSE MatchRanges(query, text)

Least(m, n) == IF m < n THEN m ELSE n

(* The matches of an entry are counted, and shown while there is room.      *)
SearchEntry(store, query, ignoreCase, acc, id) ==
    LET ranges == Matches(store[id], query, ignoreCase)
        room   == Least(MaxPerMemento, MaxSnippets - Len(acc.snippets))
        shown  == SubSeq(ranges, 1, Least(Len(ranges), room))
    IN  [totalMatches  |-> acc.totalMatches + Len(ranges),
         totalMementos |-> acc.totalMementos + (IF ranges = <<>> THEN 0 ELSE 1),
         snippets      |-> acc.snippets \o [h \in DOMAIN shown |-> <<id, shown[h]>>]]

NoMatches == [totalMatches |-> 0, totalMementos |-> 0, snippets |-> <<>>]

runTextSearch(store, entries, query, ignoreCase) ==
    FoldLeft(LAMBDA acc, id : SearchEntry(store, query, ignoreCase, acc, id), NoMatches, entries)

(* ScanSearcher: the store is all there is.                                 *)
scanSearch(store, query, ids, ignoreCase) ==
    runTextSearch(store, Entries(store, ids, DOMAIN store), query, ignoreCase)

(***************************************************************************)
(* TrigramSearcher.  A memento gets a slot of ids, its number; postings     *)
(* lists for each trigram the slots of the texts that contain it.           *)
(***************************************************************************)
NoTrigrams == [ids |-> <<>>, idIndex |-> <<>>, postings |-> <<>>, store |-> <<>>]

trigramsOf(text) ==
    LET lower == asciiLower(text) IN {SubSeq(lower, i, i + Size - 1) : i \in 1..Len(lower) - Size + 1}

(* A slot is given up, not freed: postings go on naming it.                 *)
trigramRemove(T, id) ==
    IF id \notin DOMAIN T.idIndex THEN T
    ELSE [ids      |-> [T.ids EXCEPT ![T.idIndex[id]] = Gone],
          idIndex  |-> Restrict(T.idIndex, DOMAIN T.idIndex \ {id}),
          postings |-> T.postings,
          store    |-> Restrict(T.store, DOMAIN T.store \ {id})]

(* Fault: a slot that was given up is used again.                           *)
trigramAdd_Reuse(T0, id, text) ==
    LET T    == trigramRemove(T0, id)
        free == {h \in DOMAIN T.ids : T.ids[h] = Gone}
        n    == IF free = {} THEN Len(T.ids) + 1 ELSE Min(free)
        new  == trigramsOf(text)
        Old(tri) == IF tri \in DOMAIN T.postings THEN T.postings[tri] ELSE <<>>
    IN  [ids      |-> IF free = {} THEN Append(T.ids, id) ELSE [T.ids EXCEPT ![n] = id],
         idIndex  |-> Put(T.idIndex, id, n),
         postings |-> Over([tri \in new |-> Append(Old(tri), n)], T.postings),
         store    |-> Put(T.store, id, text)]

trigramAdd(T0, id, text) ==
    LET T   == trigramRemove(T0, id)
        n   == Len(T.ids) + 1
        new == trigramsOf(text)
        Old(tri) == IF tri \in DOMAIN T.postings THEN T.postings[tri] ELSE <<>>
    IN  [ids      |-> Append(T.ids, id),
         idIndex  |-> Put(T.idIndex, id, n),
         postings |-> Over([tri \in new |-> Append(Old(tri), n)], T.postings),
         store    |-> Put(T.store, id, text)]

(* Two ascending lists are walked side by side.                             *)
intersectSorted(a, b) ==
    LET from[p \in (1..Len(a) + 1) \X (1..Len(b) + 1)] ==
          LET i == p[1]
              j == p[2]
          IN  IF i > Len(a) \/ j > Len(b) THEN <<>>
              ELSE IF a[i] = b[j] THEN <<a[i]>> \o from[<<i + 1, j + 1>>]
              ELSE IF a[i] < b[j] THEN from[<<i + 1, j>>] ELSE from[<<i, j + 1>>]
    IN  from[<<1, 1>>]

(* The mementos whose texts contain every trigram of the query.             *)
candidateIdsFor(T, query) ==
    LET tris     == trigramsOf(query)
        lists    == {T.postings[tri] : tri \in tris}
        shortest == CHOOSE a \in lists : \A b \in lists : Len(a) <= Len(b)
        slots    == FoldSet(intersectSorted, shortest, lists)
    IN  IF tris = {} \/ ~ tris \subseteq DOMAIN T.postings THEN {}
        ELSE {T.ids[slots[h]] : h \in DOMAIN slots} \ {Gone}

trigramSearch(T, query, ids, ignoreCase) ==
    LET only == IF Len(query) < Size THEN DOMAIN T.store ELSE candidateIdsFor(T, query) IN
      runTextSearch(T.store, Entries(T.store, ids, only), query, ignoreCase)
=============================================================================
