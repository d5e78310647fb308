----------------------------- MODULE Retriever ------------------------------
(***************************************************************************)
(* The retrievers (retrievers/): semantic asks the vector index, hybrid     *)
(* fuses its answer with that of an inverted index over the chunks' words.  *)
(* What the hybrid retriever holds is a value, its operations are operators.*)
(*                                                                          *)
(* A chunk's key is <<memento, number>>.  Distances are tenths.  The BM25   *)
(* score of a chunk is not computed: it is any number, the same for the     *)
(* whole query.                                                             *)
(***************************************************************************)
EXTENDS Chunker

CONSTANTS
    LegTopK,      \* PER_RETRIEVER_TOPK and RECALL_OVERFETCH_FLOOR: hits of a leg, at least
    Overfetch     \* RECALL_OVERFETCH_MULT: chunks asked for per memento wanted

ASSUME LegAssumption == LegTopK \in Nat \ {0} /\ Overfetch \in Nat \ {0}

MinTokenLen   == 2
RrfK          == 60
Threshold     == 5     \* RETRIEVAL_DISTANCE_THRESHOLD
ColdThreshold == 8     \* COLD_QUERY_THRESHOLD

Most(m, n) == IF m > n THEN m ELSE n
Take(q, n) == SubSeq(q, 1, IF Len(q) < n THEN Len(q) ELSE n)

(***************************************************************************)
(* topK: a heap of the k best items so far, the worst at its root.          *)
(***************************************************************************)
Swap(heap, i, j) == [heap EXCEPT ![i] = heap[j], ![j] = heap[i]]

(* The last entry rises while it is worth less than its parent.             *)
siftUp(heap, i) ==
    LET turn[n \in 0..i] ==
          IF n = 0 THEN [heap |-> heap, at |-> i]
          ELSE LET h      == turn[n - 1].heap
                   at     == turn[n - 1].at
                   parent == at \div 2
               IN  IF at = 1 \/ h[at].score >= h[parent].score THEN turn[n - 1]
                   ELSE [heap |-> Swap(h, at, parent), at |-> parent]
    IN  turn[i].heap

(* The first sinks while it is worth more than the lesser of its children.  *)
siftDown(heap) ==
    LET turn[n \in 0..Len(heap)] ==
          IF n = 0 THEN [heap |-> heap, at |-> 1]
          ELSE LET h        == turn[n - 1].heap
                   at       == turn[n - 1].at
                   children == {c \in {2 * at, 2 * at + 1} :
                                  c <= Len(heap) /\ h[c].score < h[at].score}
                   smallest == CHOOSE c \in children : \A d \in children :
                                  h[c].score < h[d].score \/ (h[c].score = h[d].score /\ c <= d)
               IN  IF children = {} THEN turn[n - 1]
                   ELSE [heap |-> Swap(h, at, smallest), at |-> smallest]
    IN  turn[Len(heap)].heap

Offer(heap, entry, k) ==
    IF Len(heap) < k THEN siftUp(Append(heap, entry), Len(heap) + 1)
    ELSE IF entry.score > heap[1].score THEN siftDown([heap EXCEPT ![1] = entry])
    ELSE heap

(* The worst is taken out again and again, and what is taken later goes     *)
(* before it.                                                               *)
Drained(heap) ==
    LET turn[n \in 0..Len(heap)] ==
          IF n = 0 THEN [heap |-> heap, out |-> <<>>]
          ELSE LET h == turn[n - 1].heap IN
                 [heap |-> IF Len(h) = 1 THEN <<>>
                           ELSE siftDown([Front(h) EXCEPT ![1] = Last(h)]),
                  out  |-> <<h[1].item>> \o turn[n - 1].out]
    IN  turn[Len(heap)].out

(* The k best of items, best first, by the score each has.                  *)
topK(items, k, score) ==
    IF k <= 0 THEN <<>>
    ELSE Drained(FoldLeft(LAMBDA heap, x : Offer(heap, [item |-> x, score |-> score[x]], k),
                          <<>>, items))

(***************************************************************************)
(* HybridRetriever.                                                         *)
(***************************************************************************)
NoDocs == [postings |-> <<>>, docs |-> <<>>, totalLength |-> 0]

(* The words of a text, in order; "b" stands for both cases.                *)
tokenize(t) ==
    LET lower == [i \in Places(t) |-> IF t[i] = "B" THEN "b" ELSE t[i]]
        words == Parts(lower, {<<i, i>> : i \in {h \in Places(t) : t[h] \notin Letters}})
    IN  Kept(words, {h \in DOMAIN words : Len(words[h]) >= MinTokenLen})

(* Map.delete keeps the order of what stays.                                *)
Without(posting, id) == Kept(posting, {h \in DOMAIN posting : posting[h].doc # id})

(* Fault: the posting lists keep the document.                              *)
hybridRemove_KeepsPostings(H, id) ==
    IF id \notin DOMAIN H.docs THEN H
    ELSE [H EXCEPT !.docs = Restrict(@, DOMAIN @ \ {id}),
                   !.totalLength = @ - H.docs[id].length]

(* The document's terms lead to the posting lists it is in; an empty list   *)
(* goes.                                                                    *)
hybridRemove(H, id) ==
    IF id \notin DOMAIN H.docs THEN H
    ELSE LET left == [term \in DOMAIN H.postings |->
                        IF term \in H.docs[id].terms THEN Without(H.postings[term], id)
                                                     ELSE H.postings[term]]
         IN  [postings    |-> Restrict(left, {term \in DOMAIN left : left[term] # <<>>}),
              docs        |-> Restrict(H.docs, DOMAIN H.docs \ {id}),
              totalLength |-> H.totalLength - H.docs[id].length]

hybridAdd(H0, id, text) ==
    LET H      == hybridRemove(H0, id)
        tokens == tokenize(text)
        terms  == Range(tokens)
        Tf(term)  == Cardinality({h \in DOMAIN tokens : tokens[h] = term})
        Old(term) == IF term \in DOMAIN H.postings THEN H.postings[term] ELSE <<>>
    IN  [docs        |-> Put(H.docs, id, [terms |-> terms, length |-> Len(tokens)]),
         totalLength |-> H.totalLength + Len(tokens),
         postings    |-> Over([term \in terms |-> Append(Old(term), [doc |-> id, tf |-> Tf(term)])],
                              H.postings)]

(* The documents with a word of the query, in the order they are met.       *)
Scored(H, query, allowed) ==
    LET tokens == tokenize(query)
        Met(found, term) ==
          LET docs == IF term \in DOMAIN H.postings THEN H.postings[term] ELSE <<>>
              new  == Kept(docs, {h \in DOMAIN docs : /\ docs[h].doc[1] \in allowed
                                                    /\ docs[h].doc \in DOMAIN H.docs
                                                    /\ docs[h].doc \notin Range(found)})
          IN  found \o [h \in DOMAIN new |-> new[h].doc]
    IN  FoldLeft(Met, <<>>, tokens)

bm25Search(H, query, k, allowed, score) == topK(Scored(H, query, allowed), k, score)

(* The vector index (its search is an addon): the k nearest of its chunks   *)
(* whose memento is allowed, nearest first.                                 *)
indexSearch(distance, k, allowed) ==
    LET Nearer(c, d) == \/ distance[c] < distance[d]
                        \/ distance[c] = distance[d] /\ (c[1] < d[1] \/ (c[1] = d[1] /\ c[2] < d[2]))
        near == SortedBy({c \in DOMAIN distance : c[1] \in allowed}, Nearer)
    IN  Take([h \in DOMAIN near |-> [id |-> near[h], distance |-> distance[near[h]]]], k)

(* 1 / (RrfK + rank), in units small enough to add ranks up to four.        *)
RrfUnit == 61 * 62 * 63 * 64
Rrf(leg, id) ==
    LET ranks == {h \in DOMAIN leg : leg[h] = id} IN
      IF ranks = {} THEN 0 ELSE RrfUnit \div (RrfK + Min(ranks))

(* The distance a fused hit is given: from 0 to 0.4, by its place.          *)
Ramp(i, k) == (4 * (i - 1)) \div Most(1, k - 1)

(* Reciprocal rank fusion; equals stay in the order they were met.          *)
Fuse(dense, sparse, k) ==
    LET ids    == dense \o Kept(sparse, {h \in DOMAIN sparse : sparse[h] \notin Range(dense)})
        Sum(h) == Rrf(dense, ids[h]) + Rrf(sparse, ids[h])
        order  == SortedBy(DOMAIN ids, LAMBDA g, h : Sum(g) > Sum(h) \/ (Sum(g) = Sum(h) /\ g < h))
        best   == Take(order, k)
    IN  [i \in DOMAIN best |-> [id |-> ids[best[i]], distance |-> Ramp(i, k)]]

semanticRetrieve(distance, k, allowed) == indexSearch(distance, k, allowed)

(* A query far from every vector that shares no word finds nothing.         *)
hybridRetrieve(H, distance, query, k, allowed, score) ==
    LET legK   == Most(k, LegTopK)
        dense  == indexSearch(distance, legK, allowed)
        sparse == bm25Search(H, query, legK, allowed, score)
        cold   == (dense = <<>> \/ dense[1].distance >= ColdThreshold) /\ sparse = <<>>
    IN  IF cold THEN <<>> ELSE Fuse([h \in DOMAIN dense |-> dense[h].id], sparse, k)
=============================================================================
