----------------------------- MODULE Retrieval ------------------------------
(***************************************************************************)
(* What the vault's reads find (recall, search, getMementos) while its      *)
(* writes, its sync and other devices change what is stored: Vault with the *)
(* chunker, a searcher and a retriever, each holding what registerMemento   *)
(* gave it.                                                                 *)
(*                                                                          *)
(* RAM is one value, ram; a step between two awaits is one action.  A read  *)
(* embeds its query and then loads what was ranked, file by file, while     *)
(* others go on.  What Vault.tla is about is left out here: an update's     *)
(* version check and the order of a write's file and its registration.      *)
(***************************************************************************)
EXTENDS Retriever, Searcher

CONSTANTS
    Ids,         \* the mementos' names, 1..n
    Inputs,      \* what is written: <<text, has the tag>>
    Began,       \* texts a vault may begin with
    Literals,    \* what is searched for
    Queries,     \* what is recalled
    Distance,    \* Distance[q][t]: how far chunk t is from query q, in tenths
    Wanted,      \* the k that are asked for
    None,
    MaxWrites,   \* bound: changes of the files
    MaxCalls     \* bound: reads that are started

ASSUME IdsAssumption == Ids \subseteq Nat \ {0} /\ IsFiniteSet(Ids) /\ 1 \in Ids

ASSUME TextAssumption ==
    /\ \A t \in Began \cup Literals \cup Queries : t \in Seq(Characters)
    /\ \A x \in Inputs : x[1] \in Seq(Characters) /\ x[2] \in BOOLEAN

ASSUME NoneAssumption ==
    /\ None \notin [count : Nat, tagged : BOOLEAN, time : Nat]
    /\ None \notin [text : Seq(Characters), chunks : Seq(Seq(Characters)), tagged : BOOLEAN, time : Nat]

ASSUME BoundsAssumption == MaxWrites \in Nat \ {0} /\ MaxCalls \in Nat /\ Wanted \subseteq Nat

VARIABLES
    mode,        \* the retriever of this vault
    files,       \* the .mem files: [text, chunks, tagged, time]
    ram,         \* [meta, index, hybrid, trigram, scan]
    call,        \* the read under way
    calls, clock,
    overwritten  \* history: mementos updated over a version RAM had not seen

vars == <<mode, files, ram, call, calls, clock, overwritten>>

Known(m)  == {id \in Ids : m.meta[id] # None}
Stored    == {id \in Ids : files[id] # None}
KeysOf(id, count) == {<<id, i>> : i \in 0..count - 1}

Empty == [meta |-> [id \in Ids |-> None], index |-> <<>>, hybrid |-> NoDocs,
          trigram |-> NoTrigrams, scan |-> <<>>]

Texts   == Began \cup {x[1] : x \in Inputs}
Written == [t \in Texts |-> splitChunks(t)]
Chunks  == UNION {Range(Written[x[1]]) : x \in Inputs}

ASSUME DistanceAssumption == \A q \in Queries, t \in Chunks : Distance[q][t] \in Nat

File(text, tagged) == [text |-> text, chunks |-> Written[text], tagged |-> tagged, time |-> clock]

(***************************************************************************)
(* Registering.                                                             *)
(***************************************************************************)

(* The retriever is given a memento's chunks one by one, or told to drop    *)
(* them.                                                                    *)
addChunks(H, id, chunks) ==
    LET Add(G, c) == IF mode = "hybrid" THEN hybridAdd(G, c, chunks[c[2] + 1]) ELSE G IN
      FoldLeft(Add, H, [i \in 1..Len(chunks) |-> <<id, i - 1>>])

removeChunks(H, keys) ==
    FoldLeft(hybridRemove, H, SortedBy(keys, LAMBDA c, d : c[2] < d[2]))

registerMemento(m, id, f) ==
    [meta    |-> [m.meta EXCEPT ![id] =
                    [count |-> Len(f.chunks), tagged |-> f.tagged, time |-> f.time]],
     index   |-> Over([c \in KeysOf(id, Len(f.chunks)) |-> f.chunks[c[2] + 1]], m.index),
     hybrid  |-> addChunks(m.hybrid, id, f.chunks),
     trigram |-> trigramAdd(m.trigram, id, Joined(f.chunks, "n")),
     scan    |-> Put(m.scan, id, Joined(f.chunks, "n"))]

unregisterMemento(m, id, count) ==
    [meta    |-> [m.meta EXCEPT ![id] = None],
     index   |-> Restrict(m.index, DOMAIN m.index \ KeysOf(id, count)),
     hybrid  |-> removeChunks(m.hybrid, KeysOf(id, count)),
     trigram |-> trigramRemove(m.trigram, id),
     scan    |-> Restrict(m.scan, DOMAIN m.scan \ {id})]

(* A read that finds no file reconciles RAM.                                *)
Forget(m, id) == IF m.meta[id] = None THEN m ELSE unregisterMemento(m, id, m.meta[id].count)

(* A chunk as close as this to a stored one is the same text.               *)
findDuplicate(chunk) == \E c \in DOMAIN ram.index : ram.index[c] = chunk

(***************************************************************************)
(* Changes.                                                                 *)
(***************************************************************************)

idle == [pc |-> "idle"]

(* The read under way is told what is being changed under it; one that is   *)
(* over is forgotten.                                                       *)
Disturbs(gone) ==
    call' = IF call.pc \in {"idle", "done"} THEN idle
            ELSE [call EXCEPT !.quiet = FALSE, !.gone = @ \cup gone]

Changes(id, f) ==
    /\ clock < MaxWrites /\ clock' = clock + 1
    /\ files' = [files EXCEPT ![id] = f]

writeMemento(id, text, tagged) ==
    /\ id \notin Stored \cup Known(ram)
    /\ LET f == File(text, tagged) IN
         /\ f.chunks # <<>> /\ ~findDuplicate(f.chunks[1])
         /\ Changes(id, f)
         /\ ram' = registerMemento(ram, id, f)
    /\ Disturbs({})
    /\ UNCHANGED <<mode, calls, overwritten>>

(* The chunks that go are those of the version that was read.  An update of *)
(* a memento whose file is gone is a read that finds no file.               *)
updateMemento(id, text) ==
    /\ id \in Stored
    /\ LET old == files[id]
           f   == File(text, old.tagged)
       IN  /\ f.chunks # <<>>
           /\ Changes(id, f)
           /\ ram' = registerMemento(unregisterMemento(ram, id, Len(old.chunks)), id, f)
           /\ overwritten' = IF id \in Known(ram) /\ ram.meta[id].count > Len(old.chunks)
                               THEN overwritten \cup {id} ELSE overwritten
    /\ Disturbs({})
    /\ UNCHANGED <<mode, calls>>

updateMissing(id) ==
    /\ id \in Known(ram) \ Stored
    /\ ram' = Forget(ram, id)
    /\ Disturbs({})
    /\ UNCHANGED <<mode, files, calls, clock, overwritten>>

deleteMemento(id) ==
    /\ id \in Known(ram)
    /\ Changes(id, None)
    /\ ram' = unregisterMemento(ram, id, ram.meta[id].count)
    /\ Disturbs({id})
    /\ UNCHANGED <<mode, calls, overwritten>>

(* Another device's file arrives, or its deletion.                          *)
Elsewhere(id, f) ==
    /\ Changes(id, f)
    /\ Disturbs(IF f = None THEN {id} ELSE {})
    /\ UNCHANGED <<mode, ram, calls, overwritten>>

(* doSync: what is new or has changed is registered, what is gone is not.   *)
Reload(gone, changed, m, id) ==
    IF id \in gone THEN Forget(m, id)
    ELSE IF id \in changed THEN registerMemento(Forget(m, id), id, files[id])
    ELSE m

Sync ==
    LET changed == {id \in Stored : id \in Known(ram) => ram.meta[id].time # files[id].time}
        gone    == Known(ram) \ Stored
    IN  /\ changed \cup gone # {}
        /\ ram' = FoldLeft(LAMBDA m, id : Reload(gone, changed, m, id), ram, SortedBy(Ids, <))
        /\ Disturbs({})
        /\ UNCHANGED <<mode, files, calls, clock, overwritten>>

(***************************************************************************)
(* Reads.                                                                   *)
(***************************************************************************)

Newest(m, id) == IF m.meta[id] = None THEN 0 ELSE m.meta[id].time + 1

(* idsMatchingFilter: all, or those with the tag.                           *)
Allowed(filtered) == {id \in Known(ram) : filtered => ram.meta[id].tagged}

Begins == call.pc \in {"idle", "done"} /\ calls < MaxCalls /\ calls' = calls + 1

Asked(pc, kind, q, k, filtered, picked) ==
    [pc |-> pc, kind |-> kind, query |-> q, k |-> k, filtered |-> filtered,
     allowed |-> Allowed(filtered), quiet |-> Known(ram) = Stored, gone |-> Known(ram) \ Stored,
     picked |-> picked, unread |-> Range(picked), best |-> <<>>, found |-> <<>>]

(* recall and getMementos with a query settle who may be found, then embed. *)
Ask(kind, q, k, filtered) ==
    /\ Begins /\ Allowed(filtered) # {}
    /\ call' = Asked("embed", kind, q, k, filtered, <<>>)
    /\ UNCHANGED <<mode, files, ram, clock, overwritten>>

(* getMementos without a query: the newest.                                 *)
List(k, filtered) ==
    /\ Begins /\ Allowed(filtered) # {}
    /\ call' = Asked("read", "newest", <<>>, k, filtered,
                     topK(SortedBy(Allowed(filtered), <), k, [id \in Ids |-> Newest(ram, id)]))
    /\ UNCHANGED <<mode, files, ram, clock, overwritten>>

(* Each memento once, at the place and with the chunk of its best hit.      *)
collapseChunkHits(hits) ==
    FoldLeft(LAMBDA acc, hit :
               IF hit.id[1] \in DOMAIN acc.best THEN acc
               ELSE [order |-> Append(acc.order, hit.id[1]),
                     best  |-> Put(acc.best, hit.id[1], hit.id[2])],
             [order |-> <<>>, best |-> <<>>], hits)

(* A recall without a filter restricts nothing.                             *)
Reach == IF call.kind = "recall" /\ ~call.filtered THEN Ids ELSE call.allowed

(* Fault: as many chunks are asked for as mementos are wanted.              *)
rankSemantic_NoOverfetch(score) ==
    LET distance == [c \in DOMAIN ram.index |-> Distance[call.query][ram.index[c]]]
        hits     == IF mode = "hybrid"
                      THEN hybridRetrieve(ram.hybrid, distance, call.query, call.k, Reach, score)
                      ELSE semanticRetrieve(distance, call.k, Reach)
    IN  collapseChunkHits(Kept(hits, {h \in DOMAIN hits : hits[h].distance < Threshold}))

rankSemantic(score) ==
    LET distance == [c \in DOMAIN ram.index |-> Distance[call.query][ram.index[c]]]
        fetchK   == Most(call.k * Overfetch, LegTopK)
        hits     == IF mode = "hybrid"
                      THEN hybridRetrieve(ram.hybrid, distance, call.query, fetchK, Reach, score)
                      ELSE semanticRetrieve(distance, fetchK, Reach)
    IN  collapseChunkHits(Kept(hits, {h \in DOMAIN hits : hits[h].distance < Threshold}))

(* Fault: a listing is only what the query finds.                           *)
Picked_Filtered(ranked) == Take(ranked.order, call.k)

(* What is loaded: the best; and for a listing, the newest of the rest.     *)
Picked(ranked) ==
    LET best == Take(ranked.order, call.k)
        rest == SortedBy(call.allowed \ Range(best), <)
        age  == [id \in Ids |-> Newest(ram, id)]
    IN  IF call.kind = "recall" THEN best ELSE best \o topK(rest, call.k - Len(best), age)

(* The chunks that share a word may have any BM25 scores.  Bound: two values. *)
Scores ==
    IF mode = "hybrid" THEN [Range(Scored(ram.hybrid, call.query, Reach)) -> 1..2] ELSE {<<>>}

Rank ==
    /\ call.pc = "embed"
    /\ \E ranked \in {rankSemantic(score) : score \in Scores} :
         LET picked == Picked(ranked) IN
           call' = [call EXCEPT !.pc = IF picked = <<>> THEN "done" ELSE "read",
                                !.picked = picked, !.unread = Range(picked), !.best = ranked.best]
    /\ UNCHANGED <<mode, files, ram, calls, clock, overwritten>>

(* readMemento: the file as it is by now, or its absence.  The chunk that   *)
(* was ranked may be gone.                                                  *)
Read(id) ==
    /\ call.pc = "read" /\ id \in call.unread
    /\ LET count == Len(files[id].chunks)
           best  == IF id \in DOMAIN call.best THEN call.best[id] ELSE 0
           hit   == [chunk |-> IF best < count THEN best ELSE count - 1, count |-> count]
           left  == call.unread \ {id}
       IN  call' = [call EXCEPT !.unread = left, !.pc = IF left = {} THEN "done" ELSE "read",
                                !.found = IF id \in Stored THEN Put(@, id, hit) ELSE @]
    /\ ram' = IF id \in Stored THEN ram ELSE Forget(ram, id)
    /\ UNCHANGED <<mode, files, calls, clock, overwritten>>

(* The ids a search walks: every memento the filter lets through, newest    *)
(* first.                                                                   *)
Ordered(filtered) ==
    SortedBy(Allowed(filtered), LAMBDA c, d : Newest(ram, c) > Newest(ram, d))

(* Vault.search, which awaits nothing.                                      *)
search(query, ignoreCase, filtered) ==
    IF query = <<>> THEN [status |-> "empty-query"]
    ELSE IF Len(query) < Size THEN [status |-> "short-query"]
    ELSE LET ids     == Ordered(filtered)
             outcome == trigramSearch(ram.trigram, query, ids, ignoreCase)
         IN  IF filtered /\ ids = <<>> THEN [status |-> "no-candidates"]
             ELSE IF outcome.totalMatches = 0 THEN [status |-> "no-matches"]
             ELSE [status |-> "ok", outcome |-> outcome]

(***************************************************************************)
(* A vault of one memento, which may have any text.  Bound: it is written   *)
(* to and read only if the text is one of Inputs.                           *)
(***************************************************************************)
Init ==
    /\ mode \in {"semantic", "hybrid"}
    /\ \E text \in {t \in Texts : Written[t] # <<>>} :
         LET f    == [text |-> text, chunks |-> Written[text], tagged |-> FALSE, time |-> 0]
             live == \E x \in Inputs : x[1] = text
         IN  /\ files = [id \in Ids |-> IF id = 1 THEN f ELSE None]
             /\ ram = registerMemento(Empty, 1, f)
             /\ clock = (IF live THEN 1 ELSE MaxWrites)
             /\ calls = (IF live THEN 0 ELSE MaxCalls)
    /\ call = idle /\ overwritten = {}

(* Bound: a new memento takes the first name that is free.                  *)
New == {id \in Ids \ (Stored \cup Known(ram)) : \A h \in 1..id - 1 : h \in Stored \cup Known(ram)}

Next ==
    \/ \E id \in New, x \in Inputs : writeMemento(id, x[1], x[2])
    \/ \E id \in Stored \cup New, x \in Inputs :
          updateMemento(id, x[1]) \/ Elsewhere(id, File(x[1], x[2]))
    \/ \E id \in Ids : updateMissing(id) \/ deleteMemento(id) \/ Read(id)
    \/ \E id \in Stored : Elsewhere(id, None)
    \/ \E kind \in {"recall", "list"}, q \in Queries, k \in Wanted, filtered \in BOOLEAN :
          Ask(kind, q, k, filtered) \/ (kind = "list" /\ List(k, filtered))
    \/ Sync \/ Rank

Spec == Init /\ [][Next]_vars

(***************************************************************************)
(* Properties.                                                              *)
(***************************************************************************)

(* Whatever was added, removed and added again, and in whatever order, the  *)
(* trigram index finds what a walk through all texts finds: the same        *)
(* matches, and the same snippets of the newest (trigram/index.ts:5-8).     *)
TrigramIsScan ==
    /\ DOMAIN ram.scan = Known(ram)
    /\ \A filtered \in BOOLEAN :
         LET ids == Ordered(filtered) IN
           \A q \in Literals, ignoreCase \in BOOLEAN :
             LET walk == scanSearch(ram.scan, q, ids, ignoreCase)
                 r    == search(q, ignoreCase, filtered)
             IN  Len(q) >= Size =>
                   IF walk.totalMatches = 0 THEN r.status \in {"no-candidates", "no-matches"}
                                            ELSE r = [status |-> "ok", outcome |-> walk]

(* The words of some chunks, each as often as it occurs.                    *)
Length(index, keys) == FoldSet(LAMBDA c, n : n + Len(tokenize(index[c])), 0, keys)

(* The words lead to exactly the chunks that contain them, with their       *)
(* counts: chunks of the version RAM knows, and no others, except for a     *)
(* memento that was updated over a longer version that RAM had not seen.    *)
PostingsInverse ==
    LET registered == UNION {KeysOf(id, ram.meta[id].count) : id \in Known(ram)}
        H == ram.hybrid
        Count(c, w) == LET ws == tokenize(ram.index[c]) IN Cardinality({h \in DOMAIN ws : ws[h] = w})
    IN  /\ registered \subseteq DOMAIN ram.index
        /\ \A c \in DOMAIN ram.index \ registered : c[1] \in overwritten
        /\ mode = "hybrid" =>
             /\ DOMAIN H.docs = DOMAIN ram.index
             /\ \A w \in DOMAIN H.postings :
                  /\ H.postings[w] # <<>>
                  /\ Cardinality({p.doc : p \in Range(H.postings[w])}) = Len(H.postings[w])
                  /\ \A p \in Range(H.postings[w]) : p.tf = Count(p.doc, w) /\ p.tf > 0
             /\ \A c \in DOMAIN H.docs : \A w \in Range(tokenize(ram.index[c])) :
                  w \in DOMAIN H.postings /\ \E p \in Range(H.postings[w]) : p.doc = c
             /\ H.totalLength = Length(ram.index, DOMAIN H.docs)

Fitting == {t \in Texts : Fits(t)}

(* Every text that is stored was cut into chunks the embedder takes, and is *)
(* given back with the words it was written with (chunker.ts:12-15).        *)
ChunksFit == \A id \in Stored : files[id].text \in Fitting

(* A listing, with a query or without, is complete: as many of the mementos *)
(* its filter names as were asked for, less those deleted during the call;  *)
(* a query only sorts (index.ts:1120-1128).  Without one, it is the newest. *)
ListingComplete ==
    (call.pc = "done" /\ call.kind # "recall") =>
        LET found == DOMAIN call.found IN
          /\ found \subseteq call.allowed /\ Cardinality(found) <= call.k
          /\ Cardinality(found) >= Least(call.k, Cardinality(call.allowed))
                                     - Cardinality(call.gone \cap call.allowed)
          /\ call.kind = "newest" /\ call.quiet =>
               \A id \in found, other \in call.allowed \ found : Newest(ram, id) > Newest(ram, other)

(* Does this query mean anything to the vault?  A hybrid vault says yes     *)
(* when one vector is not far or one word is shared.                        *)
Close(ids, limit) == {id \in ids : \E c \in DOMAIN ram.index :
                                      c[1] = id /\ Distance[call.query][ram.index[c]] < limit}
Sharing(ids) == {id \in ids : \E c \in DOMAIN ram.index :
                    c[1] = id /\ Range(tokenize(ram.index[c])) \cap Range(tokenize(call.query)) # {}}
Relevant(ids) ==
    IF mode = "semantic" THEN Close(ids, Threshold)
    ELSE IF Close(ids, ColdThreshold) \cup Sharing(ids) # {} THEN ids ELSE {}

(* A recall that nothing disturbs returns k mementos whenever k are         *)
(* relevant, through the two legs, the fusion, the threshold and the        *)
(* collapse ("so we never silently return fewer than k when more exist",    *)
(* retrievers/hybrid/index.ts:128-130), with one exception: it may return   *)
(* fewer where the chunks RAM has of those it returns are as many as the    *)
(* hits it fetches (core/vault/index.ts:1167).  Every chunk it names        *)
(* exists, disturbed or not.                                                *)
RecallFull ==
    (call.pc = "done" /\ call.kind = "recall") =>
        /\ \A id \in DOMAIN call.found : call.found[id].chunk \in 0..call.found[id].count - 1
        /\ (call.quiet /\ overwritten = {}) =>
             LET due    == Least(call.k, Cardinality(Relevant(call.allowed)))
                 chunks == {c \in DOMAIN ram.index : c[1] \in DOMAIN call.found}
             IN  \/ Cardinality(DOMAIN call.found) = due
                 \/ /\ Cardinality(DOMAIN call.found) < due
                    /\ Cardinality(chunks) >= Most(call.k * Overfetch, LegTopK)
=============================================================================
