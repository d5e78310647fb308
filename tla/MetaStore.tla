----------------------------- MODULE MetaStore ------------------------------
(***************************************************************************)
(* The metadata map of the vault (core/vault/meta-store.ts): a map whose    *)
(* records are threaded on a doubly linked list, newest updated_at first,   *)
(* with two inverted indexes, driven by the operations of the vault that    *)
(* set, delete and re-sort.                                                 *)
(*                                                                          *)
(* Startup, a sync and an ingest set many records and re-sort at the end.   *)
(* Ingest does so without yielding; between the records of a sync other     *)
(* calls read the store.                                                    *)
(***************************************************************************)
EXTENDS Naturals, FiniteSets

CONSTANTS
    Ids, Tags, Chronicles,
    MaxStamp,    \* the last instant of the clock
    Skew,        \* how far ahead the clock of another device may be
    None

ASSUME StoreAssumption ==
    /\ MaxStamp \in Nat /\ Skew \in Nat
    /\ IsFiniteSet(Ids)
    /\ None \notin Ids /\ None \notin Chronicles /\ None \notin Nat

Stamps == 0..(MaxStamp + Skew)

VARIABLES
    meta,            \* byId: [Ids -> record, or None]
    head,            \* id of the newest record, or None
    next, prev,      \* recencyNext and recencyPrev of each record
    tagIndex,        \* tag -> ids, for the tags that have an entry
    chronicleIndex,  \* chronicle -> ids, likewise
    now,             \* the clock of this device
    batch,           \* the batch that is running, or "none"
    todo,            \* ids the batch has still to load or to drop
    changed          \* did the sync change anything?

list   == <<head, next, prev>>
store  == <<meta, list, tagIndex, chronicleIndex>>
driver == <<batch, todo, changed>>
vars   == <<store, now, driver>>

Record == [at : Stamps, tags : SUBSET Tags, chronicle : Chronicles \cup {None}]

ASSUME RecordAssumption == None \notin Record

NoLink == [id \in Ids |-> None]
Stored == {id \in Ids : meta[id] # None}

(***************************************************************************)
(* The inverted indexes.                                                    *)
(***************************************************************************)

Postings(ix, k) == IF k \in DOMAIN ix THEN ix[k] ELSE {}

(* indexTags, indexChronicle: the entry is created on demand.               *)
IndexUnder(ix, id, keys) ==
    [k \in DOMAIN ix \cup keys |-> IF k \in keys THEN Postings(ix, k) \cup {id} ELSE ix[k]]

(* Fault: an entry that becomes empty is kept.                              *)
Unindex_KeepsEmpty(ix, id, keys) ==
    [k \in DOMAIN ix |-> IF k \in keys THEN ix[k] \ {id} ELSE ix[k]]

(* unindexTags, unindexChronicle: an entry that becomes empty is dropped.   *)
Unindex(ix, id, keys) ==
    [k \in {d \in DOMAIN ix : d \in keys => ix[d] # {id}} |->
        IF k \in keys THEN ix[k] \ {id} ELSE ix[k]]

ChronicleOf(m) == {m.chronicle} \ {None}

(***************************************************************************)
(* The list.                                                                *)
(***************************************************************************)

(* Fault: the head is left alone.                                           *)
Unlink_KeepsHead(l, id) ==
    LET p == l.prev[id]  n == l.next[id]
    IN  [head |-> l.head,
         next |-> [j \in Ids |-> IF j = id THEN None ELSE IF j = p THEN n ELSE l.next[j]],
         prev |-> [j \in Ids |-> IF j = id THEN None ELSE IF j = n THEN p ELSE l.prev[j]]]

Unlink(l, id) ==
    LET p == l.prev[id]  n == l.next[id]
    IN  [head |-> IF p = None THEN n ELSE l.head,
         next |-> [j \in Ids |-> IF j = id THEN None ELSE IF j = p THEN n ELSE l.next[j]],
         prev |-> [j \in Ids |-> IF j = id THEN None ELSE IF j = n THEN p ELSE l.prev[j]]]

LinkAtHead(l, id) ==
    [head |-> id,
     next |-> [l.next EXCEPT ![id] = l.head],
     prev |-> [j \in Ids |-> IF j = id THEN None ELSE IF j = l.head THEN id ELSE l.prev[j]]]

TheList == [head |-> head, next |-> next, prev |-> prev]
SetList(l) == head' = l.head /\ next' = l.next /\ prev' = l.prev

(* set: a record that exists is unindexed and unlinked first.               *)
Set(id, m) ==
    /\ meta' = [meta EXCEPT ![id] = m]
    /\ LET old == meta[id]
       IN  /\ SetList(LinkAtHead(IF old = None THEN TheList ELSE Unlink(TheList, id), id))
           /\ tagIndex' = IndexUnder(
                IF old = None THEN tagIndex ELSE Unindex(tagIndex, id, old.tags), id, m.tags)
           /\ chronicleIndex' = IndexUnder(
                IF old = None THEN chronicleIndex
                              ELSE Unindex(chronicleIndex, id, ChronicleOf(old)),
                id, ChronicleOf(m))

(* delete: a no-op if the record is absent.                                 *)
Delete(id) ==
    IF meta[id] = None
      THEN UNCHANGED store
      ELSE /\ meta' = [meta EXCEPT ![id] = None]
           /\ SetList(Unlink(TheList, id))
           /\ tagIndex' = Unindex(tagIndex, id, meta[id].tags)
           /\ chronicleIndex' = Unindex(chronicleIndex, id, ChronicleOf(meta[id]))

(* The stored ids in descending order of updated_at; ids with equal stamps  *)
(* in any order.                                                            *)
Sorted(s) ==
    /\ {s[i] : i \in DOMAIN s} = Stored
    /\ \A i, j \in DOMAIN s : i < j => s[i] # s[j] /\ meta[s[i]].at >= meta[s[j]].at

Place(s, id) == CHOOSE i \in DOMAIN s : s[i] = id

(* reorderByUpdatedAt                                                       *)
Reorder ==
    \E s \in [1..Cardinality(Stored) -> Stored] :
       /\ Sorted(s)
       /\ head' = IF Stored = {} THEN None ELSE s[1]
       /\ next' = [id \in Ids |-> IF id \in Stored /\ Place(s, id) + 1 \in DOMAIN s
                                    THEN s[Place(s, id) + 1] ELSE None]
       /\ prev' = [id \in Ids |-> IF id \in Stored /\ Place(s, id) - 1 \in DOMAIN s
                                    THEN s[Place(s, id) - 1] ELSE None]
       /\ UNCHANGED <<meta, tagIndex, chronicleIndex>>

(***************************************************************************)
(* Reads.                                                                   *)
(***************************************************************************)

(* values(): the n-th id met on the walk from the head.                     *)
Values[n \in 1..Cardinality(Ids)] ==
    IF n = 1 THEN head ELSE IF Values[n - 1] = None THEN None ELSE next[Values[n - 1]]

Visited == {n \in DOMAIN Values : Values[n] # None}

After(id, start) == start # None => meta[id].at >= start
Until(id, end)   == end # None => meta[id].at <= end

(* valuesInRange: skip what is newer than the range, stop at the first      *)
(* record that is older.                                                    *)
ValuesInRange(start, end) ==
    {Values[n] : n \in {p \in Visited :
        /\ Until(Values[p], end)
        /\ \A q \in 1..p : Until(Values[q], end) => After(Values[q], start)}}

Filter == [chronicle : Chronicles \cup {None}, tags : SUBSET Tags, exclude : SUBSET Tags,
           start : Stamps \cup {None}, end : Stamps \cup {None}]

(* metaMatches                                                              *)
Matches(id, f) ==
    /\ f.chronicle # None => meta[id].chronicle = f.chronicle
    /\ f.tags # {} => f.tags \cap meta[id].tags # {}
    /\ f.exclude \cap meta[id].tags = {}
    /\ After(id, f.start) /\ Until(id, f.end)

(* idsMatchingFilter: the narrowest index first, then every predicate.      *)
IdsMatchingFilter(f) ==
    LET base == IF f.chronicle # None THEN Postings(chronicleIndex, f.chronicle)
                ELSE IF f.tags # {} THEN UNION {Postings(tagIndex, t) : t \in f.tags}
                ELSE IF f.start # None \/ f.end # None THEN ValuesInRange(f.start, f.end)
                ELSE Stored
    IN  {id \in base : meta[id] # None /\ Matches(id, f)}

(***************************************************************************)
(* The vault's operations.                                                  *)
(***************************************************************************)

Init ==
    /\ meta = [id \in Ids |-> None]
    /\ head = None /\ next = NoLink /\ prev = NoLink
    /\ tagIndex = [t \in {} |-> {}] /\ chronicleIndex = [c \in {} |-> {}]
    /\ now = 0
    /\ batch = "startup" /\ todo \in SUBSET Ids /\ changed = TRUE

Advance == now < MaxStamp /\ now' = now + 1 /\ UNCHANGED <<store, driver>>

(* doWriteMemento registers a new memento.                                  *)
Write(id, tags) ==
    /\ batch = "none" /\ meta[id] = None
    /\ Set(id, [at |-> now, tags |-> tags, chronicle |-> None])
    /\ UNCHANGED <<now, driver>>

(* doUpdateMemento: unregister, then register with a new updated_at.        *)
Update(id, tags, chronicle) ==
    /\ batch = "none"
    /\ meta[id] # None => chronicle = meta[id].chronicle
    /\ Set(id, [at |-> now, tags |-> tags, chronicle |-> chronicle])
    /\ UNCHANGED <<now, driver>>

(* doDeleteMemento under the lock; readMemento when it finds the file gone, *)
(* whatever else is running.                                                *)
Forget(id) ==
    /\ batch \in {"none", "sync"} /\ meta[id] # None
    /\ Delete(id)
    /\ UNCHANGED <<now, driver>>

(* An ingest loads mementos that are new, a sync those that are new or have *)
(* changed on disk.                                                         *)
Begin(b, ids) ==
    /\ batch = "none"
    /\ b = "ingest" => ids # {} /\ ids \cap Stored = {}
    /\ batch' = b /\ todo' = ids /\ changed' = (b = "ingest")
    /\ UNCHANGED <<store, now>>

(* One record of a batch, with the timestamps its file carries.  Files of a *)
(* startup or a sync that cannot be read stay in todo.                      *)
Load(id, m) ==
    /\ batch \in {"startup", "ingest", "sync"} /\ id \in todo
    /\ batch = "ingest" => m.chronicle # None
    /\ m.at <= now + Skew
    /\ Set(id, m)
    /\ todo' = todo \ {id} /\ changed' = TRUE
    /\ UNCHANGED <<now, batch>>

(* doSync drops what is no longer on disk, without yielding.                *)
Prune(gone) ==
    /\ batch = "sync" /\ gone \subseteq Stored
    /\ batch' = "prune" /\ todo' = gone /\ changed' = (changed \/ gone # {})
    /\ UNCHANGED <<store, now>>

PruneOne(id) ==
    /\ batch = "prune" /\ id \in todo
    /\ Delete(id)
    /\ todo' = todo \ {id}
    /\ UNCHANGED <<now, batch, changed>>

(* Fault: a batch ends without the re-sort.                                 *)
End_NoReorder ==
    /\ batch \in {"startup", "ingest", "prune"}
    /\ batch # "startup" => todo = {}
    /\ batch' = "none" /\ todo' = {} /\ changed' = FALSE
    /\ UNCHANGED <<store, now>>

End ==
    /\ batch \in {"startup", "ingest", "prune"}
    /\ batch # "startup" => todo = {}
    /\ IF changed THEN Reorder ELSE UNCHANGED store
    /\ batch' = "none" /\ todo' = {} /\ changed' = FALSE
    /\ UNCHANGED now

Next ==
    \/ Advance \/ End
    \/ \E ids \in SUBSET Ids : Begin("ingest", ids) \/ Begin("sync", ids) \/ Prune(ids)
    \/ \E id \in Ids :
          \/ Forget(id) \/ PruneOne(id)
          \/ \E m \in Record : Load(id, m)
          \/ \E tags \in SUBSET Tags :
                \/ Write(id, tags)
                \/ \E c \in Chronicles \cup {None} : Update(id, tags, c)

Spec == Init /\ [][Next]_vars

(***************************************************************************)
(* Properties                                                               *)
(***************************************************************************)

TypeOK ==
    /\ meta \in [Ids -> Record \cup {None}]
    /\ head \in Ids \cup {None}
    /\ next \in [Ids -> Ids \cup {None}] /\ prev \in [Ids -> Ids \cup {None}]
    /\ DOMAIN tagIndex \subseteq Tags /\ DOMAIN chronicleIndex \subseteq Chronicles
    /\ now \in 0..MaxStamp
    /\ batch \in {"none", "startup", "ingest", "sync", "prune"}
    /\ todo \subseteq Ids /\ changed \in BOOLEAN

(* The list is a list: the links mirror each other and join exactly the     *)
(* records that are stored, through every set, replace, delete and re-sort. *)
LinksMatch ==
    /\ head = None <=> Stored = {}
    /\ \A id \in Stored : (prev[id] = None) <=> (head = id)
    /\ \A id \in Ids \ Stored : next[id] = None /\ prev[id] = None
    /\ \A id, j \in Ids : (next[id] = j) <=> (prev[j] = id)

(* Each inverted index lists exactly the records that carry the key, and    *)
(* has no entry for a key nobody carries (getTags would count it as zero).  *)
Exact(ix, keysOf) ==
    /\ DOMAIN ix = UNION {keysOf[id] : id \in Ids}
    /\ \A k \in DOMAIN ix : ix[k] = {id \in Ids : k \in keysOf[id]}

TagsOf       == [id \in Ids |-> IF meta[id] = None THEN {} ELSE meta[id].tags]
ChroniclesOf == [id \in Ids |-> IF meta[id] = None THEN {} ELSE ChronicleOf(meta[id])]

IndexesExact == Exact(tagIndex, TagsOf) /\ Exact(chronicleIndex, ChroniclesOf)

(* Outside batches every filter returns exactly the records that match it:  *)
(* no stale posting, no record lost behind the early exit of a range walk.  *)
FilterExact ==
    batch = "none" => \A f \in Filter : IdsMatchingFilter(f) = {id \in Stored : Matches(id, f)}

(* meta-store.ts: "`values()` -- iterates newest-updated-first".            *)
NewestFirst ==
    batch = "none" =>
        \A id \in Stored : next[id] # None => meta[id].at >= meta[next[id]].at

(* The linked list implements the feed.                                     *)
Feed == INSTANCE RecencyFeed WITH
            at   <- [id \in Ids |-> IF meta[id] = None THEN None ELSE meta[id].at],
            feed <- [n \in 1..Cardinality(Stored) |-> Values[n]]

KeepsFeed == Feed!FeedSpec
=============================================================================
