-------------------------- MODULE MetaStoreProofs ---------------------------
(***************************************************************************)
(* Theorems about MetaStore, for any number of records, tags, chronicles    *)
(* and instants.                                                            *)
(***************************************************************************)
EXTENDS MetaStore, Integers, Sequences, SequenceTheorems, FiniteSetTheorems, WellFoundedInduction, TLAPS

MetaType == meta \in [Ids -> Record \cup {None}] /\ now \in 0..MaxStamp

(***************************************************************************)
(* The inverted indexes.                                                    *)
(***************************************************************************)

(* Taking a record out of exactly the entries it is in.                     *)
LEMMA UnindexExact ==
    ASSUME NEW ix, NEW keysOf, NEW id \in Ids, Exact(ix, keysOf), keysOf = [i \in Ids |-> keysOf[i]]
    PROVE  Exact(Unindex(ix, id, keysOf[id]), [keysOf EXCEPT ![id] = {}])
<1> DEFINE new == Unindex(ix, id, keysOf[id])
           f   == [keysOf EXCEPT ![id] = {}]
           D   == {d \in DOMAIN ix : d \in keysOf[id] => ix[d] # {id}}
<1>1. new = [k \in D |-> IF k \in keysOf[id] THEN ix[k] \ {id} ELSE ix[k]]
  BY DEF Unindex
<1>2. /\ DOMAIN ix = UNION {keysOf[i] : i \in Ids}
      /\ \A k \in DOMAIN ix : ix[k] = {i \in Ids : k \in keysOf[i]}
  BY DEF Exact
<1>3. f[id] = {} /\ \A i \in Ids \ {id} : f[i] = keysOf[i]
  OBVIOUS
<1>4. DOMAIN new = UNION {f[i] : i \in Ids}
  <2>1. ASSUME NEW k \in D PROVE \E i \in Ids : k \in f[i]
    <3>1. \E i \in Ids \ {id} : k \in keysOf[i]
      BY <1>2, <2>1
    <3> QED BY <1>3, <3>1
  <2>2. ASSUME NEW i \in Ids, NEW k \in f[i] PROVE k \in D
    <3>1. i # id /\ k \in keysOf[i]
      BY <1>3
    <3>2. k \in DOMAIN ix /\ i \in ix[k]
      BY <1>2, <3>1
    <3> QED BY <3>1, <3>2
  <2> HIDE DEF f, D
  <2> QED BY <1>1, <2>1, <2>2
<1>5. ASSUME NEW k \in D PROVE new[k] = {i \in Ids : k \in f[i]}
  <2>1. ix[k] = {i \in Ids : k \in keysOf[i]}
    BY <1>2
  <2>2. {i \in Ids : k \in f[i]} = {i \in Ids : k \in keysOf[i]} \ {id}
    BY <1>3
  <2> QED BY <1>1, <2>1, <2>2
<1>6. DOMAIN new = D
  BY <1>1
<1>7. Exact(new, f)
  <2> HIDE DEF new, f, D
  <2> QED BY <1>4, <1>5, <1>6 DEF Exact
<1> QED BY <1>7

(* Putting a record that is in no entry under its keys.                     *)
LEMMA IndexExact ==
    ASSUME NEW ix, NEW keysOf, NEW id \in Ids, NEW keys, Exact(ix, keysOf),
           keysOf = [i \in Ids |-> keysOf[i]], keysOf[id] = {}
    PROVE  Exact(IndexUnder(ix, id, keys), [keysOf EXCEPT ![id] = keys])
<1> DEFINE new == IndexUnder(ix, id, keys)
           f   == [keysOf EXCEPT ![id] = keys]
<1>1. new = [k \in DOMAIN ix \cup keys |-> IF k \in keys THEN Postings(ix, k) \cup {id} ELSE ix[k]]
  BY DEF IndexUnder
<1>2. /\ DOMAIN ix = UNION {keysOf[i] : i \in Ids}
      /\ \A k \in DOMAIN ix : ix[k] = {i \in Ids : k \in keysOf[i]}
  BY DEF Exact
<1>3. f[id] = keys /\ \A i \in Ids \ {id} : f[i] = keysOf[i]
  OBVIOUS
<1>4. DOMAIN ix \cup keys = UNION {f[i] : i \in Ids}
  <2> HIDE DEF f
  <2> QED BY <1>2, <1>3
<1>5. ASSUME NEW k PROVE Postings(ix, k) = {i \in Ids : k \in keysOf[i]}
  <2>1. CASE k \in DOMAIN ix
    BY <1>2, <2>1 DEF Postings
  <2>2. CASE k \notin DOMAIN ix
    BY <1>2, <2>2 DEF Postings
  <2> QED BY <2>1, <2>2
<1>6. ASSUME NEW k \in DOMAIN ix \cup keys PROVE new[k] = {i \in Ids : k \in f[i]}
  <2>1. k \in keys => {i \in Ids : k \in f[i]} = {i \in Ids : k \in keysOf[i]} \cup {id}
    BY <1>3
  <2>2. k \notin keys => {i \in Ids : k \in f[i]} = {i \in Ids : k \in keysOf[i]}
    BY <1>3
  <2>3. k \notin keys => ix[k] = {i \in Ids : k \in keysOf[i]}
    BY <1>2
  <2> HIDE DEF f
  <2> QED BY <1>1, <1>5, <2>1, <2>2, <2>3
<1>7. DOMAIN new = DOMAIN ix \cup keys
  BY <1>1
<1>8. Exact(new, f)
  <2> HIDE DEF new, f
  <2> QED BY <1>4, <1>6, <1>7 DEF Exact
<1> QED BY <1>8

(* set() and delete() keep both indexes exact.                              *)
LEMMA SetExact ==
    ASSUME MetaType, IndexesExact, NEW id \in Ids, NEW m \in Record, Set(id, m)
    PROVE  IndexesExact'
<1> DEFINE T == [TagsOf EXCEPT ![id] = {}]
           C == [ChroniclesOf EXCEPT ![id] = {}]
           tix == IF meta[id] = None THEN tagIndex ELSE Unindex(tagIndex, id, meta[id].tags)
           cix == IF meta[id] = None THEN chronicleIndex
                                     ELSE Unindex(chronicleIndex, id, ChronicleOf(meta[id]))
<1>1. TagsOf = [i \in Ids |-> TagsOf[i]] /\ ChroniclesOf = [i \in Ids |-> ChroniclesOf[i]]
  BY DEF TagsOf, ChroniclesOf
<1>2. Exact(tix, T)
  <2>1. CASE meta[id] = None
    <3>1. T = TagsOf
      BY <2>1 DEF TagsOf
    <3> QED BY <2>1, <3>1 DEF IndexesExact
  <2>2. CASE meta[id] # None
    <3>1. TagsOf[id] = meta[id].tags
      BY <2>2 DEF TagsOf
    <3> QED BY <1>1, <2>2, <3>1, UnindexExact DEF IndexesExact
  <2> QED BY <2>1, <2>2
<1>3. Exact(cix, C)
  <2>1. CASE meta[id] = None
    <3>1. C = ChroniclesOf
      BY <2>1 DEF ChroniclesOf
    <3> QED BY <2>1, <3>1 DEF IndexesExact
  <2>2. CASE meta[id] # None
    <3>1. ChroniclesOf[id] = ChronicleOf(meta[id])
      BY <2>2 DEF ChroniclesOf
    <3> QED BY <1>1, <2>2, <3>1, UnindexExact DEF IndexesExact
  <2> QED BY <2>1, <2>2
<1>4. T = [i \in Ids |-> T[i]] /\ T[id] = {} /\ C = [i \in Ids |-> C[i]] /\ C[id] = {}
  BY DEF TagsOf, ChroniclesOf
<1>5. meta' = [meta EXCEPT ![id] = m] /\ m # None
  BY RecordAssumption DEF Set
<1>6. TagsOf' = [T EXCEPT ![id] = m.tags]
  BY <1>5 DEF TagsOf, MetaType
<1>7. ChroniclesOf' = [C EXCEPT ![id] = ChronicleOf(m)]
  BY <1>5 DEF ChroniclesOf, MetaType
<1>8. /\ tagIndex' = IndexUnder(tix, id, m.tags)
      /\ chronicleIndex' = IndexUnder(cix, id, ChronicleOf(m))
  BY DEF Set
<1> HIDE DEF T, C, tix, cix
<1>9. Exact(tagIndex', TagsOf')
  BY <1>2, <1>4, <1>6, <1>8, IndexExact
<1>10. Exact(chronicleIndex', ChroniclesOf')
  BY <1>3, <1>4, <1>7, <1>8, IndexExact
<1> QED BY <1>9, <1>10 DEF IndexesExact, Exact

LEMMA DeleteExact ==
    ASSUME MetaType, IndexesExact, NEW id \in Ids, Delete(id)
    PROVE  IndexesExact'
<1>1. CASE meta[id] = None
  <2>1. meta' = meta /\ tagIndex' = tagIndex /\ chronicleIndex' = chronicleIndex
    BY <1>1 DEF Delete, store
  <2>2. TagsOf' = TagsOf /\ ChroniclesOf' = ChroniclesOf
    BY <2>1 DEF TagsOf, ChroniclesOf
  <2> QED BY <2>1, <2>2 DEF IndexesExact, Exact
<1>2. CASE meta[id] # None
  <2>1. TagsOf = [i \in Ids |-> TagsOf[i]] /\ ChroniclesOf = [i \in Ids |-> ChroniclesOf[i]]
    BY DEF TagsOf, ChroniclesOf
  <2>2. TagsOf[id] = meta[id].tags /\ ChroniclesOf[id] = ChronicleOf(meta[id])
    BY <1>2 DEF TagsOf, ChroniclesOf
  <2>3. meta' = [meta EXCEPT ![id] = None]
    BY <1>2 DEF Delete
  <2>4. TagsOf' = [TagsOf EXCEPT ![id] = {}] /\ ChroniclesOf' = [ChroniclesOf EXCEPT ![id] = {}]
    BY <2>3 DEF TagsOf, ChroniclesOf, MetaType
  <2>5. /\ tagIndex' = Unindex(tagIndex, id, TagsOf[id])
        /\ chronicleIndex' = Unindex(chronicleIndex, id, ChroniclesOf[id])
    BY <1>2, <2>2 DEF Delete
  <2>6. Exact(tagIndex', TagsOf')
    BY <2>1, <2>4, <2>5, UnindexExact DEF IndexesExact
  <2>7. Exact(chronicleIndex', ChroniclesOf')
    BY <2>1, <2>4, <2>5, UnindexExact DEF IndexesExact
  <2> QED BY <2>6, <2>7 DEF IndexesExact, Exact
<1> QED BY <1>1, <1>2

(***************************************************************************)
(* The list.  A sequence s of n ids is threaded on it: the head is the      *)
(* first, every next and prev leads to the neighbour in s, and ids that are *)
(* not in s have no links.  This is stronger than "the links mirror each    *)
(* other", which a list with a detached cycle satisfies as well and which   *)
(* Unlink does not preserve.                                                *)
(***************************************************************************)

List == [head : Ids \cup {None}, next : [Ids -> Ids \cup {None}], prev : [Ids -> Ids \cup {None}]]

(* The n ids of s are threaded on l, in this order.                         *)
Threads(l, n, s) ==
    /\ \A i, j \in 1..n : s[i] = s[j] => i = j
    /\ l.head = IF n = 0 THEN None ELSE s[1]
    /\ \A i \in 1..n : l.next[s[i]] = IF i = n THEN None ELSE s[i + 1]
    /\ \A i \in 1..n : l.prev[s[i]] = IF i = 1 THEN None ELSE s[i - 1]
    /\ \A id \in Ids : (\A i \in 1..n : s[i] # id) => l.next[id] = None /\ l.prev[id] = None

Cut(s, n, k)  == [i \in 1..(n - 1) |-> s[IF i < k THEN i ELSE i + 1]]
First(id, s, n) == [i \in 1..(n + 1) |-> IF i = 1 THEN id ELSE s[i - 1]]

(* Taking an id out leaves the others in their order.                       *)
LEMMA UnlinkThreads ==
    ASSUME NEW l \in List, NEW n \in Nat, NEW s \in [1..n -> Ids], NEW k \in 1..n,
           Threads(l, n, s)
    PROVE  /\ Unlink(l, s[k]) \in List
           /\ n - 1 \in Nat /\ Cut(s, n, k) \in [1..(n - 1) -> Ids]
           /\ Threads(Unlink(l, s[k]), n - 1, Cut(s, n, k))
<1> DEFINE id == s[k]
           p == l.prev[id]
           m == l.next[id]
           u == Unlink(l, id)
           c == Cut(s, n, k)
<1>1. /\ \A i, j \in 1..n : s[i] = s[j] => i = j
      /\ l.head = IF n = 0 THEN None ELSE s[1]
      /\ \A i \in 1..n : l.next[s[i]] = IF i = n THEN None ELSE s[i + 1]
      /\ \A i \in 1..n : l.prev[s[i]] = IF i = 1 THEN None ELSE s[i - 1]
      /\ \A j \in Ids : (\A i \in 1..n : s[i] # j) => l.next[j] = None /\ l.prev[j] = None
  BY DEF Threads
<1>2. /\ id \in Ids /\ None \notin Ids
      /\ l.head \in Ids \cup {None} /\ l.next \in [Ids -> Ids \cup {None}]
      /\ l.prev \in [Ids -> Ids \cup {None}]
  BY StoreAssumption DEF List
<1>3. /\ u.head = IF p = None THEN m ELSE l.head
      /\ u.next = [j \in Ids |-> IF j = id THEN None ELSE IF j = p THEN m ELSE l.next[j]]
      /\ u.prev = [j \in Ids |-> IF j = id THEN None ELSE IF j = m THEN p ELSE l.prev[j]]
      /\ u = [head |-> u.head, next |-> u.next, prev |-> u.prev]
  BY DEF Unlink
<1>4. p = (IF k = 1 THEN None ELSE s[k - 1]) /\ m = (IF k = n THEN None ELSE s[k + 1])
  BY <1>1
<1>5. u \in List
  BY <1>2, <1>3 DEF List
<1>6. n - 1 \in Nat /\ c \in [1..(n - 1) -> Ids]
  BY DEF Cut
<1>7. \A i \in 1..(n - 1) : /\ i < k => c[i] = s[i]
                            /\ ~(i < k) => c[i] = s[i + 1]
                            /\ c[i] \in Ids /\ c[i] # id
  BY <1>1 DEF Cut
<1>8. \A i \in 1..n : s[i] \in Ids /\ s[i] # None
  BY <1>2
<1> HIDE DEF id, p, m, u, c
<1>9. \A i, j \in 1..(n - 1) : c[i] = c[j] => i = j
  <2> SUFFICES ASSUME NEW i \in 1..(n - 1), NEW j \in 1..(n - 1), c[i] = c[j] PROVE i = j
    OBVIOUS
  <2>1. i \in 1..n /\ i + 1 \in 1..n /\ j \in 1..n /\ j + 1 \in 1..n
    OBVIOUS
  <2>2. CASE i < k /\ j < k
    BY <1>1, <1>7, <2>1, <2>2
  <2>3. CASE i < k /\ ~(j < k)
    BY <1>1, <1>7, <2>1, <2>3
  <2>4. CASE ~(i < k) /\ j < k
    BY <1>1, <1>7, <2>1, <2>4
  <2>5. CASE ~(i < k) /\ ~(j < k)
    BY <1>1, <1>7, <2>1, <2>5
  <2> QED BY <2>2, <2>3, <2>4, <2>5
<1>10. u.head = IF n - 1 = 0 THEN None ELSE c[1]
  <2>1. CASE k = 1
    <3>1. u.head = m /\ (n - 1 # 0 => 1 \in 1..(n - 1) /\ c[1] = s[2])
      BY <1>3, <1>4, <1>7, <2>1
    <3> QED BY <1>4, <2>1, <3>1
  <2>2. CASE k # 1
    <3>1. k - 1 \in 1..n /\ 1 \in 1..(n - 1) /\ 1 < k
      BY <2>2
    <3>2. p # None /\ c[1] = s[1] /\ l.head = s[1]
      BY <1>1, <1>4, <1>7, <1>8, <2>2, <3>1
    <3> QED BY <1>3, <3>1, <3>2
  <2> QED BY <2>1, <2>2
<1>11. ASSUME NEW i \in 1..(n - 1) PROVE u.next[c[i]] = IF i = n - 1 THEN None ELSE c[i + 1]
  <2>1. CASE i < k - 1
    <3>1. c[i] = s[i] /\ c[i + 1] = s[i + 1] /\ i < n - 1 /\ i \in 1..n
      BY <1>7, <2>1
    <3>2. c[i] # p
      BY <1>1, <1>4, <1>8, <2>1, <3>1
    <3> QED BY <1>1, <1>3, <1>7, <3>1, <3>2
  <2>2. CASE i = k - 1
    <3>1. c[i] = s[i] /\ p = s[i] /\ (i < n - 1 => c[i + 1] = s[i + 2])
      BY <1>4, <1>7, <2>2
    <3>2. u.next[c[i]] = m
      BY <1>3, <1>7, <3>1
    <3> QED BY <1>4, <2>2, <3>1, <3>2
  <2>3. CASE i >= k
    <3>1. c[i] = s[i + 1] /\ i + 1 \in 1..n /\ (i < n - 1 => c[i + 1] = s[i + 2])
      BY <1>7, <2>3
    <3>2. c[i] # p
      BY <1>1, <1>4, <1>8, <2>3, <3>1
    <3> QED BY <1>1, <1>3, <1>7, <3>1, <3>2
  <2> QED BY <2>1, <2>2, <2>3
<1>12. ASSUME NEW i \in 1..(n - 1) PROVE u.prev[c[i]] = IF i = 1 THEN None ELSE c[i - 1]
  <2>1. CASE i < k
    <3>1. c[i] = s[i] /\ (i # 1 => c[i - 1] = s[i - 1]) /\ i \in 1..n
      BY <1>7, <2>1
    <3>2. c[i] # m
      BY <1>1, <1>4, <1>8, <2>1, <3>1
    <3> QED BY <1>1, <1>3, <1>7, <3>1, <3>2
  <2>2. CASE i = k
    <3>1. c[i] = s[i + 1] /\ m = s[i + 1] /\ (i # 1 => c[i - 1] = s[i - 1])
      BY <1>4, <1>7, <2>2
    <3>2. u.prev[c[i]] = p
      BY <1>3, <1>7, <3>1
    <3> QED BY <1>4, <2>2, <3>1, <3>2
  <2>3. CASE i > k
    <3>1. c[i] = s[i + 1] /\ i + 1 \in 1..n /\ c[i - 1] = s[i] /\ i # 1
      BY <1>7, <2>3
    <3>2. c[i] # m
      BY <1>1, <1>4, <1>8, <2>3, <3>1
    <3> QED BY <1>1, <1>3, <1>7, <3>1, <3>2
  <2> QED BY <2>1, <2>2, <2>3
<1>13. ASSUME NEW j \in Ids, \A i \in 1..(n - 1) : c[i] # j
       PROVE  u.next[j] = None /\ u.prev[j] = None
  <2>1. CASE j = id
    BY <1>3, <2>1
  <2>2. CASE j # id
    <3>1. \A i \in 1..n : s[i] # j
      <4> SUFFICES ASSUME NEW i \in 1..n, s[i] = j PROVE FALSE
        OBVIOUS
      <4>1. i # k
        BY <2>2 DEF id
      <4>2. CASE i < k
        BY <1>7, <1>13, <4>2
      <4>3. CASE i > k
        <5>1. i - 1 \in 1..(n - 1) /\ ~(i - 1 < k) /\ (i - 1) + 1 = i
          BY <4>3
        <5> QED BY <1>7, <1>13, <5>1
      <4> QED BY <4>1, <4>2, <4>3
    <3>2. j # p /\ j # m
      BY <1>2, <1>4, <3>1
    <3> QED BY <1>1, <1>3, <2>2, <3>1, <3>2
  <2> QED BY <2>1, <2>2
<1>14. Threads(u, n - 1, c)
  BY <1>9, <1>10, <1>11, <1>12, <1>13 DEF Threads
<1> QED BY <1>5, <1>6, <1>14 DEF u, c, id

(* Linking an id at the head puts it before all others.                     *)
LEMMA LinkThreads ==
    ASSUME NEW l \in List, NEW n \in Nat, NEW s \in [1..n -> Ids], Threads(l, n, s),
           NEW id \in Ids, \A i \in 1..n : s[i] # id
    PROVE  /\ LinkAtHead(l, id) \in List /\ First(id, s, n) \in [1..(n + 1) -> Ids]
           /\ Threads(LinkAtHead(l, id), n + 1, First(id, s, n))
<1> DEFINE k == LinkAtHead(l, id)
           f == First(id, s, n)
<1>1. /\ \A i, j \in 1..n : s[i] = s[j] => i = j
      /\ l.head = IF n = 0 THEN None ELSE s[1]
      /\ \A i \in 1..n : l.next[s[i]] = IF i = n THEN None ELSE s[i + 1]
      /\ \A i \in 1..n : l.prev[s[i]] = IF i = 1 THEN None ELSE s[i - 1]
      /\ \A j \in Ids : (\A i \in 1..n : s[i] # j) => l.next[j] = None /\ l.prev[j] = None
  BY DEF Threads
<1>2. /\ None \notin Ids /\ l.head \in Ids \cup {None}
      /\ l.next \in [Ids -> Ids \cup {None}] /\ l.prev \in [Ids -> Ids \cup {None}]
  BY StoreAssumption DEF List
<1>3. /\ k.head = id /\ k.next = [l.next EXCEPT ![id] = l.head]
      /\ k.prev = [j \in Ids |-> IF j = id THEN None ELSE IF j = l.head THEN id ELSE l.prev[j]]
      /\ k = [head |-> k.head, next |-> k.next, prev |-> k.prev]
  BY DEF LinkAtHead
<1>4. k \in List
  BY <1>2, <1>3 DEF List
<1>5. f \in [1..(n + 1) -> Ids]
  BY DEF First
<1>6. f[1] = id /\ \A i \in 2..(n + 1) : i - 1 \in 1..n /\ f[i] = s[i - 1] /\ f[i] \in Ids /\ f[i] # id
  BY DEF First
<1> HIDE DEF k, f
<1>7. \A i, j \in 1..(n + 1) : f[i] = f[j] => i = j
  <2> SUFFICES ASSUME NEW i \in 1..(n + 1), NEW j \in 1..(n + 1), f[i] = f[j] PROVE i = j
    OBVIOUS
  <2>1. (i = 1 \/ i \in 2..(n + 1)) /\ (j = 1 \/ j \in 2..(n + 1))
    OBVIOUS
  <2> QED BY <1>1, <1>6, <2>1
<1>8. ASSUME NEW i \in 1..(n + 1) PROVE k.next[f[i]] = IF i = n + 1 THEN None ELSE f[i + 1]
  <2>1. CASE i = 1
    <3>1. n # 0 => f[2] = s[1]
      BY <1>6
    <3> QED BY <1>1, <1>2, <1>3, <1>6, <2>1, <3>1
  <2>2. CASE i # 1
    <3>1. i \in 2..(n + 1) /\ (i # n + 1 => i + 1 \in 2..(n + 1) /\ f[i + 1] = s[i])
      BY <1>6, <2>2
    <3>2. k.next[f[i]] = l.next[s[i - 1]]
      BY <1>2, <1>3, <1>6, <3>1
    <3>3. l.next[s[i - 1]] = IF i - 1 = n THEN None ELSE s[i]
      BY <1>1, <1>6, <3>1
    <3> QED BY <3>1, <3>2, <3>3
  <2> QED BY <2>1, <2>2
<1>9. ASSUME NEW i \in 1..(n + 1) PROVE k.prev[f[i]] = IF i = 1 THEN None ELSE f[i - 1]
  <2>1. CASE i = 1
    BY <1>3, <1>6, <2>1
  <2>2. CASE i = 2
    <3>1. f[2] = s[1] /\ l.head = s[1] /\ f[2] # id /\ f[2] \in Ids
      BY <1>1, <1>6, <2>2
    <3> QED BY <1>3, <1>6, <2>2, <3>1
  <2>3. CASE i > 2
    <3>1. i \in 2..(n + 1) /\ i - 1 \in 2..(n + 1) /\ f[i - 1] = s[i - 2] /\ i - 1 \in 1..n
      BY <1>6, <2>3
    <3>2. f[i] = s[i - 1] /\ f[i] # id /\ f[i] \in Ids /\ f[i] # l.head
      BY <1>1, <1>6, <2>3, <3>1
    <3>3. l.prev[s[i - 1]] = s[i - 2]
      BY <1>1, <2>3, <3>1
    <3> QED BY <1>3, <2>3, <3>1, <3>2, <3>3
  <2> QED BY <2>1, <2>2, <2>3
<1>10. ASSUME NEW j \in Ids, \A i \in 1..(n + 1) : f[i] # j
       PROVE  k.next[j] = None /\ k.prev[j] = None
  <2>1. j # id
    BY <1>6, <1>10
  <2>2. \A i \in 1..n : s[i] # j
    <3> SUFFICES ASSUME NEW i \in 1..n PROVE s[i] # j
      OBVIOUS
    <3>1. i + 1 \in 2..(n + 1) /\ f[i + 1] = s[i]
      BY <1>6
    <3> QED BY <1>10, <3>1
  <2>3. j # l.head
    BY <1>1, <1>2, <2>2
  <2> QED BY <1>1, <1>2, <1>3, <2>1, <2>2, <2>3
<1>11. Threads(k, n + 1, f)
  <2>1. k.head = f[1] /\ n + 1 # 0
    BY <1>3, <1>6
  <2> QED BY <1>7, <1>8, <1>9, <1>10, <2>1 DEF Threads
<1> QED BY <1>4, <1>5, <1>11 DEF k, f

(* Records in the order s are in descending order of updated_at.            *)
Newer(n, s) == \A i, j \in 1..n : i < j => meta[s[i]].at >= meta[s[j]].at

(* s is the order of the list, and the list joins what is stored.           *)
Order(n, s) == Threads(TheList, n, s) /\ Stored = {s[i] : i \in 1..n}

(* The re-sort threads the records in a descending order.                   *)
LEMMA ReorderThreads ==
    ASSUME MetaType, Reorder
    PROVE  /\ TheList' \in List /\ meta' = meta
           /\ \E n \in Nat : \E s \in [1..n -> Ids] :
                 /\ Order(n, s)' /\ Newer(n, s)'
                 /\ n = Cardinality(Stored) /\ s \in [1..n -> Stored]
                 /\ \A i, j \in 1..n : i < j => s[i] # s[j] /\ meta[s[i]].at >= meta[s[j]].at
<1>1. Cardinality(Stored) \in Nat
  BY StoreAssumption, FS_Subset, FS_CardinalityType DEF Stored
<1>2. PICK s \in [1..Cardinality(Stored) -> Stored] :
        /\ Sorted(s)
        /\ head' = IF Stored = {} THEN None ELSE s[1]
        /\ next' = [id \in Ids |-> IF id \in Stored /\ Place(s, id) + 1 \in DOMAIN s
                                     THEN s[Place(s, id) + 1] ELSE None]
        /\ prev' = [id \in Ids |-> IF id \in Stored /\ Place(s, id) - 1 \in DOMAIN s
                                     THEN s[Place(s, id) - 1] ELSE None]
  BY DEF Reorder
<1> PICK n \in Nat : n = Cardinality(Stored)
  BY <1>1
<1>3. Stored \in SUBSET Ids /\ None \notin Ids
  BY StoreAssumption DEF Stored
<1>4. \A id \in Stored : Place(s, id) \in 1..n /\ s[Place(s, id)] = id
  BY <1>2 DEF Sorted, Place
<1>5. \A i, j \in 1..n : i < j => s[i] # s[j] /\ meta[s[i]].at >= meta[s[j]].at
  BY <1>2 DEF Sorted
<1>6. \A k \in 1..n : s[k] \in Stored /\ Place(s, s[k]) = k
  <2> SUFFICES ASSUME NEW k \in 1..n PROVE s[k] \in Stored /\ Place(s, s[k]) = k
    OBVIOUS
  <2>1. Place(s, s[k]) \in 1..n /\ s[Place(s, s[k])] = s[k] /\ s[k] \in Stored
    BY <1>2, <1>4
  <2> QED BY <1>5, <2>1
<1>7. TheList' \in List
  <2>1. Stored # {} => 1 \in 1..n
    BY <1>1, <1>4
  <2>2. head' \in Ids \cup {None}
    BY <1>2, <1>3, <1>6, <2>1
  <2>3. next' \in [Ids -> Ids \cup {None}]
    BY <1>2, <1>3, <1>6
  <2>4. prev' \in [Ids -> Ids \cup {None}]
    BY <1>2, <1>3, <1>6
  <2> QED BY <2>2, <2>3, <2>4 DEF TheList, List
<1>8. Stored = {s[i] : i \in 1..n}
  BY <1>4, <1>6
<1>9. s \in [1..n -> Ids] /\ s \in [1..n -> Stored] /\ DOMAIN s = 1..n
  BY <1>3
<1>10. meta' = meta /\ Stored' = Stored
  BY DEF Reorder, Stored
<1>11. head' = IF n = 0 THEN None ELSE s[1]
  <2>1. n # 0 => 1 \in 1..n
    OBVIOUS
  <2>2. n = 0 => Stored = {}
    <3>1. n = 0 => 1..n = {}
      OBVIOUS
    <3> QED BY <1>8, <3>1
  <2>3. n # 0 => Stored # {}
    BY <1>6, <2>1
  <2> QED BY <1>2, <2>2, <2>3
<1>12. ASSUME NEW i \in 1..n
       PROVE  /\ next'[s[i]] = IF i = n THEN None ELSE s[i + 1]
              /\ prev'[s[i]] = IF i = 1 THEN None ELSE s[i - 1]
  <2>1. s[i] \in Ids /\ s[i] \in Stored /\ Place(s, s[i]) = i
    BY <1>3, <1>6
  <2>2. (i + 1 \in 1..n <=> i # n) /\ (i - 1 \in 1..n <=> i # 1)
    OBVIOUS
  <2> QED BY <1>2, <1>9, <2>1, <2>2
<1>13. ASSUME NEW id \in Ids, \A i \in 1..n : s[i] # id
       PROVE  next'[id] = None /\ prev'[id] = None
  BY <1>2, <1>8, <1>13
<1>14. \A i, j \in 1..n : s[i] = s[j] => i = j
  BY <1>5
<1>15. Order(n, s)'
  BY <1>8, <1>10, <1>11, <1>12, <1>13, <1>14 DEF Order, Threads, TheList
<1>16. Newer(n, s)'
  BY <1>5, <1>10 DEF Newer
<1> QED BY <1>5, <1>7, <1>9, <1>10, <1>15, <1>16

(***************************************************************************)
(* The walk from the head meets the records in this order, and then None.   *)
(* Induction over the steps of the walk is by its least counterexample.     *)
(***************************************************************************)

LEMMA LeastNatural ==
    ASSUME NEW T \in SUBSET Nat, T # {}
    PROVE  \E n \in T : \A m \in T : n <= m
<1> DEFINE R == OpToRel(<, Nat)
<1>1. IsWellFoundedOn(R, Nat)
  BY NatLessThanWellFounded
<1>2. \A x, y \in Nat : x < y => <<x, y>> \in R
  BY DEF OpToRel
<1> HIDE DEF R
<1>3. \E x \in T : \A y \in T : ~ (<<y, x>> \in R)
  BY <1>1, WFMin
<1>4. PICK n \in T : \A m \in T : ~ (<<m, n>> \in R)
  BY <1>3
<1>5. \A m \in T : ~(m < n)
  BY <1>2, <1>4
<1>6. n \in Nat /\ \A m \in T : m \in Nat
  OBVIOUS
<1> QED BY <1>5, <1>6

(* A sequence without repetition is as long as its range is large.          *)
LEMMA RangeCardinality ==
    ASSUME NEW n \in Nat, NEW s \in [1..n -> Ids], \A i, j \in 1..n : s[i] = s[j] => i = j
    PROVE  LET S == {s[i] : i \in 1..n}
           IN  n = Cardinality(S) /\ Cardinality(S) <= Cardinality(Ids) /\ Cardinality(Ids) \in Nat
<1> DEFINE S == {s[i] : i \in 1..n}
<1>1. s \in Bijection(1..n, S)
  BY DEF Bijection, Injection, Surjection, IsInjective
<1>2. IsFiniteSet(1..n) /\ Cardinality(1..n) = n
  BY FS_Interval
<1>3. Cardinality(S) = n
  BY <1>1, <1>2, FS_Bijection DEF ExistsBijection
<1>4. S \in SUBSET Ids
  OBVIOUS
<1>5. Cardinality(S) <= Cardinality(Ids) /\ Cardinality(Ids) \in Nat
  BY <1>4, StoreAssumption, FS_Subset, FS_CardinalityType
<1> QED BY <1>3, <1>5

(* One step of the walk.                                                    *)
StepOf(f, n) == IF n = 1 THEN head ELSE IF f[n - 1] = None THEN None ELSE next[f[n - 1]]

LEMMA ValuesExist ==
    ASSUME NEW f, f = [n \in 1..Cardinality(Ids) |-> StepOf(f, n)]
    PROVE  Values = [n \in 1..Cardinality(Ids) |-> StepOf(Values, n)]
BY Zenon DEF Values, StepOf

(* values() lists what is stored, each record once and nothing else.        *)
LEMMA ValuesOrder ==
    ASSUME NEW n \in Nat, NEW s \in [1..n -> Ids], Order(n, s)
    PROVE  /\ n = Cardinality(Stored) /\ n <= Cardinality(Ids) /\ Cardinality(Ids) \in Nat
           /\ Values = [m \in 1..Cardinality(Ids) |-> IF m <= n THEN s[m] ELSE None]
<1> DEFINE N == Cardinality(Ids)
           w == [m \in 1..N |-> IF m <= n THEN s[m] ELSE None]
<1>1. /\ \A i, j \in 1..n : s[i] = s[j] => i = j
      /\ head = IF n = 0 THEN None ELSE s[1]
      /\ \A i \in 1..n : next[s[i]] = IF i = n THEN None ELSE s[i + 1]
      /\ Stored = {s[i] : i \in 1..n}
  BY DEF Order, Threads, TheList
<1>2. n = Cardinality(Stored) /\ n <= N /\ N \in Nat
  BY <1>1, RangeCardinality
<1>3. None \notin Ids
  BY StoreAssumption
<1> HIDE DEF N
<1>4. \A m \in 1..N : w[m] = IF m <= n THEN s[m] ELSE None
  OBVIOUS
<1>5. w = [m \in 1..N |-> w[m]] /\ DOMAIN w = 1..N
  OBVIOUS
<1> HIDE DEF w
<1>6. ASSUME NEW m \in 1..N PROVE w[m] = StepOf(w, m)
  <2>1. CASE m = 1
    <3>1. w[1] = IF n = 0 THEN None ELSE s[1]
      BY <1>4, <2>1
    <3> QED BY <1>1, <2>1, <3>1 DEF StepOf
  <2>2. CASE m > 1 /\ m - 1 <= n
    <3>1. m - 1 \in 1..n /\ m - 1 \in 1..N /\ w[m - 1] = s[m - 1] /\ w[m - 1] # None
      BY <1>2, <1>3, <1>4, <2>2
    <3>2. next[s[m - 1]] = IF m - 1 = n THEN None ELSE s[m]
      BY <1>1, <3>1
    <3> QED BY <1>2, <1>4, <2>2, <3>1, <3>2 DEF StepOf
  <2>3. CASE m > 1 /\ m - 1 > n
    <3>1. m - 1 \in 1..N /\ w[m - 1] = None /\ ~(m <= n)
      BY <1>2, <1>4, <2>3
    <3> QED BY <1>4, <2>3, <3>1 DEF StepOf
  <2> QED BY <1>2, <2>1, <2>2, <2>3
<1>7. w = [m \in 1..N |-> StepOf(w, m)]
  BY <1>5, <1>6
<1>8. Values = [m \in 1..N |-> StepOf(Values, m)]
  BY <1>7, ValuesExist DEF N
<1>9. ASSUME \E m \in 1..N : Values[m] # w[m] PROVE FALSE
  <2> DEFINE T == {m \in Nat : m \in 1..N /\ Values[m] # w[m]}
  <2>1. T \in SUBSET Nat /\ T # {}
    BY <1>2, <1>9
  <2>2. PICK m \in T : \A q \in T : m <= q
    <3> HIDE DEF T
    <3> QED BY <2>1, LeastNatural
  <2>3. m \in 1..N /\ Values[m] # w[m] /\ m \in Nat
    OBVIOUS
  <2>4. Values[m] = StepOf(Values, m) /\ w[m] = StepOf(w, m)
    BY <1>6, <1>8, <2>3
  <2>5. m # 1
    BY <2>3, <2>4 DEF StepOf
  <2>6. m - 1 \in 1..N /\ m - 1 \in Nat /\ ~(m <= m - 1)
    BY <1>2, <2>3, <2>5
  <2>7. Values[m - 1] = w[m - 1]
    BY <2>2, <2>6
  <2> QED BY <2>3, <2>4, <2>5, <2>7 DEF StepOf
<1>10. DOMAIN Values = 1..N /\ Values = [m \in 1..N |-> Values[m]]
  BY <1>8
<1>11. Values = w
  BY <1>5, <1>9, <1>10
<1> QED BY <1>2, <1>11 DEF w, N

(***************************************************************************)
(* The inductive invariant.                                                 *)
(***************************************************************************)

Settled == Skew = 0 /\ (batch = "none" \/ ~changed)

LinkInv ==
    /\ TheList \in List
    /\ \E n \in Nat : \E s \in [1..n -> Ids] : Order(n, s) /\ (Settled => Newer(n, s))

ClockInv == Skew = 0 => \A id \in Stored : meta[id].at <= now

IInv == MetaType /\ todo \subseteq Ids /\ IndexesExact /\ LinkInv /\ ClockInv

(* The feed of RecencyFeed that the store keeps.                            *)
KnownAt  == [id \in Ids |-> IF meta[id] = None THEN None ELSE meta[id].at]
FeedList == [n \in 1..Cardinality(Stored) |-> Values[n]]

(* It is the order of the list.                                             *)
LEMMA FeedIs == \A n \in Nat : \A s \in [1..n -> Ids] : Order(n, s) => FeedList = s
<1> SUFFICES ASSUME NEW n \in Nat, NEW s \in [1..n -> Ids], Order(n, s) PROVE FeedList = s
  OBVIOUS
<1>1. /\ n = Cardinality(Stored) /\ n <= Cardinality(Ids) /\ Cardinality(Ids) \in Nat
      /\ Values = [m \in 1..Cardinality(Ids) |-> IF m <= n THEN s[m] ELSE None]
  BY ValuesOrder
<1>2. \A m \in 1..n : Values[m] = s[m]
  BY <1>1
<1> QED BY <1>1, <1>2 DEF FeedList

(* Without, on the sequences that have no repetition.                       *)
LEMMA WithoutIs ==
    ASSUME NEW n \in Nat, NEW s \in [1..n -> Ids], NEW id \in Ids,
           \A i, j \in 1..n : s[i] = s[j] => i = j
    PROVE  /\ (\A i \in 1..n : s[i] # id) => Feed!Without(s, id) = s
           /\ \A k \in 1..n : s[k] = id => Feed!Without(s, id) = Cut(s, n, k)
<1>1. DOMAIN s = 1..n /\ Len(s) = n
  OBVIOUS
<1>2. (\A i \in 1..n : s[i] # id) => Feed!Without(s, id) = s
  BY <1>1 DEF Feed!Without
<1>3. ASSUME NEW k \in 1..n, s[k] = id PROVE Feed!Without(s, id) = Cut(s, n, k)
  <2>1. k = CHOOSE q \in DOMAIN s : s[q] = id
    BY <1>1, <1>3
  <2> QED BY <1>1, <1>3, <2>1, Zenon DEF Feed!Without, Cut
<1> QED BY <1>2, <1>3

LEMMA FirstIs ==
    ASSUME NEW n \in Nat, NEW s \in [1..n -> Ids], NEW id \in Ids
    PROVE  First(id, s, n) = <<id>> \o s
<1>1. s \in Seq(Ids) /\ Len(s) = n /\ <<id>> \in Seq(Ids) /\ Len(<<id>>) = 1
  OBVIOUS
<1>2. /\ <<id>> \o s \in Seq(Ids) /\ Len(<<id>> \o s) = 1 + n
      /\ \A i \in 1..(1 + n) : (<<id>> \o s)[i] = IF i <= 1 THEN <<id>>[i] ELSE s[i - 1]
  BY <1>1, ConcatProperties
<1>3. /\ First(id, s, n) \in [1..(n + 1) -> Ids]
      /\ \A i \in 1..(n + 1) : First(id, s, n)[i] = IF i = 1 THEN id ELSE s[i - 1]
  BY DEF First
<1>4. First(id, s, n) \in Seq(Ids) /\ Len(First(id, s, n)) = n + 1
  BY <1>3
<1>5. \A i \in 1..(n + 1) : First(id, s, n)[i] = (<<id>> \o s)[i]
  BY <1>2, <1>3
<1> QED BY <1>2, <1>4, <1>5, SeqEqual

(***************************************************************************)
(* The operations, on the order of the list.                                *)
(***************************************************************************)

(* The records of q are met in the same order in s.                         *)
Within(k, q, n, s) ==
    \A i, j \in 1..k : i < j => \E a, b \in 1..n : a < b /\ q[i] = s[a] /\ q[j] = s[b]

(* q threads on l what is left of s without id.                             *)
Taken(l, n, s, id, k, q) ==
    /\ q = Feed!Without(s, id)
    /\ {q[i] : i \in 1..k} = {s[i] : i \in 1..n} \ {id}
    /\ l \in List /\ Threads(l, k, q)
    /\ Within(k, q, n, s)

(* The order with a record taken out, if it is there.                       *)
LEMMA RemoveOrder ==
    ASSUME NEW l \in List, NEW n \in Nat, NEW s \in [1..n -> Ids], Threads(l, n, s),
           NEW id \in Ids
    PROVE  /\ (\A i \in 1..n : s[i] # id) =>
                \E k \in Nat : \E q \in [1..k -> Ids] : Taken(l, n, s, id, k, q)
           /\ (\E i \in 1..n : s[i] = id) =>
                \E k \in Nat : \E q \in [1..k -> Ids] : Taken(Unlink(l, id), n, s, id, k, q)
<1>1. \A i, j \in 1..n : s[i] = s[j] => i = j
  BY DEF Threads
<1>2. CASE \A i \in 1..n : s[i] # id
  <2>1. s = Feed!Without(s, id)
    BY <1>1, <1>2, WithoutIs
  <2>2. Taken(l, n, s, id, n, s)
    BY <1>2, <2>1 DEF Taken, Within
  <2> QED BY <1>2, <2>2
<1>3. ASSUME NEW k \in 1..n, s[k] = id
      PROVE  \E m \in Nat : \E c \in [1..m -> Ids] : Taken(Unlink(l, id), n, s, id, m, c)
  <2> DEFINE c == Cut(s, n, k)
             m == n - 1
  <2>1. Cut(s, n, k) = Feed!Without(s, id)
    BY <1>1, <1>3, WithoutIs
  <2>2. /\ Unlink(l, id) \in List /\ m \in Nat /\ c \in [1..m -> Ids]
        /\ Threads(Unlink(l, id), m, c)
    BY <1>3, UnlinkThreads
  <2>3. \A i \in 1..m : c[i] = s[IF i < k THEN i ELSE i + 1]
    BY DEF Cut
  <2> HIDE DEF c
  <2>4. {c[i] : i \in 1..m} = {s[i] : i \in 1..n} \ {id}
    <3>1. ASSUME NEW i \in 1..m PROVE \E j \in 1..n : c[i] = s[j] /\ s[j] # id
      <4>1. CASE i < k
        BY <1>1, <1>3, <2>3, <4>1
      <4>2. CASE ~(i < k)
        <5>1. i + 1 \in 1..n /\ c[i] = s[i + 1] /\ i + 1 # k
          BY <2>3, <4>2
        <5> QED BY <1>1, <1>3, <5>1
      <4> QED BY <4>1, <4>2
    <3>2. ASSUME NEW j \in 1..n, s[j] # id PROVE \E i \in 1..m : s[j] = c[i]
      <4>1. CASE j < k
        <5>1. j \in 1..m
          BY <4>1
        <5> QED BY <2>3, <4>1, <5>1
      <4>2. CASE j > k
        <5>1. j - 1 \in 1..m /\ ~(j - 1 < k) /\ (j - 1) + 1 = j
          BY <4>2
        <5> QED BY <2>3, <5>1
      <4> QED BY <1>3, <3>2, <4>1, <4>2
    <3>3. \A i \in 1..m : c[i] \in {s[j] : j \in 1..n} \ {id}
      BY <3>1
    <3>4. ASSUME NEW x \in {s[i] : i \in 1..n} \ {id} PROVE x \in {c[i] : i \in 1..m}
      <4>1. PICK j \in 1..n : x = s[j] /\ s[j] # id
        OBVIOUS
      <4> QED BY <3>2, <4>1
    <3> HIDE DEF m
    <3> QED BY <3>3, <3>4
  <2>5. ASSUME NEW i \in 1..m, NEW j \in 1..m, i < j
        PROVE  \E p, q \in 1..n : p < q /\ c[i] = s[p] /\ c[j] = s[q]
    <3> DEFINE p == IF i < k THEN i ELSE i + 1
               q == IF j < k THEN j ELSE j + 1
    <3>1. p \in 1..n /\ q \in 1..n /\ p < q
      BY <2>5
    <3> QED BY <2>3, <3>1
  <2>6. Cut(s, n, k) = c
    BY DEF c
  <2>7. Taken(Unlink(l, id), n, s, id, m, c)
    <3> HIDE DEF m
    <3> QED BY <2>1, <2>2, <2>4, <2>5, <2>6 DEF Taken, Within
  <2> QED BY <2>2, <2>7
<1> QED BY <1>2, <1>3

(* id is met first, then the others as in s.                                *)
FirstOf(k, q, n, s, id) ==
    /\ k # 0 /\ q[1] = id
    /\ \A i, j \in 1..k : i < j =>
         /\ q[j] # id
         /\ i = 1 \/ \E a, b \in 1..n : a < b /\ q[i] = s[a] /\ q[j] = s[b]

(* set(): the record precedes all others, which keep their order.           *)
LEMMA SetOrder ==
    ASSUME MetaType, NEW id \in Ids, NEW m \in Record, Set(id, m), TheList \in List,
           NEW n \in Nat, NEW s \in [1..n -> Ids], Order(n, s)
    PROVE  /\ TheList' \in List /\ Stored' = Stored \cup {id}
           /\ \E k \in Nat : \E q \in [1..k -> Ids] :
                /\ Order(k, q)' /\ q = <<id>> \o Feed!Without(s, id)
                /\ FirstOf(k, q, n, s, id)
<1> DEFINE l == IF meta[id] = None THEN TheList ELSE Unlink(TheList, id)
<1>1. Threads(TheList, n, s) /\ Stored = {s[i] : i \in 1..n}
  BY DEF Order
<1>2. meta[id] # None <=> \E i \in 1..n : s[i] = id
  BY <1>1 DEF Stored
<1>3. PICK c0 \in Nat : \E c \in [1..c0 -> Ids] : Taken(l, n, s, id, c0, c)
  <2>1. CASE meta[id] = None
    BY <1>1, <1>2, <2>1, RemoveOrder
  <2>2. CASE meta[id] # None
    BY <1>1, <1>2, <2>2, RemoveOrder
  <2> QED BY <2>1, <2>2
<1>4. PICK c \in [1..c0 -> Ids] : Taken(l, n, s, id, c0, c)
  BY <1>3
<1>5. /\ c = Feed!Without(s, id)
       /\ {c[i] : i \in 1..c0} = {s[i] : i \in 1..n} \ {id}
       /\ l \in List /\ Threads(l, c0, c)
       /\ Within(c0, c, n, s)
  BY <1>4 DEF Taken
<1> DEFINE q == First(id, c, c0)
<1>6. \A i \in 1..c0 : c[i] # id
  BY <1>5
<1>7. TheList' = LinkAtHead(l, id)
  BY DEF Set, SetList, TheList, LinkAtHead
<1>8. /\ LinkAtHead(l, id) \in List /\ q \in [1..(c0 + 1) -> Ids]
      /\ Threads(LinkAtHead(l, id), c0 + 1, q)
  <2> HIDE DEF l
  <2> QED BY <1>5, <1>6, LinkThreads
<1>9. q = <<id>> \o Feed!Without(s, id)
  BY <1>5, FirstIs
<1>10. q[1] = id /\ \A i \in 2..(c0 + 1) : i - 1 \in 1..c0 /\ q[i] = c[i - 1] /\ q[i] # id
  BY <1>6 DEF First
<1>11. meta' = [meta EXCEPT ![id] = m] /\ m # None
  BY RecordAssumption DEF Set
<1>12. Stored' = Stored \cup {id}
  BY <1>11 DEF Stored, MetaType
<1>13. PICK k \in Nat : k = c0 + 1
  OBVIOUS
<1>14. PICK z \in [1..k -> Ids] : z = q
  BY <1>8, <1>13
<1> HIDE DEF l, q
<1>15. {z[i] : i \in 1..k} = Stored'
  <2>1. \A i \in 1..k : i = 1 \/ i \in 2..(c0 + 1)
    BY <1>13
  <2>2. \A i \in 1..c0 : c[i] \in Stored
    BY <1>1, <1>5
  <2>3. \A i \in 1..k : z[i] \in Stored'
    BY <1>10, <1>12, <1>14, <2>1, <2>2
  <2>4. ASSUME NEW j \in Stored' PROVE \E i \in 1..k : z[i] = j
    <3>1. CASE j = id
      BY <1>10, <1>13, <1>14, <3>1
    <3>2. CASE j # id
      <4>1. PICK i \in 1..c0 : c[i] = j
        <5>1. j \in {c[i] : i \in 1..c0}
          BY <1>1, <1>5, <1>12, <3>2
        <5> QED BY <5>1
      <4>2. i + 1 \in 2..(c0 + 1) /\ i + 1 \in 1..k /\ (i + 1) - 1 = i
        BY <1>13
      <4> QED BY <1>10, <1>14, <4>1, <4>2
    <3> QED BY <3>1, <3>2
  <2> QED BY <2>3, <2>4
<1>16. Order(k, z)'
  BY <1>7, <1>8, <1>13, <1>14, <1>15 DEF Order, Threads
<1>17. ASSUME NEW i \in 1..k, NEW j \in 1..k, i < j
       PROVE  /\ z[j] # id
              /\ i = 1 \/ \E a, b \in 1..n : a < b /\ z[i] = s[a] /\ z[j] = s[b]
  <2>1. j \in 2..(c0 + 1) /\ (i = 1 \/ i \in 2..(c0 + 1))
    BY <1>13, <1>17
  <2>2. i # 1 => i - 1 \in 1..c0 /\ j - 1 \in 1..c0 /\ i - 1 < j - 1
    BY <1>17, <2>1
  <2> QED BY <1>5, <1>10, <1>14, <2>1, <2>2 DEF Within
<1>18. FirstOf(k, z, n, s, id)
  BY <1>10, <1>13, <1>14, <1>17 DEF FirstOf
<1> QED BY <1>7, <1>8, <1>9, <1>12, <1>14, <1>16, <1>18

(* delete(): the other records keep their order.                            *)
LEMMA DeleteOrder ==
    ASSUME MetaType, NEW id \in Ids, Delete(id), meta[id] # None, TheList \in List,
           NEW n \in Nat, NEW s \in [1..n -> Ids], Order(n, s)
    PROVE  /\ TheList' \in List /\ Stored' = Stored \ {id}
           /\ \E k \in Nat : \E q \in [1..k -> Ids] :
                Order(k, q)' /\ q = Feed!Without(s, id) /\ Within(k, q, n, s)
<1>1. Threads(TheList, n, s) /\ Stored = {s[i] : i \in 1..n}
  BY DEF Order
<1>2. \E i \in 1..n : s[i] = id
  BY <1>1 DEF Stored
<1>3. PICK k \in Nat : \E q \in [1..k -> Ids] : Taken(Unlink(TheList, id), n, s, id, k, q)
  BY <1>1, <1>2, RemoveOrder
<1>4. PICK q \in [1..k -> Ids] : Taken(Unlink(TheList, id), n, s, id, k, q)
  BY <1>3
<1>5. TheList' = Unlink(TheList, id) /\ meta' = [meta EXCEPT ![id] = None]
  BY DEF Delete, SetList, TheList, Unlink
<1>6. Stored' = Stored \ {id}
  BY <1>5 DEF Stored, MetaType
<1>7. Order(k, q)'
  BY <1>1, <1>4, <1>5, <1>6 DEF Order, Threads, Taken
<1> QED BY <1>4, <1>5, <1>6, <1>7 DEF Taken

(***************************************************************************)
(* Every step keeps the invariant.                                          *)
(***************************************************************************)

(* What every step that does not touch the store keeps.                     *)
LEMMA StoreSame ==
    ASSUME IInv, UNCHANGED store, now' \in 0..MaxStamp, now' >= now, todo' \subseteq Ids,
           Settled' => Settled
    PROVE  IInv' /\ UNCHANGED <<KnownAt, FeedList>>
<1>1. /\ meta' = meta /\ TheList' = TheList /\ Stored' = Stored
      /\ UNCHANGED <<KnownAt, FeedList>>
  BY DEF store, list, TheList, Stored, KnownAt, FeedList, Values
<1>2. MetaType' /\ todo' \subseteq Ids
  BY <1>1 DEF IInv, MetaType
<1>3. IndexesExact'
  <2>1. TagsOf' = TagsOf /\ ChroniclesOf' = ChroniclesOf
    BY <1>1 DEF TagsOf, ChroniclesOf
  <2>2. tagIndex' = tagIndex /\ chronicleIndex' = chronicleIndex
    BY DEF store
  <2> QED BY <2>1, <2>2 DEF IInv, IndexesExact, Exact
<1>4. LinkInv'
  <2>1. PICK n \in Nat : \E s \in [1..n -> Ids] : Order(n, s) /\ (Settled => Newer(n, s))
    BY DEF IInv, LinkInv
  <2>2. PICK s \in [1..n -> Ids] : Order(n, s) /\ (Settled => Newer(n, s))
    BY <2>1
  <2>3. Order(n, s)' /\ (Newer(n, s) => Newer(n, s)')
    BY <1>1, <2>2 DEF Order, Newer
  <2>4. TheList' \in List
    BY <1>1 DEF IInv, LinkInv
  <2> QED BY <2>2, <2>3, <2>4 DEF LinkInv
<1>5. ClockInv'
  <2>1. \A id \in Stored : meta[id].at \in Nat
    BY StoreAssumption DEF IInv, MetaType, Stored, Record, Stamps
  <2>2. now \in Nat /\ now' \in Nat
    BY StoreAssumption DEF IInv, MetaType
  <2> QED BY <1>1, <2>1, <2>2 DEF IInv, ClockInv
<1> QED BY <1>1, <1>2, <1>3, <1>4, <1>5 DEF IInv

LEMMA FeedIsNext == \A n \in Nat : \A s \in [1..n -> Ids] : Order(n, s)' => FeedList' = s
<1>1. (\A n \in Nat : \A s \in [1..n -> Ids] : Order(n, s) => FeedList = s)'
  BY FeedIs, PTL
<1> QED BY <1>1

(* set() moves a record to the front of the feed; the list stays in order   *)
(* if the record is stamped now, or else a batch will re-sort it.           *)
LEMMA SetKeeps ==
    ASSUME IInv, NEW id \in Ids, NEW m \in Record, Set(id, m), Skew = 0 => m.at <= now,
           now' = now, todo' \subseteq Ids, Settled' => Settled /\ m.at = now
    PROVE  IInv' /\ Feed!ToFront(id, m.at)
<1>1. PICK n \in Nat : \E s \in [1..n -> Ids] : Order(n, s) /\ (Settled => Newer(n, s))
  BY DEF IInv, LinkInv
<1>2. PICK s \in [1..n -> Ids] : Order(n, s) /\ (Settled => Newer(n, s))
  BY <1>1
<1>3. MetaType /\ TheList \in List /\ now \in Nat
  BY StoreAssumption DEF IInv, LinkInv, MetaType
<1>4. TheList' \in List /\ Stored' = Stored \cup {id}
  BY <1>2, <1>3, SetOrder
<1>5. PICK k \in Nat : \E q \in [1..k -> Ids] :
                /\ Order(k, q)' /\ q = <<id>> \o Feed!Without(s, id)
                /\ FirstOf(k, q, n, s, id)
  BY <1>2, <1>3, SetOrder
<1>6. PICK q \in [1..k -> Ids] :
                /\ Order(k, q)' /\ q = <<id>> \o Feed!Without(s, id)
                /\ FirstOf(k, q, n, s, id)
  BY <1>5
<1>7. meta' = [meta EXCEPT ![id] = m] /\ m # None
  BY RecordAssumption DEF Set
<1>8. /\ meta'[id] = m /\ \A j \in Ids \ {id} : meta'[j] = meta[j]
      /\ \A j \in Stored : meta[j].at \in Nat
      /\ m.at \in Nat
  BY <1>3, <1>7, StoreAssumption DEF MetaType, Stored, Record, Stamps
<1>9. MetaType' /\ ClockInv'
  BY <1>3, <1>7 DEF IInv, MetaType, ClockInv, Stored
<1>10. ASSUME Settled' PROVE Newer(k, q)'
  <2>1. Settled /\ m.at = now /\ Newer(n, s) /\ Skew = 0
    BY <1>2, <1>10 DEF Settled
  <2>2. {q[i] : i \in 1..k} = Stored \cup {id} /\ {s[i] : i \in 1..n} = Stored
    BY <1>2, <1>4, <1>6 DEF Order
  <2>3. ASSUME NEW i \in 1..k, NEW j \in 1..k, i < j PROVE meta'[q[i]].at >= meta'[q[j]].at
    <3>1. q[j] # id /\ q[j] \in Stored /\ meta'[q[j]] = meta[q[j]] /\ meta[q[j]].at <= now
      BY <1>6, <1>8, <2>1, <2>2, <2>3 DEF FirstOf, IInv, ClockInv
    <3>2. CASE i = 1
      BY <1>3, <1>6, <1>8, <2>1, <3>1, <3>2 DEF FirstOf
    <3>3. CASE i # 1
      <4>1. q[i] # id
        <5>1. 1 \in 1..k /\ 1 < i
          BY <3>3
        <5> QED BY <1>6, <5>1 DEF FirstOf
      <4>2. PICK a \in 1..n, b \in 1..n : a < b /\ q[i] = s[a] /\ q[j] = s[b]
        BY <1>6, <2>3, <3>3 DEF FirstOf
      <4>3. meta[q[i]].at >= meta[q[j]].at
        BY <2>1, <4>2 DEF Newer
      <4> QED BY <1>8, <3>1, <4>1, <4>3
    <3> QED BY <3>2, <3>3
  <2> QED BY <2>3 DEF Newer
<1>11. LinkInv'
  BY <1>4, <1>6, <1>10 DEF LinkInv
<1>12. IndexesExact'
  BY <1>3, SetExact DEF IInv
<1>13. KnownAt' = [KnownAt EXCEPT ![id] = m.at]
  BY <1>3, <1>7 DEF KnownAt, MetaType
<1>14. FeedList' = <<id>> \o Feed!Without(FeedList, id)
  BY <1>2, <1>6, FeedIs, FeedIsNext
<1>15. Feed!ToFront(id, m.at)
  BY <1>13, <1>14 DEF Feed!ToFront, KnownAt, FeedList
<1> QED BY <1>9, <1>11, <1>12, <1>15 DEF IInv

(* delete() drops a record from the feed.                                   *)
LEMMA DeleteKeeps ==
    ASSUME IInv, NEW id \in Ids, Delete(id), todo' \subseteq Ids, now' = now,
           batch' = batch, changed' = changed
    PROVE  IInv' /\ (Feed!Drop(id) \/ UNCHANGED <<KnownAt, FeedList>>)
<1>1. CASE meta[id] = None
  <2>1. UNCHANGED store
    BY <1>1 DEF Delete
  <2> QED BY <2>1, StoreSame DEF IInv, MetaType, Settled
<1>2. CASE meta[id] # None
  <2>1. PICK n \in Nat : \E s \in [1..n -> Ids] : Order(n, s) /\ (Settled => Newer(n, s))
    BY DEF IInv, LinkInv
  <2>2. PICK s \in [1..n -> Ids] : Order(n, s) /\ (Settled => Newer(n, s))
    BY <2>1
  <2>3. MetaType /\ TheList \in List /\ id \in Stored
    BY <1>2 DEF IInv, LinkInv, Stored
  <2>4. TheList' \in List /\ Stored' = Stored \ {id}
    BY <1>2, <2>2, <2>3, DeleteOrder
  <2>5. PICK k \in Nat : \E q \in [1..k -> Ids] :
          Order(k, q)' /\ q = Feed!Without(s, id) /\ Within(k, q, n, s)
    BY <1>2, <2>2, <2>3, DeleteOrder
  <2>6. PICK q \in [1..k -> Ids] :
          Order(k, q)' /\ q = Feed!Without(s, id) /\ Within(k, q, n, s)
    BY <2>5
  <2>7. meta' = [meta EXCEPT ![id] = None]
    BY <1>2 DEF Delete
  <2>8. MetaType' /\ ClockInv'
    BY <2>3, <2>4, <2>7 DEF IInv, MetaType, ClockInv, Stored
  <2>9. ASSUME Settled' PROVE Newer(k, q)'
    <3>1. Newer(n, s)
      BY <2>2, <2>9 DEF Settled
    <3>2. {q[i] : i \in 1..k} = Stored \ {id}
      BY <2>4, <2>6 DEF Order
    <3>3. \A i \in 1..k : meta'[q[i]] = meta[q[i]]
      BY <2>3, <2>7, <3>2 DEF MetaType, Stored
    <3>4. ASSUME NEW i \in 1..k, NEW j \in 1..k, i < j PROVE meta'[q[i]].at >= meta'[q[j]].at
      <4>1. PICK a \in 1..n, b \in 1..n : a < b /\ q[i] = s[a] /\ q[j] = s[b]
        BY <2>6, <3>4 DEF Within
      <4> QED BY <3>1, <3>3, <4>1 DEF Newer
    <3> QED BY <3>4 DEF Newer
  <2>10. LinkInv'
    BY <2>4, <2>6, <2>9 DEF LinkInv
  <2>11. IndexesExact'
    BY <2>3, DeleteExact DEF IInv
  <2>12. KnownAt' = [KnownAt EXCEPT ![id] = None]
    BY <2>3, <2>7 DEF KnownAt, MetaType
  <2>13. FeedList' = Feed!Without(FeedList, id)
    BY <2>2, <2>6, FeedIs, FeedIsNext
  <2>14. Feed!Drop(id)
    BY <2>12, <2>13 DEF Feed!Drop, KnownAt, FeedList
  <2> QED BY <2>8, <2>10, <2>11, <2>14 DEF IInv
<1> QED BY <1>1, <1>2

(* The end of a batch re-sorts the feed, unless nothing has changed.        *)
LEMMA EndKeeps ==
    ASSUME IInv, End PROVE IInv' /\ (Feed!Resort \/ UNCHANGED <<KnownAt, FeedList>>)
<1>1. CASE changed
  <2>1. Reorder /\ now' = now /\ todo' = {} /\ MetaType
    BY <1>1 DEF End, IInv
  <2>2. TheList' \in List /\ meta' = meta
    BY <2>1, ReorderThreads
  <2>3. PICK n \in Nat : \E s \in [1..n -> Ids] :
                 /\ Order(n, s)' /\ Newer(n, s)'
                 /\ n = Cardinality(Stored) /\ s \in [1..n -> Stored]
                 /\ \A i, j \in 1..n : i < j => s[i] # s[j] /\ meta[s[i]].at >= meta[s[j]].at
    BY <2>1, ReorderThreads
  <2>4. PICK s \in [1..n -> Ids] :
                 /\ Order(n, s)' /\ Newer(n, s)'
                 /\ n = Cardinality(Stored) /\ s \in [1..n -> Stored]
                 /\ \A i, j \in 1..n : i < j => s[i] # s[j] /\ meta[s[i]].at >= meta[s[j]].at
    BY <2>3
  <2>5. LinkInv'
    BY <2>2, <2>4 DEF LinkInv
  <2>6. IndexesExact'
    <3>1. TagsOf' = TagsOf /\ ChroniclesOf' = ChroniclesOf
      BY <2>2 DEF TagsOf, ChroniclesOf
    <3>2. tagIndex' = tagIndex /\ chronicleIndex' = chronicleIndex
      BY <2>1 DEF Reorder
    <3> QED BY <3>1, <3>2 DEF IInv, IndexesExact, Exact
  <2>7. MetaType' /\ ClockInv'
    BY <2>1, <2>2 DEF IInv, MetaType, ClockInv, Stored
  <2>8. KnownAt' = KnownAt /\ FeedList' = s
    BY <2>2, <2>4, FeedIsNext DEF KnownAt
  <2>9. /\ Feed!Known(KnownAt) = Stored
        /\ \A id \in Stored : KnownAt[id] = meta[id].at
    BY <2>1, StoreAssumption DEF Feed!Known, KnownAt, Stored, MetaType, Record, Stamps
  <2>10. s \in Feed!Descending(KnownAt)
    <3>1. {s[i] : i \in 1..n} = Stored
      BY <2>2, <2>4 DEF Order, Stored
    <3>2. s \in Seq(Stored) /\ DOMAIN s = 1..n
      BY <2>4
    <3> QED BY <2>4, <2>9, <3>1, <3>2 DEF Feed!Descending
  <2>11. Feed!Resort
    BY <2>8, <2>10 DEF Feed!Resort, KnownAt, FeedList
  <2> QED BY <2>1, <2>5, <2>6, <2>7, <2>11 DEF IInv
<1>2. CASE ~changed
  <2>1. UNCHANGED <<store, now>> /\ todo' = {} /\ (Settled' => Settled)
    BY <1>2 DEF End, Settled
  <2> QED BY <2>1, StoreSame DEF IInv, MetaType
<1> QED BY <1>1, <1>2

LEMMA InitInv == Init => IInv /\ Feed!FeedInit
<1> SUFFICES ASSUME Init PROVE IInv /\ Feed!FeedInit
  OBVIOUS
<1>1. Stored = {} /\ MetaType /\ todo \subseteq Ids /\ ClockInv
  BY StoreAssumption DEF Init, Stored, MetaType, ClockInv
<1>2. IndexesExact
  <2>1. TagsOf = [id \in Ids |-> {}] /\ ChroniclesOf = [id \in Ids |-> {}]
    BY DEF Init, TagsOf, ChroniclesOf
  <2>2. DOMAIN tagIndex = {} /\ DOMAIN chronicleIndex = {}
    BY DEF Init
  <2> QED BY <2>1, <2>2 DEF IndexesExact, Exact
<1>3. PICK s : s = <<>>
  OBVIOUS
<1>4. TheList \in List
  BY DEF Init, TheList, List, NoLink
<1>5. 1..0 = {} /\ s \in [1..0 -> Ids]
  BY <1>3
<1>6. Order(0, s) /\ Newer(0, s)
  BY <1>1, <1>5 DEF Init, TheList, NoLink, Order, Threads, Newer
<1>7. LinkInv
  BY <1>4, <1>5, <1>6 DEF LinkInv
<1>8. KnownAt = [id \in Ids |-> None] /\ FeedList = <<>>
  BY <1>3, <1>5, <1>6, FeedIs DEF KnownAt, Init
<1>9. Feed!FeedInit
  BY <1>8 DEF Feed!FeedInit, KnownAt, FeedList
<1> QED BY <1>1, <1>2, <1>7, <1>9 DEF IInv

FeedStep == [Feed!FeedNext]_(Feed!fvars)

LEMMA SameFeed == UNCHANGED <<KnownAt, FeedList>> => FeedStep
BY DEF FeedStep, Feed!fvars, KnownAt, FeedList

LEMMA FrontFeed == ASSUME NEW id \in Ids, NEW t \in Stamps, Feed!ToFront(id, t) PROVE FeedStep
BY DEF FeedStep, Feed!FeedNext

LEMMA DropFeed == ASSUME NEW id \in Ids, Feed!Drop(id) PROVE FeedStep
BY DEF FeedStep, Feed!FeedNext

LEMMA ResortFeed == Feed!Resort => FeedStep
BY DEF FeedStep, Feed!FeedNext

LEMMA NextKeeps == IInv /\ [Next]_vars => IInv' /\ FeedStep
<1> SUFFICES ASSUME IInv, [Next]_vars PROVE IInv' /\ FeedStep
  OBVIOUS
<1>1. now \in 0..MaxStamp /\ now \in Nat /\ MaxStamp \in Nat /\ Skew \in Nat
  BY StoreAssumption DEF IInv, MetaType
<1>2. CASE Advance
  <2>1. Settled' => Settled
    BY <1>2 DEF Advance, driver, Settled
  <2> QED BY <1>1, <1>2, <2>1, StoreSame, SameFeed DEF Advance, driver, IInv
<1>3. CASE End
  BY <1>3, EndKeeps, ResortFeed, SameFeed
<1>4. ASSUME NEW ids \in SUBSET Ids, Begin("ingest", ids) \/ Begin("sync", ids) \/ Prune(ids)
      PROVE  IInv' /\ FeedStep
  <2>1. UNCHANGED <<store, now>> /\ todo' \subseteq Ids
    BY <1>4 DEF Begin, Prune
  <2>2. Settled' => Settled
    BY <1>4 DEF Begin, Prune, Settled
  <2> QED BY <1>1, <2>1, <2>2, StoreSame, SameFeed
<1>5. ASSUME NEW id \in Ids, Forget(id) PROVE IInv' /\ FeedStep
  BY <1>5, DeleteKeeps, DropFeed, SameFeed DEF Forget, driver, IInv
<1>6. ASSUME NEW id \in Ids, PruneOne(id) PROVE IInv' /\ FeedStep
  BY <1>6, DeleteKeeps, DropFeed, SameFeed DEF PruneOne, IInv
<1>7. ASSUME NEW id \in Ids, NEW m \in Record, Load(id, m) PROVE IInv' /\ FeedStep
  <2>1. m.at \in Stamps /\ m.at \in Nat
    BY <1>1 DEF Record, Stamps
  <2>2. Skew = 0 => m.at <= now
    BY <1>1, <1>7, <2>1 DEF Load
  <2>3. Set(id, m) /\ now' = now /\ todo' \subseteq Ids /\ ~Settled'
    BY <1>7 DEF Load, IInv, Settled
  <2> QED BY <2>1, <2>2, <2>3, SetKeeps, FrontFeed
<1>8. ASSUME NEW id \in Ids, NEW tags \in SUBSET Tags, NEW c \in Chronicles \cup {None},
             \/ Write(id, tags) /\ c = None
             \/ Update(id, tags, c)
      PROVE  IInv' /\ FeedStep
  <2> DEFINE m == [at |-> now, tags |-> tags, chronicle |-> c]
  <2>1. m \in Record /\ m.at = now /\ m.at \in Stamps /\ m.at <= now
    BY <1>1 DEF Record, Stamps
  <2>2. batch = "none" /\ Set(id, m) /\ UNCHANGED <<now, driver>>
    BY <1>8 DEF Write, Update
  <2>3. (Settled' => Settled) /\ todo' \subseteq Ids /\ now' = now
    BY <2>2 DEF driver, Settled, IInv
  <2> HIDE DEF m
  <2> QED BY <2>1, <2>2, <2>3, SetKeeps, FrontFeed
<1>9. CASE UNCHANGED vars
  <2>1. Settled' => Settled
    BY <1>9 DEF vars, driver, Settled
  <2> QED BY <1>1, <1>9, <2>1, StoreSame, SameFeed DEF vars, driver, IInv
<1> QED BY <1>2, <1>3, <1>4, <1>5, <1>6, <1>7, <1>8, <1>9 DEF Next

(***************************************************************************)
(* What the order of the list says.                                         *)
(***************************************************************************)

LEMMA OrderLinks == IInv => LinksMatch
<1> SUFFICES ASSUME IInv PROVE LinksMatch
  OBVIOUS
<1>1. PICK n \in Nat : \E s \in [1..n -> Ids] : Order(n, s)
  BY DEF IInv, LinkInv
<1>2. PICK s \in [1..n -> Ids] : Order(n, s)
  BY <1>1
<1>3. /\ \A i, j \in 1..n : s[i] = s[j] => i = j
      /\ head = IF n = 0 THEN None ELSE s[1]
      /\ \A i \in 1..n : next[s[i]] = IF i = n THEN None ELSE s[i + 1]
      /\ \A i \in 1..n : prev[s[i]] = IF i = 1 THEN None ELSE s[i - 1]
      /\ \A id \in Ids \ Stored : next[id] = None /\ prev[id] = None
      /\ \A id \in Stored : \E i \in 1..n : s[i] = id
      /\ \A i \in 1..n : s[i] \in Stored
  BY <1>2 DEF Order, Threads, TheList
<1>4. None \notin Ids /\ Stored \subseteq Ids
  BY StoreAssumption DEF Stored
<1>5. n # 0 => 1 \in 1..n
  OBVIOUS
<1>6. head = None <=> Stored = {}
  BY <1>3, <1>4, <1>5
<1>7. ASSUME NEW id \in Stored PROVE (prev[id] = None) <=> (head = id)
  <2>1. PICK i \in 1..n : s[i] = id
    BY <1>3
  <2>2. n # 0 /\ 1 \in 1..n /\ (i # 1 => i - 1 \in 1..n)
    OBVIOUS
  <2> QED BY <1>3, <1>4, <2>1, <2>2
<1>8. ASSUME NEW id \in Ids, NEW j \in Ids PROVE (next[id] = j) <=> (prev[j] = id)
  <2>1. ASSUME next[id] = j PROVE prev[j] = id
    <3>1. PICK i \in 1..n : s[i] = id
      BY <1>3, <1>4, <2>1
    <3>2. i # n /\ i + 1 \in 1..n /\ s[i + 1] = j
      BY <1>3, <1>4, <2>1, <3>1
    <3> QED BY <1>3, <3>1, <3>2
  <2>2. ASSUME prev[j] = id PROVE next[id] = j
    <3>1. PICK i \in 1..n : s[i] = j
      BY <1>3, <1>4, <2>2
    <3>2. i # 1 /\ i - 1 \in 1..n /\ s[i - 1] = id /\ i - 1 # n
      BY <1>3, <1>4, <2>2, <3>1
    <3> QED BY <1>3, <3>1, <3>2
  <2> QED BY <2>1, <2>2
<1> QED BY <1>3, <1>6, <1>7, <1>8 DEF LinksMatch

LEMMA OrderNewest == IInv /\ Skew = 0 => NewestFirst
<1> SUFFICES ASSUME IInv, Skew = 0, batch = "none",
                    NEW id \in Stored, next[id] # None
             PROVE  meta[id].at >= meta[next[id]].at
  BY DEF NewestFirst
<1>1. PICK n \in Nat : \E s \in [1..n -> Ids] : Order(n, s) /\ Newer(n, s)
  BY DEF IInv, LinkInv, Settled
<1>2. PICK s \in [1..n -> Ids] : Order(n, s) /\ Newer(n, s)
  BY <1>1
<1>3. PICK i \in 1..n : s[i] = id
  BY <1>2 DEF Order
<1>4. next[s[i]] = IF i = n THEN None ELSE s[i + 1]
  BY <1>2 DEF Order, Threads, TheList
<1>5. i # n /\ i + 1 \in 1..n /\ next[id] = s[i + 1] /\ i < i + 1
  BY <1>3, <1>4
<1> QED BY <1>2, <1>3, <1>5 DEF Newer

(* The walk that stops at the first record older than the range misses none.*)
LEMMA RangeExact ==
    ASSUME IInv, Skew = 0, batch = "none", NEW start \in Stamps \cup {None}, NEW end
    PROVE  \A id \in Stored : After(id, start) /\ Until(id, end) => id \in ValuesInRange(start, end)
<1> SUFFICES ASSUME NEW id \in Stored, After(id, start), Until(id, end)
             PROVE  id \in ValuesInRange(start, end)
  OBVIOUS
<1>1. PICK n \in Nat : \E s \in [1..n -> Ids] : Order(n, s) /\ Newer(n, s)
  BY DEF IInv, LinkInv, Settled
<1>2. PICK s \in [1..n -> Ids] : Order(n, s) /\ Newer(n, s)
  BY <1>1
<1>3. PICK i \in 1..n : s[i] = id
  BY <1>2 DEF Order
<1>4. /\ n <= Cardinality(Ids) /\ Cardinality(Ids) \in Nat
      /\ Values = [m \in 1..Cardinality(Ids) |-> IF m <= n THEN s[m] ELSE None]
  BY <1>2, ValuesOrder
<1>5. /\ \A p \in 1..n : Values[p] = s[p]
      /\ DOMAIN Values = 1..Cardinality(Ids)
  BY <1>4
<1>6. i \in Visited /\ Values[i] = id
  BY <1>3, <1>4, <1>5, StoreAssumption DEF Visited, Stored
<1>7. ASSUME NEW p \in 1..i PROVE After(Values[p], start)
  <2>1. p \in 1..n /\ Values[p] = s[p] /\ s[p] \in Stored
    BY <1>2, <1>5 DEF Order
  <2>2. meta[s[p]].at \in Nat /\ meta[id].at \in Nat /\ (start # None => start \in Nat)
    BY <2>1, StoreAssumption DEF IInv, MetaType, Stored, Record, Stamps
  <2>3. meta[s[p]].at >= meta[id].at
    <3>1. CASE p = i
      BY <1>3, <2>2, <3>1
    <3>2. CASE p < i
      BY <1>2, <1>3, <2>1, <3>2 DEF Newer
    <3> QED BY <3>1, <3>2
  <2> QED BY <2>1, <2>2, <2>3 DEF After
<1> QED BY <1>6, <1>7 DEF ValuesInRange

LEMMA FiltersExact == IInv /\ Skew = 0 => FilterExact
<1> SUFFICES ASSUME IInv, Skew = 0, batch = "none", NEW f \in Filter
             PROVE  IdsMatchingFilter(f) = {id \in Stored : Matches(id, f)}
  BY DEF FilterExact
<1> DEFINE base == IF f.chronicle # None THEN Postings(chronicleIndex, f.chronicle)
                   ELSE IF f.tags # {} THEN UNION {Postings(tagIndex, t) : t \in f.tags}
                   ELSE IF f.start # None \/ f.end # None THEN ValuesInRange(f.start, f.end)
                   ELSE Stored
<1>1. /\ Exact(tagIndex, TagsOf) /\ Exact(chronicleIndex, ChroniclesOf)
      /\ f.start \in Stamps \cup {None}
  BY DEF IInv, IndexesExact, Filter
<1>2. ASSUME NEW id \in Stored, Matches(id, f) PROVE id \in base
  <2>1. id \in Ids /\ meta[id] # None
    BY DEF Stored
  <2>2. CASE f.chronicle # None
    <3>1. meta[id].chronicle = f.chronicle
      BY <1>2, <2>2 DEF Matches
    <3>2. f.chronicle \in ChroniclesOf[id]
      BY <2>1, <2>2, <3>1 DEF ChroniclesOf, ChronicleOf
    <3>3. f.chronicle \in DOMAIN chronicleIndex /\ id \in chronicleIndex[f.chronicle]
      BY <1>1, <2>1, <3>2 DEF Exact
    <3> QED BY <2>2, <3>3 DEF Postings
  <2>3. CASE f.chronicle = None /\ f.tags # {}
    <3>1. PICK t \in f.tags : t \in meta[id].tags
      BY <1>2, <2>3 DEF Matches
    <3>2. t \in TagsOf[id]
      BY <2>1, <3>1 DEF TagsOf
    <3>3. t \in DOMAIN tagIndex /\ id \in tagIndex[t]
      BY <1>1, <2>1, <3>2 DEF Exact
    <3>4. id \in Postings(tagIndex, t)
      BY <3>3 DEF Postings
    <3> QED BY <2>3, <3>1, <3>4
  <2>4. CASE f.chronicle = None /\ f.tags = {} /\ (f.start # None \/ f.end # None)
    <3>1. After(id, f.start) /\ Until(id, f.end)
      BY <1>2 DEF Matches
    <3> QED BY <1>1, <2>4, <3>1, RangeExact
  <2> QED BY <2>2, <2>3, <2>4
<1>3. ASSUME NEW id \in base, meta[id] # None PROVE id \in Stored
  <2>1. id \in Ids
    <3>1. \A k : Postings(chronicleIndex, k) \subseteq Ids
      BY <1>1 DEF Exact, Postings
    <3>2. \A k : Postings(tagIndex, k) \subseteq Ids
      BY <1>1 DEF Exact, Postings
    <3>3. ValuesInRange(f.start, f.end) \subseteq Ids
      <4>1. PICK n \in Nat : \E s \in [1..n -> Ids] : Order(n, s)
        BY DEF IInv, LinkInv
      <4>2. PICK s \in [1..n -> Ids] : Order(n, s)
        BY <4>1
      <4>3. /\ n <= Cardinality(Ids) /\ Cardinality(Ids) \in Nat
            /\ Values = [m \in 1..Cardinality(Ids) |-> IF m <= n THEN s[m] ELSE None]
        BY <4>2, ValuesOrder
      <4>4. \A p \in Visited : Values[p] \in Ids
        BY <4>3 DEF Visited
      <4> QED BY <4>4 DEF ValuesInRange
    <3>4. Stored \subseteq Ids
      BY DEF Stored
    <3> QED BY <1>3, <3>1, <3>2, <3>3, <3>4
  <2> QED BY <1>3, <2>1 DEF Stored
<1>4. \A id \in Stored : meta[id] # None
  BY DEF Stored
<1>5. IdsMatchingFilter(f) = {id \in base : meta[id] # None /\ Matches(id, f)}
  BY DEF IdsMatchingFilter
<1> HIDE DEF base
<1> QED BY <1>2, <1>3, <1>4, <1>5

(* The strengthening of the properties below holds in every reachable state.*)
THEOREM InvariantHolds == Spec => []IInv
<1>1. Init => IInv
  BY InitInv
<1>2. IInv /\ [Next]_vars => IInv'
  BY NextKeeps
<1> QED BY <1>1, <1>2, PTL DEF Spec

(* Whatever the vault sets, replaces, deletes and re-sorts, and in whatever *)
(* order, the two directions of the recency list agree and join exactly the *)
(* records that are stored.                                                 *)
THEOREM LinksMatchHolds == Spec => []LinksMatch
BY InvariantHolds, OrderLinks, PTL

(* The tag and chronicle indexes list exactly the records with each key.    *)
THEOREM IndexesExactHolds == Spec => []IndexesExact
<1>1. IInv => IndexesExact
  BY DEF IInv
<1> QED BY <1>1, InvariantHolds, PTL

(* If no device's clock runs ahead, the list is in order of updated_at      *)
(* outside batches, though a single set() never compares timestamps.        *)
THEOREM NewestFirstHolds == Spec => [](Skew = 0 => NewestFirst)
<1>1. IInv => (Skew = 0 => NewestFirst)
  BY OrderNewest
<1> QED BY <1>1, InvariantHolds, PTL

(* If no device's clock runs ahead, every filter finds outside batches      *)
(* exactly the records that match it: the postings it starts from are never *)
(* stale, and the walk that stops at the first older record misses none.    *)
THEOREM FilterExactHolds == Spec => [](Skew = 0 => FilterExact)
<1>1. IInv => (Skew = 0 => FilterExact)
  BY FiltersExact
<1> QED BY <1>1, InvariantHolds, PTL

(* The linked list implements the abstract feed, whatever the clocks: every *)
(* set moves one record to the front, every delete drops one and keeps the  *)
(* order of the others, the end of a batch re-sorts, nothing else moves.    *)
THEOREM FeedImplemented == Spec => KeepsFeed
<1>1. Init => IInv /\ Feed!FeedInit
  BY InitInv
<1>2. IInv /\ [Next]_vars => IInv' /\ [Feed!FeedNext]_(Feed!fvars)
  BY NextKeeps DEF FeedStep
<1> QED BY <1>1, <1>2, PTL DEF Spec, KeepsFeed, Feed!FeedSpec
=============================================================================
