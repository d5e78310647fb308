--------------------------- MODULE GitSyncProofs ----------------------------
(***************************************************************************)
(* Theorems about GitSync, for any set of files, any number of changes here *)
(* and elsewhere, of faults, of crashes and of attempts.                    *)
(***************************************************************************)
EXTENDS GitSync, Integers, SequenceTheorems, FiniteSetTheorems, WellFoundedInduction, TLAPS

(***************************************************************************)
(* Natural numbers and finite sets of them.                                 *)
(***************************************************************************)

(* A set of natural numbers that is not empty has a least element.          *)
LEMMA LeastNatural ==
    ASSUME NEW T \in SUBSET Nat, T # {}
    PROVE  \E n \in T : \A m \in T : n <= m
<1> DEFINE R == OpToRel(<, Nat)
<1>1. IsWellFoundedOn(R, Nat)
  BY NatLessThanWellFounded
<1>2. \A x, y \in Nat : x < y => <<x, y>> \in R
  BY DEF OpToRel
<1> HIDE DEF R
<1>3. \E x \in T : \A y \in T : ~ (<<y, x>> \in R)
  BY <1>1, WFMin
<1>4. PICK n \in T : \A m \in T : ~ (<<m, n>> \in R)
  BY <1>3
<1>5. \A m \in T : ~(m < n)
  BY <1>2, <1>4
<1>6. n \in Nat /\ \A m \in T : m \in Nat
  OBVIOUS
<1> QED BY <1>5, <1>6

(* A bounded set of them that is not empty has a greatest one, Max.         *)
LEMMA MaxNatural ==
    ASSUME NEW n \in Nat, NEW T \in SUBSET (0..n), T # {}
    PROVE  Max(T) \in T /\ \A m \in T : Max(T) >= m
<1> DEFINE D == {n - m : m \in T}
<1>1. \A m \in T : m \in 0..n /\ n - m \in Nat
  OBVIOUS
<1> D \in SUBSET Nat /\ D # {}
  BY <1>1
<1>2. PICK d \in D : \A e \in D : d <= e
  BY LeastNatural
<1>3. PICK x \in T : d = n - x
  BY <1>2
<1>4. ASSUME NEW m \in T PROVE x >= m
  <2>1. n - m \in D
    OBVIOUS
  <2>2. n - x <= n - m /\ m \in 0..n /\ x \in 0..n
    BY <1>1, <1>2, <1>3, <2>1
  <2> QED BY <2>2
<1> QED BY <1>4 DEF Max

(* The elements up to k of a set of natural numbers.                        *)
Upto(K, k) == {j \in K : j <= k}

LEMMA UptoIs ==
    ASSUME NEW n \in Nat, NEW K \in SUBSET (1..n), NEW k \in Nat
    PROVE  /\ Upto(K, k) \subseteq K
           /\ \A j : j \in Upto(K, k) <=> j \in K /\ j <= k
           /\ \A j \in K : j \in 1..n /\ j \in Nat
BY DEF Upto

LEMMA UptoCardinality ==
    ASSUME NEW n \in Nat, NEW K \in SUBSET (1..n)
    PROVE  /\ \A k \in Nat : IsFiniteSet(Upto(K, k)) /\ Cardinality(Upto(K, k)) \in Nat
           /\ Cardinality(Upto(K, 0)) = 0
           /\ Cardinality(Upto(K, n)) = Cardinality(K)
           /\ \A k \in Nat : Cardinality(Upto(K, k)) <= Cardinality(K)
           /\ Cardinality(K) \in Nat
<1> \A k \in K : k \in 1..n /\ k \in Nat
  OBVIOUS
<1>1. IsFiniteSet(1..n)
  BY FS_Interval
<1>2. IsFiniteSet(K) /\ Cardinality(K) \in Nat
  BY <1>1, FS_Subset, FS_CardinalityType
<1>3. ASSUME NEW k \in Nat
      PROVE  /\ IsFiniteSet(Upto(K, k)) /\ Cardinality(Upto(K, k)) \in Nat
             /\ Cardinality(Upto(K, k)) <= Cardinality(K)
  <2>1. Upto(K, k) \in SUBSET K
    BY DEF Upto
  <2> QED BY <1>2, <2>1, FS_Subset, FS_CardinalityType
<1>4. Upto(K, 0) = {}
  <2>1. \A j : j \notin Upto(K, 0)
    <3>1. 0 \in Nat
      OBVIOUS
    <3>2. \A j : j \in Upto(K, 0) => j \in 1..n /\ j <= 0
      BY <3>1, UptoIs
    <3> QED BY <3>2
  <2> QED BY <2>1
<1>5. Upto(K, n) = K
  <2>1. \A j : j \in Upto(K, n) <=> j \in K /\ j <= n
    BY UptoIs
  <2>2. \A j \in K : j <= n
    OBVIOUS
  <2> QED BY <2>1, <2>2
<1> QED BY <1>2, <1>3, <1>4, <1>5, FS_EmptySet

LEMMA UptoNext ==
    ASSUME NEW n \in Nat, NEW K \in SUBSET (1..n), NEW k \in Nat
    PROVE  Cardinality(Upto(K, k + 1)) =
               Cardinality(Upto(K, k)) + (IF k + 1 \in K THEN 1 ELSE 0)
<1>0. IsFiniteSet(Upto(K, k)) /\ Cardinality(Upto(K, k)) \in Nat
  BY UptoCardinality
<1>1. CASE k + 1 \in K
  <2>1. Upto(K, k + 1) = Upto(K, k) \cup {k + 1} /\ k + 1 \notin Upto(K, k)
    <3>1. k \in Nat /\ k + 1 \in Nat /\ \A j \in Nat : j <= k + 1 <=> j <= k \/ j = k + 1
      OBVIOUS
    <3>2. /\ \A j : j \in Upto(K, k) <=> j \in K /\ j <= k
          /\ \A j : j \in Upto(K, k + 1) <=> j \in K /\ j <= k + 1
          /\ \A j \in K : j \in Nat
      BY <3>1, UptoIs
    <3>3. \A j : j \in Upto(K, k + 1) <=> j \in Upto(K, k) \/ j = k + 1
      BY <1>1, <3>1, <3>2
    <3>4. k + 1 \notin Upto(K, k)
      BY <3>1, UptoIs
    <3> QED BY <3>3, <3>4
  <2> QED BY <1>0, <1>1, <2>1, FS_AddElement
<1>2. CASE k + 1 \notin K
  <2>1. Upto(K, k + 1) = Upto(K, k)
    <3>1. k \in Nat /\ k + 1 \in Nat /\ \A j \in Nat : j <= k + 1 <=> j <= k \/ j = k + 1
      OBVIOUS
    <3>2. /\ \A j : j \in Upto(K, k) <=> j \in K /\ j <= k
          /\ \A j : j \in Upto(K, k + 1) <=> j \in K /\ j <= k + 1
          /\ \A j \in K : j \in Nat
      BY <3>1, UptoIs
    <3>3. \A j : j \in Upto(K, k + 1) <=> j \in Upto(K, k)
      BY <1>2, <3>1, <3>2
    <3> QED BY <3>3
  <2> QED BY <1>0, <1>2, <2>1
<1> QED BY <1>1, <1>2

(* The set has an i-th element for every i up to its size ...                *)
LEMMA NthIs ==
    ASSUME NEW n \in Nat, NEW K \in SUBSET (1..n), NEW i \in 1..Cardinality(K)
    PROVE  Nth(K, i) \in K /\ Cardinality(Upto(K, Nth(K, i))) = i
<1> DEFINE T == {k \in Nat : Cardinality(Upto(K, k)) >= i}
<1>0. \A m \in Nat : /\ Cardinality(Upto(K, m)) \in Nat
                     /\ Cardinality(Upto(K, m + 1)) =
                           Cardinality(Upto(K, m)) + (IF m + 1 \in K THEN 1 ELSE 0)
  <2>1. \A m \in Nat : Cardinality(Upto(K, m)) \in Nat
    BY UptoCardinality
  <2>2. \A m \in Nat : Cardinality(Upto(K, m + 1)) =
                          Cardinality(Upto(K, m)) + (IF m + 1 \in K THEN 1 ELSE 0)
    <3> TAKE m \in Nat
    <3> QED BY UptoNext
  <2> QED BY <2>1, <2>2
<1>1. Cardinality(K) \in Nat /\ Cardinality(Upto(K, 0)) = 0 /\ Cardinality(Upto(K, n)) = Cardinality(K)
  BY UptoCardinality
<1>2. n \in T /\ T \in SUBSET Nat
  BY <1>1
<1>3. PICK k \in T : \A m \in T : k <= m
  BY <1>2, LeastNatural
<1>4. k \in Nat /\ k # 0 /\ Cardinality(Upto(K, k)) >= i
  BY <1>1, <1>3
<1>5. k - 1 \in Nat /\ ~(k - 1 \in T)
  BY <1>3, <1>4
<1>6. Cardinality(Upto(K, k - 1)) \in Nat /\ Cardinality(Upto(K, k - 1)) < i
  BY <1>0, <1>1, <1>5
<1>7. Cardinality(Upto(K, k)) = Cardinality(Upto(K, k - 1)) + (IF k \in K THEN 1 ELSE 0)
  <2>1. (k - 1) + 1 = k
    BY <1>4
  <2> QED BY <1>0, <1>5, <2>1
<1>8. k \in K /\ Cardinality(Upto(K, k)) = i
  BY <1>1, <1>4, <1>6, <1>7
<1> QED BY <1>8 DEF Nth, Upto

(* ... and each of its elements is one.                                     *)
LEMMA NthCovers ==
    ASSUME NEW n \in Nat, NEW K \in SUBSET (1..n), NEW k \in K
    PROVE  \E i \in 1..Cardinality(K) : Nth(K, i) = k
<1> DEFINE i == Cardinality(Upto(K, k))
<1>1. k \in Nat /\ k \in 1..n
  OBVIOUS
<1>2. k \in Upto(K, k)
  BY <1>1, UptoIs
<1>3. i \in 1..Cardinality(K)
  <2>1. /\ IsFiniteSet(Upto(K, k)) /\ i \in Nat /\ i <= Cardinality(K) /\ Cardinality(K) \in Nat
    BY <1>1, UptoCardinality
  <2>2. i # 0
    BY <1>2, <2>1, FS_EmptySet
  <2> QED BY <2>1, <2>2
<1>4. Nth(K, i) \in K /\ Cardinality(Upto(K, Nth(K, i))) = i
  BY <1>3, NthIs
<1>5. ASSUME NEW a \in K, NEW b \in K, a < b
      PROVE  Cardinality(Upto(K, a)) # Cardinality(Upto(K, b))
  <2>1. a \in Nat /\ b \in Nat
    OBVIOUS
  <2>2. Upto(K, a) \in SUBSET Upto(K, b) /\ b \in Upto(K, b) /\ b \notin Upto(K, a)
    <3>1. \A j \in Nat : j <= a => j <= b
      BY <1>5, <2>1
    <3>2. /\ \A j : j \in Upto(K, a) <=> j \in K /\ j <= a
          /\ \A j : j \in Upto(K, b) <=> j \in K /\ j <= b
          /\ \A j \in K : j \in Nat
      BY <2>1, UptoIs
    <3>3. ~(b <= a) /\ b <= b
      BY <1>5, <2>1
    <3> QED BY <3>1, <3>2, <3>3
  <2>3. IsFiniteSet(Upto(K, b))
    BY <2>1, UptoCardinality
  <2> QED BY <2>2, <2>3, FS_Subset
<1>6. Nth(K, i) = k
  <2>1. Nth(K, i) \in Nat /\ k \in Nat
    <3>1. \A j \in K : j \in Nat
      OBVIOUS
    <3> QED BY <1>4, <3>1
  <2>2. ~(Nth(K, i) < k) /\ ~(k < Nth(K, i))
    BY <1>4, <1>5
  <2> QED BY <2>1, <2>2
<1> QED BY <1>3, <1>6

(***************************************************************************)
(* Trees, and what a pull makes of them.                                    *)
(***************************************************************************)

Kinds   == {"none", "put", "batch", "delete", "sync", "init", "recover"}
Results == {"none", "ok", "stale", "failed", "refused", "partial"}
Ops     == [kind : Kinds, paths : SUBSET Paths, saw : Trees, head : Trees, undo : BOOLEAN,
            push : BOOLEAN, made : BOOLEAN, err : SUBSET Paths, res : Results]

LEMMA ContentTypes ==
    /\ \A n \in 1..MaxOwn : Mine(n) \in Contents
    /\ \A n \in 0..MaxPeer : Peers(n) \in Contents
    /\ Torn \in Contents /\ NoFiles \in Trees
BY DEF Contents, Mine, Peers, Torn, Trees, NoFiles

LEMMA OverType ==
    ASSUME NEW s \in Trees, NEW t \in Trees, NEW P
    PROVE  Over(s, t, P) \in Trees
BY DEF Over, Trees

(* The trees the operators name are trees.                                  *)
LEMMA TreeTypes ==
    ASSUME TypeOK
    PROVE  /\ Origin \in Trees /\ Tip \in Trees /\ Parent \in Trees
           /\ remote[base] \in Trees /\ remote[seen] \in Trees
           /\ Len(remote) \in Nat \ {0} /\ base \in 1..Len(remote) /\ seen \in 1..Len(remote)
           /\ \A i \in 1..Len(remote) : remote[i] \in Trees
           /\ Len(ahead) \in Nat /\ \A k \in 1..Len(ahead) : ahead[k] \in Trees
           /\ Dirty \subseteq Paths /\ Blocked \subseteq Paths /\ Stashed \subseteq Paths
           /\ Untracked \subseteq Paths
<1>1. Len(remote) \in Nat \ {0} /\ \A i \in 1..Len(remote) : remote[i] \in Trees
  BY ElementOfSeq, EmptySeq, LenProperties DEF TypeOK
<1>2. Len(ahead) \in Nat /\ \A k \in 1..Len(ahead) : ahead[k] \in Trees
  BY ElementOfSeq, LenProperties DEF TypeOK
<1>3. base \in 1..Len(remote) /\ seen \in 1..Len(remote)
  BY <1>1 DEF TypeOK
<1>4. ahead # <<>> => Len(ahead) \in 1..Len(ahead)
  BY <1>2, EmptySeq DEF TypeOK
<1>5. Origin \in Trees /\ Tip \in Trees
  BY <1>1, <1>2, <1>3, <1>4 DEF Origin, Tip, Last
<1>6. Parent \in Trees
  BY <1>1, <1>2, <1>3 DEF Parent
<1> QED BY <1>1, <1>2, <1>3, <1>5, <1>6 DEF Dirty, Blocked, Stashed, Untracked

(* The commits the remote has already: a prefix of the local ones.          *)
LEMMA LandedIs ==
    ASSUME TypeOK
    PROVE  /\ Landed \in 0..Len(ahead) /\ base + Landed <= Len(remote)
           /\ \A j \in 1..Landed : remote[base + j] = ahead[j]
<1> DEFINE T == {k \in 0..Len(ahead) : /\ base + k <= Len(remote)
                                       /\ \A j \in 1..k : remote[base + j] = ahead[j]}
<1>1. Len(ahead) \in Nat /\ base \in 1..Len(remote) /\ Len(remote) \in Nat
  BY TreeTypes
<1>2. 0 \in T /\ T \in SUBSET (0..Len(ahead))
  BY <1>1
<1>3. Max(T) \in T
  BY <1>1, <1>2, MaxNatural
<1> QED BY <1>3 DEF Landed

LEMMA RebasedType ==
    ASSUME TypeOK, NEW k \in 0..Len(ahead)
    PROVE  Rebased(k) \in Trees
<1>1. Landed \in Nat /\ k \in Nat
  BY LandedIs, TreeTypes
<1>2. (\E j \in (Landed + 1)..k : TRUE) => k \in 1..Len(ahead)
  BY <1>1, TreeTypes
<1>3. CASE k \in 1..Len(ahead)
  BY <1>3, TreeTypes DEF Rebased, Trees
<1>4. CASE k \notin 1..Len(ahead)
  <2>1. ASSUME NEW p \in Paths PROVE ~ \E j \in (Landed + 1)..k : p \in Change(j)
    BY <1>2, <1>4
  <2> QED BY <2>1, TreeTypes DEF Rebased, Trees
<1> QED BY <1>3, <1>4

LEMMA KeptIs ==
    ASSUME TypeOK
    PROVE  /\ Kept \in SUBSET (1..Len(ahead)) /\ Cardinality(Kept) \in Nat
           /\ \A i \in 1..Cardinality(Kept) : Nth(Kept, i) \in Kept
<1>1. Kept \in SUBSET (1..Len(ahead)) /\ Len(ahead) \in Nat
  BY LandedIs, TreeTypes DEF Kept
<1> QED BY <1>1, NthIs, UptoCardinality

LEMMA ReplayedType ==
    ASSUME TypeOK
    PROVE  /\ Replayed \in Seq(Trees) /\ Len(Replayed) = Cardinality(Kept)
           /\ \A i \in 1..Cardinality(Kept) : Replayed[i] = Rebased(Nth(Kept, i))
<1>1. \A i \in 1..Cardinality(Kept) : Rebased(Nth(Kept, i)) \in Trees
  BY KeptIs, RebasedType
<1>2. Replayed \in [1..Cardinality(Kept) -> Trees]
  BY <1>1 DEF Replayed
<1>3. Replayed \in Seq(Trees)
  BY <1>2, KeptIs, IsASeq
<1>4. Len(Replayed) = Cardinality(Kept)
  BY <1>2, <1>3, KeptIs, LenProperties
<1> QED BY <1>3, <1>4 DEF Replayed

(* Every tree of the rebase is the remote's or that of a new commit.        *)
LEMMA RebasedIsThere ==
    ASSUME TypeOK, NEW k \in Landed..Len(ahead)
    PROVE  Rebased(k) = Origin \/ \E i \in 1..Len(Replayed) : Replayed[i] = Rebased(k)
<1> DEFINE There(j) == Rebased(j) = Origin \/ \E i \in 1..Len(Replayed) : Replayed[i] = Rebased(j)
           Missing  == {j \in Landed..Len(ahead) : ~There(j)}
<1>1. Landed \in Nat /\ Len(ahead) \in Nat
  BY LandedIs, TreeTypes
<1>2. SUFFICES ASSUME Missing # {} PROVE FALSE
  OBVIOUS
<1>3. Missing \in SUBSET Nat
  BY <1>1
<1>4. PICK m \in Missing : \A j \in Missing : m <= j
  BY <1>2, <1>3, LeastNatural
<1>5. m \in Landed..Len(ahead) /\ m \in Nat /\ ~There(m)
  BY <1>1, <1>4
<1>6. m # Landed
  <2>1. ASSUME m = Landed PROVE Rebased(m) = Origin
    <3>1. ~ \E j \in (Landed + 1)..m : TRUE
      BY <1>1, <2>1
    <3>2. Rebased(m) = [p \in Paths |-> Origin[p]]
      BY <3>1 DEF Rebased
    <3> QED BY <3>2, TreeTypes DEF Trees
  <2> QED BY <1>5, <2>1
<1>7. m - 1 \in Landed..Len(ahead) /\ m \in (Landed + 1)..Len(ahead) /\ ~(m <= m - 1)
  BY <1>1, <1>5, <1>6
<1>8. There(m - 1)
  BY <1>4, <1>7
<1>9. m \in Kept
  BY <1>5, <1>7, <1>8 DEF Kept
<1>10. PICK i \in 1..Cardinality(Kept) : Nth(Kept, i) = m
  BY <1>1, <1>9, KeptIs, NthCovers
<1> QED BY <1>5, <1>10, ReplayedType

(* The types of what a pull leaves.                                         *)
LEMMA PulledType ==
    ASSUME TypeOK, Pulled
    PROVE  /\ base' = Len(remote) /\ ahead' \in Seq(Trees) /\ work' \in Trees /\ index' \in Trees
           /\ unmerged' \subseteq Paths
           /\ mishaps' \subseteq {"unmerged", "passed", "swept", "foreign", "shouted"}
<1> DEFINE tip   == Rebased(Len(ahead))
           torn  == {p \in Stashed : tip[p] \notin {Tip[p], work[p]}}
           fresh == {p \in Stashed \ torn : tip[p] = None /\ work[p] # None}
<1>1. tip \in Trees /\ work \in Trees /\ index \in Trees
  BY RebasedType, TreeTypes DEF TypeOK
<1>2. index' = Over(tip, work, fresh)
  BY DEF Pulled
<1>3. work' = [p \in Paths |-> IF p \in torn THEN (IF tip[p] = None THEN work[p] ELSE Torn)
                               ELSE IF p \in Stashed \cup Untracked THEN work[p] ELSE tip[p]]
  BY DEF Pulled
<1>4. unmerged' = torn
  BY DEF Pulled
<1>5. base' = Len(remote) /\ ahead' = Replayed
  BY DEF Pulled
<1>6. mishaps' \subseteq mishaps \cup {"unmerged", "passed"}
  BY DEF Pulled
<1>7. torn \subseteq Paths
  BY TreeTypes
<1> HIDE DEF tip, torn, fresh
<1>8. work' \in Trees
  BY <1>1, <1>3, ContentTypes DEF Trees
<1>9. mishaps \subseteq {"unmerged", "passed", "swept", "foreign", "shouted"}
  BY DEF TypeOK
<1> QED BY <1>1, <1>2, <1>4, <1>5, <1>6, <1>7, <1>8, <1>9, OverType, ReplayedType

(***************************************************************************)
(* The operation at work: where it is, what it carries, and that a write    *)
(* stays with it until it is acknowledged or failed.                        *)
(***************************************************************************)

Places  == {"idle", "down", "add", "commit", "push", "pull", "failed",
            "sync", "reconcile", "recover", "commitLeft"}
Tally   == [own : 0..MaxOwn, peers : 0..MaxPeer, faults : 0..MaxFaults, crashes : 0..MaxCrashes]
Storing == op.kind \in {"put", "batch"}
Aimed   == Storing \/ op.kind = "delete"

Control ==
    /\ pc = "idle" => op.kind = "none"
    /\ pc \notin {"push", "pull", "failed"} => tries = 0
    /\ pc \in {"push", "pull"} => tries < MaxAttempts
    /\ Aimed => pc \in {"add", "commit", "push", "pull", "failed"}
    /\ Storing => spent.own \in 1..MaxOwn

(* What the write brought is committed here or on the remote.               *)
Stored(p) == \/ \E i \in 1..Len(remote) : remote[i][p] = Mine(spent.own)
             \/ \E k \in 1..Len(ahead) : ahead[k][p] = Mine(spent.own)

Carried ==
    Storing => \A p \in op.paths :
       /\ pc = "add" => work[p] = Mine(spent.own)
       /\ pc = "commit" => index[p] = Mine(spent.own)
       /\ pc \in {"push", "pull"} => Stored(p)

Typed == TypeOK /\ Control
IInv  == Typed /\ Carried /\ AckedIsPushed

(* TypeOK in four parts, the ones the actions touch together.               *)
RepoType == /\ remote \in Seq(Trees) /\ remote # <<>>
            /\ base \in 1..Len(remote) /\ seen \in base..Len(remote)
            /\ ahead \in Seq(Trees) /\ index \in Trees /\ work \in Trees /\ unmerged \subseteq Paths
FlowType == pc \in Places /\ op \in Ops /\ tries \in 0..MaxAttempts
HistType == /\ based \subseteq Paths \X (Contents \cup {None}) \X (Contents \cup {None})
            /\ acked \subseteq Paths \X Contents
            /\ mishaps \subseteq {"unmerged", "passed", "swept", "foreign", "shouted"}

LEMMA TypeParts ==
    TypeOK <=> RepoType /\ FlowType /\ HistType /\ refuses \in BOOLEAN /\ spent \in Tally
BY DEF TypeOK, RepoType, FlowType, HistType, Places, Ops, Kinds, Results, Tally

LEMMA TypePartsNext ==
    RepoType' /\ FlowType' /\ HistType' /\ refuses' \in BOOLEAN /\ spent' \in Tally => TypeOK'
BY DEF TypeOK, RepoType, FlowType, HistType, Places, Ops, Kinds, Results, Tally

LEMMA FaultTypes ==
    ASSUME spent \in Tally, Fault
    PROVE  spent' \in Tally /\ spent'.own = spent.own /\ spent'.peers = spent.peers
BY GitAssumption DEF Tally, Fault, Calm

LEMMA OperationType ==
    ASSUME work \in Trees, Tip \in Trees, NEW kind \in Kinds, NEW P \in SUBSET Paths
    PROVE  /\ Operation(kind, P) \in Ops /\ Operation(kind, P).kind = kind
           /\ Operation(kind, P).paths = P
           /\ \A res \in Results : [Operation(kind, P) EXCEPT !.res = res] \in Ops
           /\ \A res \in Results : [Operation(kind, P) EXCEPT !.res = res].kind = kind
BY ContentTypes DEF Operation, Ops, Results

(* An operation that ends leaves nothing to store.                          *)
LEMMA ReturnTypes ==
    ASSUME Typed, NEW res \in Results, Return(res)
    PROVE  FlowType' /\ Control' /\ ~Aimed'
<1>1. op.kind \in Kinds /\ work \in Trees /\ Tip \in Trees
  BY TreeTypes, TypeParts DEF Typed, TypeOK, Ops, FlowType
<1>2. PICK kind \in {"init", "none"} :
         /\ kind = IF op.kind = "init" THEN "init" ELSE "none"
         /\ op' = [Operation(kind, {}) EXCEPT !.res = res]
  BY DEF Return
<1>3. op' \in Ops /\ op'.kind = kind
  BY <1>1, <1>2, OperationType DEF Kinds
<1>4. pc' \in Places /\ (pc' = "idle" => op'.kind = "none") /\ pc' \notin {"push", "pull", "failed"}
  BY <1>2, <1>3 DEF Return, Places
<1>5. tries' = 0
  BY DEF Return
<1> QED BY <1>2, <1>3, <1>4, <1>5, GitAssumption DEF FlowType, Control, Storing, Aimed

LEMMA ConflictingType ==
    ASSUME TypeOK
    PROVE  Conflicting \subseteq Paths
<1>1. \A k : Clash(k) \subseteq Paths
  BY DEF Clash, Change, Differ
<1>2. Conflicts \subseteq Paths
  BY <1>1 DEF Conflicts
<1> QED BY <1>2 DEF Conflicting, TypeOK

(* A pull, whether it returns or throws.                                    *)
LEMMA PullTypes ==
    ASSUME TypeOK, remote' = remote,
           \/ \E found \in BOOLEAN : PullReturns(found)
           \/ \E paths \in {{}, Conflicting} : PullThrows(paths)
    PROVE  /\ RepoType' /\ spent' \in Tally /\ spent'.own = spent.own
           /\ mishaps' \subseteq {"unmerged", "passed", "swept", "foreign", "shouted"}
<1>1. RepoType /\ spent \in Tally /\ mishaps \subseteq {"unmerged", "passed", "swept", "foreign", "shouted"}
  BY TypeParts DEF HistType
<1>2. spent' \in Tally /\ spent'.own = spent.own
  BY <1>1, FaultTypes DEF PullReturns, PullThrows, NoFault
<1>3. Len(remote) \in 1..Len(remote) /\ Len(remote) \in Nat
  BY TreeTypes
<1>4. CASE UNCHANGED <<local, mishaps>>
  BY <1>1, <1>2, <1>4 DEF local, repo, RepoType
<1>5. CASE /\ seen' = Len(remote) \/ seen' = seen
           /\ UNCHANGED <<repo, mishaps>>
  <2>1. base \in 1..Len(remote) /\ seen \in base..Len(remote)
    BY <1>1 DEF RepoType
  <2>2. seen' \in base'..Len(remote')
    BY <1>3, <1>5, <2>1 DEF repo
  <2> QED BY <1>1, <1>2, <1>5, <2>2 DEF repo, RepoType
<1>6. CASE seen' = Len(remote) /\ Pulled
  <2>1. base' \in 1..Len(remote') /\ seen' \in base'..Len(remote')
    BY <1>3, <1>6, PulledType
  <2> QED BY <1>1, <1>2, <1>6, <2>1, PulledType DEF RepoType
<1> QED BY <1>4, <1>5, <1>6 DEF PullReturns, PullThrows

LEMMA BasesType ==
    ASSUME TypeOK, NEW P \in SUBSET Paths, NEW v \in Contents \cup {None}
    PROVE  Bases(P, v) \subseteq Paths \X (Contents \cup {None}) \X (Contents \cup {None})
<1>1. \A b \in based : b[2] \in Contents \cup {None}
  BY DEF TypeOK
<1>2. \A p \in Paths : work[p] \in Contents \cup {None}
  BY DEF TypeOK, Trees
<1>3. \A p \in Paths : Basis(p) \subseteq Contents \cup {None}
  BY <1>1, <1>2 DEF Basis
<1>4. ASSUME NEW b \in Bases(P, v) PROVE b \in Paths \X (Contents \cup {None}) \X (Contents \cup {None})
  <2>1. CASE b \in based
    BY <2>1 DEF TypeOK
  <2>2. CASE b \notin based
    <3>1. PICK p \in P : b \in {<<p, s, v>> : s \in Basis(p)}
      BY <2>2 DEF Bases
    <3>2. PICK s \in Basis(p) : b = <<p, s, v>>
      BY <3>1
    <3> QED BY <1>3, <3>2
  <2> QED BY <2>1, <2>2
<1> QED BY <1>4

(***************************************************************************)
(* The types and the control flow, action by action.                        *)
(***************************************************************************)

LEMMA WriteTyped ==
    ASSUME Typed, UNCHANGED refuses, NEW kind \in {"put", "batch"}, NEW P \in SUBSET Paths, Write(kind, P)
    PROVE  Typed' /\ op'.kind = kind /\ op'.paths = P /\ spent'.own = spent.own + 1
<1> USE DEF Typed
<1> DEFINE new == Mine(spent.own + 1)
<1>1. /\ RepoType /\ FlowType /\ HistType /\ refuses \in BOOLEAN /\ spent \in Tally
      /\ work \in Trees /\ Tip \in Trees
  BY TypeParts, TreeTypes DEF RepoType
<1>2. /\ spent.own + 1 \in 1..MaxOwn /\ spent' \in Tally /\ spent'.own = spent.own + 1
  BY <1>1, GitAssumption DEF Tally, Write
<1>3. new \in Contents
  BY <1>2, ContentTypes
<1>4. work' \in Trees
  BY <1>1, <1>3 DEF Trees, Write
<1>5. RepoType'
  BY <1>1, <1>4 DEF RepoType, Write
<1>6. op' \in Ops /\ op'.kind = kind /\ op'.paths = P
  BY <1>1, OperationType DEF Write, Begin, Kinds
<1>7. FlowType'
  BY <1>1, <1>6 DEF FlowType, Write, Places
<1>8. HistType'
  BY <1>1, <1>3, BasesType DEF HistType, Write
<1>9. Control'
  <2>1. tries' = 0
    BY DEF Control, Write
  <2> QED BY <1>2, <1>6, <2>1 DEF Control, Write, Storing, Aimed
<1> QED BY <1>1, <1>2, <1>5, <1>6, <1>7, <1>8, <1>9, TypePartsNext

LEMMA PutBatchFailsTyped ==
    ASSUME Typed, UNCHANGED refuses, NEW P \in SUBSET Paths, NEW Q \in SUBSET P, PutBatchFails(P, Q)
    PROVE  Typed' /\ ~Aimed'
<1> USE DEF Typed
<1> DEFINE new == Mine(spent.own + 1)
<1>1. /\ RepoType /\ FlowType /\ HistType /\ refuses \in BOOLEAN /\ spent \in Tally
      /\ work \in Trees /\ Tip \in Trees
  BY TypeParts, TreeTypes DEF RepoType
<1>2. spent.own + 1 \in 1..MaxOwn /\ spent' \in Tally
  <2>1. /\ spent.own < MaxOwn /\ spent.faults < MaxFaults
        /\ spent' = [spent EXCEPT !.own = @ + 1, !.faults = @ + 1]
    BY DEF PutBatchFails
  <2>2. spent.own \in 0..MaxOwn /\ spent.faults \in 0..MaxFaults /\ MaxOwn \in Nat /\ MaxFaults \in Nat
    BY <1>1, GitAssumption DEF Tally
  <2>3. spent.own + 1 \in 1..MaxOwn /\ spent.own + 1 \in 0..MaxOwn /\ spent.faults + 1 \in 0..MaxFaults
    BY <2>1, <2>2
  <2>4. spent' = [own |-> spent.own + 1, peers |-> spent.peers,
                  faults |-> spent.faults + 1, crashes |-> spent.crashes]
    BY <1>1, <2>1 DEF Tally
  <2>5. spent.peers \in 0..MaxPeer /\ spent.crashes \in 0..MaxCrashes
    BY <1>1 DEF Tally
  <2> QED BY <2>3, <2>4, <2>5 DEF Tally
<1>3. new \in Contents
  BY <1>2, ContentTypes
<1>4. work' \in Trees
  BY <1>1, <1>3 DEF Trees, PutBatchFails
<1>5. RepoType'
  BY <1>1, <1>4 DEF RepoType, PutBatchFails
<1>6. op' \in Ops /\ op'.kind = "none"
  <2>1. op' = [Operation("none", {}) EXCEPT !.res = "partial"]
    BY DEF PutBatchFails
  <2>2. {} \in SUBSET Paths /\ "none" \in Kinds /\ "partial" \in Results
    BY DEF Kinds, Results
  <2> QED BY <1>1, <2>1, <2>2, OperationType
<1>7. FlowType'
  BY <1>1, <1>6 DEF FlowType, PutBatchFails
<1>8. HistType'
  <2>1. Q \in SUBSET Paths
    OBVIOUS
  <2> QED BY <1>1, <1>3, <2>1, BasesType DEF HistType, PutBatchFails
<1>9. Control' /\ ~Aimed'
  BY <1>6 DEF Control, PutBatchFails, Storing, Aimed
<1> QED BY <1>1, <1>2, <1>5, <1>7, <1>8, <1>9, TypePartsNext

LEMMA DeleteTyped ==
    ASSUME Typed, UNCHANGED refuses, NEW p \in Paths, Delete(p)
    PROVE  Typed' /\ ~Storing'
<1> USE DEF Typed
<1>1. /\ RepoType /\ FlowType /\ HistType /\ refuses \in BOOLEAN /\ spent \in Tally
      /\ work \in Trees /\ Tip \in Trees /\ index \in Trees /\ unmerged \subseteq Paths
  BY TypeParts, TreeTypes DEF RepoType
<1>2. spent' \in Tally
  BY <1>1, GitAssumption DEF Tally, Delete
<1>3. work' \in Trees
  BY <1>1 DEF Trees, Delete
<1>4. index' \in Trees /\ unmerged' \subseteq Paths
  BY <1>1 DEF Trees, Delete
<1>5. RepoType'
  BY <1>1, <1>3, <1>4 DEF RepoType, Delete
<1>6. op' \in Ops /\ op'.kind = "delete"
  BY <1>1, OperationType DEF Delete, Begin, Kinds
<1>7. FlowType'
  BY <1>1, <1>6 DEF FlowType, Delete, Places
<1>8. HistType'
  <2>1. {p} \in SUBSET Paths
    OBVIOUS
  <2> QED BY <1>1, <2>1, BasesType DEF HistType, Delete
<1>9. Control' /\ ~Storing'
  BY <1>6 DEF Control, Delete, Storing, Aimed
<1> QED BY <1>1, <1>2, <1>5, <1>7, <1>8, <1>9, TypePartsNext

(* Steps that leave the remote and the history alone: the calls of sync and *)
(* init, and ...                                                            *)
LEMMA CallTyped ==
    ASSUME Typed, UNCHANGED refuses, BeginSync \/ Start
    PROVE  Typed' /\ ~Aimed'
<1> USE DEF Typed
<1>1. /\ RepoType /\ FlowType /\ HistType /\ refuses \in BOOLEAN /\ spent \in Tally
      /\ work \in Trees /\ Tip \in Trees
  BY TypeParts, TreeTypes DEF RepoType
<1>2. UNCHANGED <<remote, local, tries, hist, spent>>
  BY DEF BeginSync, Start
<1>3. op' \in Ops /\ op'.kind \in {"sync", "init"} /\ pc' = "sync" /\ pc \notin {"push", "pull", "failed"}
  BY <1>1, OperationType DEF BeginSync, Start, Begin, Kinds
<1>4. FlowType'
  BY <1>1, <1>2, <1>3 DEF FlowType, Places
<1>5. Control' /\ ~Aimed'
  BY <1>2, <1>3 DEF Control, Storing, Aimed
<1>6. RepoType' /\ HistType'
  BY <1>1, <1>2 DEF RepoType, HistType, local, repo, hist
<1> QED BY <1>1, <1>2, <1>4, <1>5, <1>6, TypePartsNext

LEMMA CrashTyped ==
    ASSUME Typed, UNCHANGED refuses, Crash
    PROVE  Typed' /\ ~Aimed'
<1> USE DEF Typed
<1>1. /\ RepoType /\ FlowType /\ HistType /\ refuses \in BOOLEAN /\ spent \in Tally
      /\ work \in Trees /\ Tip \in Trees
  BY TypeParts, TreeTypes DEF RepoType
<1>2. spent' \in Tally
  BY <1>1, GitAssumption DEF Tally, Crash
<1>3. op' \in Ops /\ op'.kind = "none" /\ pc' = "down" /\ tries' = 0
  BY <1>1, OperationType DEF Crash, Begin, Kinds
<1>4. FlowType' /\ Control' /\ ~Aimed'
  BY <1>3, GitAssumption DEF FlowType, Places, Control, Storing, Aimed
<1>5. RepoType' /\ HistType'
  BY <1>1 DEF RepoType, HistType, Crash, local, repo, hist
<1> QED BY <1>1, <1>2, <1>4, <1>5, TypePartsNext

LEMMA AddTyped ==
    ASSUME Typed, UNCHANGED refuses, Add
    PROVE  Typed'
<1> USE DEF Typed
<1>1. /\ RepoType /\ FlowType /\ HistType /\ refuses \in BOOLEAN /\ spent \in Tally
      /\ work \in Trees /\ index \in Trees
  BY TypeParts DEF RepoType
<1>2. index' \in Trees /\ unmerged' \subseteq Paths
  BY <1>1, OverType DEF Add, RepoType
<1>3. RepoType' /\ HistType'
  BY <1>1, <1>2 DEF Add, RepoType, HistType, hist
<1>4. FlowType' /\ Control'
  BY <1>1 DEF Add, FlowType, Control, Storing, Aimed, Places
<1> QED BY <1>1, <1>3, <1>4, TypePartsNext DEF Add

Commits == /\ pc' = "push" /\ op' = [op EXCEPT !.made = index # Tip]
           /\ op'.kind = op.kind /\ op'.paths = op.paths
           /\ ahead' = IF index = Tip THEN ahead ELSE Append(ahead, index)

LEMMA CommitTyped ==
    ASSUME Typed, UNCHANGED refuses, Commit
    PROVE  Typed' /\ (Aimed' => Commits)
<1> USE DEF Typed
<1>1. /\ RepoType /\ FlowType /\ HistType /\ refuses \in BOOLEAN /\ spent \in Tally /\ index \in Trees
  BY TypeParts DEF RepoType
<1>2. ahead' \in Seq(Trees)
  BY <1>1, AppendProperties DEF Commit, RepoType
<1>3. mishaps' \subseteq mishaps \cup {"swept"}
  BY DEF Commit
<1>4. RepoType' /\ HistType'
  BY <1>1, <1>2, <1>3 DEF Commit, RepoType, HistType
<1>5. CASE \E res \in Results : Return(res)
  BY <1>1, <1>4, <1>5, ReturnTypes, TypePartsNext DEF Commit
<1>6. CASE /\ pc' = "push" /\ op' = [op EXCEPT !.made = index # Tip] /\ UNCHANGED tries
           /\ ahead' = IF index = Tip THEN ahead ELSE Append(ahead, index)
  <2>0. op' \in Ops /\ op'.kind = op.kind /\ op'.paths = op.paths
    BY <1>1, <1>6 DEF FlowType, Ops
  <2>1. FlowType'
    BY <1>1, <1>6, <2>0 DEF FlowType, Places
  <2>2. Control'
    BY <1>6, <2>0, GitAssumption DEF Commit, Control, Storing, Aimed
  <2> QED BY <1>1, <1>4, <1>6, <2>0, <2>1, <2>2, TypePartsNext DEF Commit, Commits
<1>7. "ok" \in Results /\ "refused" \in Results
  BY DEF Results
<1> QED BY <1>5, <1>6, <1>7 DEF Commit

(* What is on the remote or committed here when a push is made.             *)
LEMMA Concatenated ==
    ASSUME RepoType
    PROVE  /\ remote \o ahead \in Seq(Trees) /\ Len(remote \o ahead) = Len(remote) + Len(ahead)
           /\ \A i \in 1..Len(remote) : (remote \o ahead)[i] = remote[i]
           /\ \A k \in 1..Len(ahead) : (remote \o ahead)[Len(remote) + k] = ahead[k]
           /\ Len(remote) \in Nat \ {0} /\ Len(ahead) \in Nat
           /\ \A i \in 1..Len(remote) : i \in 1..Len(remote \o ahead)
           /\ \A k \in 1..Len(ahead) : Len(remote) + k \in 1..Len(remote \o ahead)
<1>1. remote \in Seq(Trees) /\ ahead \in Seq(Trees) /\ remote # <<>>
  BY DEF RepoType
<1>2. Len(remote) \in Nat \ {0} /\ Len(ahead) \in Nat
  BY <1>1, LenProperties, EmptySeq
<1>3. /\ remote \o ahead \in Seq(Trees) /\ Len(remote \o ahead) = Len(remote) + Len(ahead)
      /\ \A i \in 1..(Len(remote) + Len(ahead)) : (remote \o ahead)[i] =
            IF i <= Len(remote) THEN remote[i] ELSE ahead[i - Len(remote)]
  BY <1>1, ConcatProperties
<1>4. ASSUME NEW k \in 1..Len(ahead)
      PROVE  Len(remote) + k \in 1..(Len(remote) + Len(ahead)) /\ (remote \o ahead)[Len(remote) + k] = ahead[k]
  <2>1. /\ Len(remote) + k \in 1..(Len(remote) + Len(ahead)) /\ ~(Len(remote) + k <= Len(remote))
        /\ (Len(remote) + k) - Len(remote) = k
    BY <1>2
  <2> QED BY <1>3, <2>1
<1>5. \A i \in 1..Len(remote) : i \in 1..(Len(remote) + Len(ahead)) /\ i <= Len(remote)
  BY <1>2
<1> QED BY <1>2, <1>3, <1>4, <1>5

LEMMA PushAcceptedTyped ==
    ASSUME Typed, UNCHANGED refuses, PushAccepted
    PROVE  Typed' /\ ~Aimed'
<1> USE DEF Typed
<1>1. /\ RepoType /\ FlowType /\ HistType /\ refuses \in BOOLEAN /\ spent \in Tally
  BY TypeParts
<1>2. /\ remote' \in Seq(Trees) /\ Len(remote') \in Nat \ {0}
  BY <1>1, Concatenated DEF PushAccepted, Pushed
<1>3. ahead' = <<>> /\ base' = Len(remote') /\ seen' = base'
  BY DEF PushAccepted, Pushed
<1>4. remote' # <<>> /\ <<>> \in Seq(Trees) /\ base' \in 1..Len(remote') /\ seen' \in base'..Len(remote')
  BY <1>2, <1>3, EmptySeq
<1>5. RepoType'
  BY <1>1, <1>2, <1>3, <1>4 DEF RepoType, PushAccepted
<1>6. Acks \subseteq Paths \X Contents
  <2>1. Storing => Mine(spent.own) \in Contents
    BY ContentTypes DEF Control
  <2>2. op.paths \subseteq Paths
    BY <1>1 DEF FlowType, Ops
  <2> QED BY <2>1, <2>2 DEF Acks, Storing, Aimed
<1>7. HistType'
  BY <1>1, <1>6 DEF HistType, PushAccepted
<1>8. FlowType' /\ Control' /\ ~Aimed'
  BY ReturnTypes DEF PushAccepted, Results
<1> QED BY <1>1, <1>5, <1>7, <1>8, TypePartsNext DEF PushAccepted

LEMMA PushFailsTyped ==
    ASSUME Typed, UNCHANGED refuses, PushFails
    PROVE  /\ Typed' /\ UNCHANGED <<ahead, op, acked>> /\ spent'.own = spent.own
           /\ remote' = remote \/ remote' = remote \o ahead
           /\ pc = "push" /\ pc' \in {"failed", "pull"}
<1> USE DEF Typed
<1>1. /\ RepoType /\ FlowType /\ HistType /\ refuses \in BOOLEAN /\ spent \in Tally
  BY TypeParts
<1>2. remote' = remote \/ remote' = remote \o ahead
  BY DEF PushFails
<1>3. remote' \in Seq(Trees) /\ Len(remote') \in Nat \ {0} /\ Len(remote') >= Len(remote) /\ Len(remote) \in Nat
  <2>1. /\ remote \o ahead \in Seq(Trees) /\ Len(remote \o ahead) = Len(remote) + Len(ahead)
        /\ Len(remote) \in Nat \ {0} /\ Len(ahead) \in Nat
    BY <1>1, Concatenated
  <2>2. remote \in Seq(Trees)
    BY <1>1 DEF RepoType
  <2>3. CASE remote' = remote
    BY <2>1, <2>2, <2>3
  <2>4. CASE remote' = remote \o ahead
    <3>1. Len(remote') = Len(remote) + Len(ahead)
      BY <2>1, <2>4
    <3>2. remote' \in Seq(Trees)
      BY <2>1, <2>4
    <3> QED BY <2>1, <3>1, <3>2
  <2> QED BY <1>2, <2>3, <2>4
<1>4. spent' \in Tally /\ spent'.own = spent.own
  BY <1>1, FaultTypes DEF PushFails, NoFault
<1>5. RepoType'
  <2>1. base \in 1..Len(remote) /\ seen \in base..Len(remote)
    BY <1>1 DEF RepoType
  <2>2. base \in 1..Len(remote') /\ seen \in base..Len(remote')
    BY <1>3, <2>1
  <2>3. remote' # <<>>
    BY <1>3, EmptySeq
  <2> QED BY <1>1, <1>3, <2>2, <2>3 DEF RepoType, PushFails, local, repo
<1>6. /\ pc = "push" /\ tries < MaxAttempts /\ tries \in 0..MaxAttempts /\ tries' = tries + 1
      /\ pc' = IF tries + 1 = MaxAttempts THEN "failed" ELSE "pull"
      /\ UNCHANGED op
  BY <1>1 DEF PushFails, Retry, Control, FlowType
<1>7. tries' \in 0..MaxAttempts /\ (pc' = "pull" => tries' < MaxAttempts)
  BY <1>6, GitAssumption
<1>8. FlowType'
  BY <1>1, <1>6, <1>7 DEF FlowType, Places
<1>9. Control'
  BY <1>4, <1>6, <1>7 DEF Control, Storing, Aimed
<1> QED BY <1>1, <1>2, <1>4, <1>5, <1>6, <1>8, <1>9, TypePartsNext
        DEF PushFails, HistType, hist, local, repo

LEMMA RetryPullTyped ==
    ASSUME Typed, UNCHANGED refuses, RetryPull
    PROVE  /\ Typed' /\ UNCHANGED <<remote, acked>> /\ spent'.own = spent.own
           /\ pc = "pull" /\ op'.kind = op.kind /\ op'.paths = op.paths
           /\ \/ pc' = "failed"
              \/ pc' = "push" /\ (UNCHANGED <<local, mishaps>> \/ UNCHANGED repo \/ Pulled)
<1> USE DEF Typed
<1>1. /\ RepoType /\ FlowType /\ HistType /\ refuses \in BOOLEAN /\ spent \in Tally
  BY TypeParts
<1>2. /\ RepoType' /\ spent' \in Tally /\ spent'.own = spent.own
      /\ mishaps' \subseteq {"unmerged", "passed", "swept", "foreign", "shouted"}
  BY PullTypes DEF RetryPull
<1>3. HistType'
  BY <1>1, <1>2 DEF RetryPull, HistType
<1>4. CASE \E found \in BOOLEAN : PullReturns(found) /\ pc' = "push" /\ Rebases
  <2>0. op' \in Ops /\ op'.kind = op.kind /\ op'.paths = op.paths
    BY <1>1, <1>4 DEF Rebases, FlowType, Ops
  <2>1. FlowType' /\ Control'
    BY <1>1, <1>2, <1>4, <2>0 DEF RetryPull, FlowType, Places, Control, Storing, Aimed
  <2>2. UNCHANGED <<local, mishaps>> \/ UNCHANGED repo \/ Pulled
    BY <1>4 DEF PullReturns
  <2> QED BY <1>1, <1>2, <1>3, <1>4, <2>0, <2>1, <2>2, TypePartsNext DEF RetryPull
<1>5. CASE \E paths \in {{}, Conflicting} :
             PullThrows(paths) /\ pc' = "failed" /\ op' = [op EXCEPT !.err = paths]
  <2>1. PICK paths \in {{}, Conflicting} : op' = [op EXCEPT !.err = paths]
    BY <1>5
  <2>2. paths \subseteq Paths
    BY ConflictingType
  <2>3. op' \in Ops /\ op'.kind = op.kind /\ op'.paths = op.paths
    BY <1>1, <2>1, <2>2 DEF FlowType, Ops
  <2>4. FlowType' /\ Control'
    BY <1>1, <1>2, <1>5, <2>3 DEF RetryPull, FlowType, Places, Control, Storing, Aimed
  <2> QED BY <1>1, <1>2, <1>3, <1>5, <2>3, <2>4, TypePartsNext DEF RetryPull
<1> QED BY <1>4, <1>5 DEF RetryPull

LEMMA FrontType ==
    ASSUME TypeOK
    PROVE  Front(ahead) \in Seq(Trees)
<1>1. Len(ahead) \in Nat /\ \A k \in 1..Len(ahead) : ahead[k] \in Trees
  BY TreeTypes
<1>2. Front(ahead) = SubSeq(ahead, 1, Len(ahead) - 1)
  BY DEF Front
<1>3. CASE ahead = <<>>
  <2>1. Len(ahead) - 1 = -1
    BY <1>3, EmptySeq
  <2>2. Front(ahead) = [i \in 1..0 |-> ahead[i]]
    BY <1>2, <1>3, <2>1, SubSeqEmpty, EmptySeq
  <2> QED BY <2>2, IsASeq
<1>4. CASE ahead # <<>>
  <2>1. Len(ahead) \in Nat \ {0} /\ ahead \in Seq(Trees)
    BY <1>1, <1>4, EmptySeq DEF TypeOK
  <2>2. 1 \in 1..(Len(ahead) + 1) /\ Len(ahead) - 1 \in 0..Len(ahead)
    BY <2>1
  <2> QED BY <1>2, <2>1, <2>2, SubSeqProperties
<1> QED BY <1>3, <1>4

LEMMA UndoTyped ==
    ASSUME Typed, UNCHANGED refuses, Undo
    PROVE  Typed' /\ ~Aimed'
<1> USE DEF Typed
<1>1. /\ RepoType /\ FlowType /\ HistType /\ refuses \in BOOLEAN /\ spent \in Tally
      /\ Parent \in Trees /\ remote[seen] \in Trees /\ work \in Trees
  BY TypeParts, TreeTypes DEF RepoType
<1>2. PICK p \in op.paths : p = CHOOSE q \in op.paths : TRUE
  BY DEF Undo
<1>3. p \in Paths
  BY <1>1, <1>2 DEF FlowType, Ops
<1> DEFINE there == remote[seen][p] # None
<1>4. /\ ahead' = Front(ahead)
      /\ index' = IF there THEN [Parent EXCEPT ![p] = remote[seen][p]] ELSE Parent
      /\ work'  = IF there THEN [work EXCEPT ![p] = remote[seen][p]] ELSE work
      /\ Return(IF there THEN "stale" ELSE "refused")
      /\ UNCHANGED <<remote, seen, base, unmerged, hist, spent>>
  BY <1>2 DEF Undo
<1>5. index' \in Trees /\ work' \in Trees
  BY <1>1, <1>3, <1>4 DEF Trees
<1>6. RepoType' /\ HistType'
  BY <1>1, <1>4, <1>5, FrontType DEF RepoType, HistType, hist
<1>7. \E res \in Results : Return(res)
  BY <1>4 DEF Results
<1>8. FlowType' /\ Control' /\ ~Aimed'
  BY <1>7, ReturnTypes
<1> QED BY <1>1, <1>4, <1>6, <1>8, TypePartsNext

LEMMA RollbackTyped ==
    ASSUME Typed, UNCHANGED refuses, Rollback \/ GiveUp
    PROVE  Typed' /\ ~Aimed'
<1> USE DEF Typed
<1>1. /\ RepoType /\ FlowType /\ HistType /\ refuses \in BOOLEAN /\ spent \in Tally
      /\ Parent \in Trees /\ work \in Trees
  BY TypeParts, TreeTypes DEF RepoType
<1>2. /\ UNCHANGED <<remote, seen, base, unmerged, based, acked, spent>> /\ Return("failed")
  BY DEF Rollback, GiveUp, local, repo, hist
<1>3. \/ /\ ahead' = Append(ahead, Parent) /\ index' = Parent
         /\ work' = Over(work, Parent, Differ(Parent, Tip))
      \/ UNCHANGED <<ahead, index, work>>
  BY DEF Rollback, GiveUp, local, repo
<1>4. mishaps' \subseteq mishaps \cup {"foreign", "shouted"}
  BY DEF Rollback, GiveUp, hist
<1>5. ahead' \in Seq(Trees) /\ index' \in Trees /\ work' \in Trees
  <2>1. ahead \in Seq(Trees) /\ index \in Trees
    BY <1>1 DEF RepoType
  <2>2. Append(ahead, Parent) \in Seq(Trees)
    BY <1>1, <2>1, AppendProperties
  <2>3. Over(work, Parent, Differ(Parent, Tip)) \in Trees
    BY <1>1, OverType
  <2> QED BY <1>1, <1>3, <2>1, <2>2, <2>3
<1>6. RepoType' /\ HistType'
  BY <1>1, <1>2, <1>4, <1>5 DEF RepoType, HistType
<1>7. FlowType' /\ Control' /\ ~Aimed'
  BY <1>2, ReturnTypes DEF Results
<1> QED BY <1>1, <1>2, <1>6, <1>7, TypePartsNext

LEMMA SyncPullTyped ==
    ASSUME Typed, UNCHANGED refuses, SyncPull
    PROVE  Typed' /\ ~Aimed'
<1> USE DEF Typed
<1>1. /\ RepoType /\ FlowType /\ HistType /\ refuses \in BOOLEAN /\ spent \in Tally /\ ~Aimed
  BY TypeParts DEF SyncPull, Control
<1>2. /\ RepoType' /\ spent' \in Tally
      /\ mishaps' \subseteq {"unmerged", "passed", "swept", "foreign", "shouted"}
  BY PullTypes DEF SyncPull
<1>3. HistType'
  BY <1>1, <1>2 DEF SyncPull, HistType
<1>4. CASE pc' = "reconcile" /\ UNCHANGED <<op, tries>>
  BY <1>1, <1>2, <1>3, <1>4, TypePartsNext DEF SyncPull, FlowType, Places, Control, Storing, Aimed
<1>5. CASE \E res \in Results : Return(res)
  BY <1>1, <1>2, <1>3, <1>5, ReturnTypes, TypePartsNext
<1>6. "ok" \in Results /\ "failed" \in Results
  BY DEF Results
<1> QED BY <1>4, <1>5, <1>6 DEF SyncPull

LEMMA ReconcileTyped ==
    ASSUME Typed, UNCHANGED refuses, Reconcile
    PROVE  Typed' /\ ~Aimed'
<1> USE DEF Typed
<1>1. /\ RepoType /\ FlowType /\ HistType /\ refuses \in BOOLEAN /\ spent \in Tally /\ ~Aimed
      /\ work \in Trees /\ index \in Trees /\ tries = 0
  BY TypeParts DEF Reconcile, Control, RepoType
<1>2. index' \in Trees
  BY <1>1, OverType DEF Reconcile
<1>3. RepoType' /\ HistType'
  BY <1>1, <1>2 DEF Reconcile, RepoType, HistType, hist
<1>4. CASE pc' = "commit" /\ UNCHANGED <<op, tries>>
  BY <1>1, <1>3, <1>4, TypePartsNext DEF Reconcile, FlowType, Places, Control, Storing, Aimed
<1>5. CASE op' = [op EXCEPT !.undo = FALSE] /\ pc' = "push" /\ UNCHANGED tries
  <2>1. op' \in Ops /\ op'.kind = op.kind
    BY <1>1, <1>5 DEF FlowType, Ops
  <2> QED BY <1>1, <1>3, <1>5, <2>1, GitAssumption, TypePartsNext
          DEF Reconcile, FlowType, Places, Control, Storing, Aimed
<1>6. CASE Return("ok")
  BY <1>1, <1>3, <1>6, ReturnTypes, TypePartsNext DEF Reconcile, Results
<1> QED BY <1>4, <1>5, <1>6 DEF Reconcile

LEMMA RecoverTyped ==
    ASSUME Typed, UNCHANGED refuses, Recover
    PROVE  Typed' /\ ~Aimed'
<1> USE DEF Typed
<1>1. /\ RepoType /\ FlowType /\ HistType /\ refuses \in BOOLEAN /\ spent \in Tally
      /\ work \in Trees /\ index \in Trees /\ Tip \in Trees /\ tries = 0
  BY TypeParts, TreeTypes DEF Recover, Control, RepoType
<1>2. index' \in Trees
  BY <1>1, OverType DEF Recover
<1>3. RepoType' /\ HistType'
  BY <1>1, <1>2 DEF Recover, RepoType, HistType, hist
<1>4. PICK push \in BOOLEAN :
         op' = [Operation("recover", {}) EXCEPT !.undo = FALSE, !.push = push]
  <2>1. (Ahead # <<>> \/ Dirty # {}) \in BOOLEAN
    OBVIOUS
  <2> QED BY <2>1 DEF Recover
<1>5. Operation("recover", {}) \in Ops /\ Operation("recover", {}).kind = "recover"
  BY <1>1, OperationType DEF Kinds
<1>6. op' \in Ops /\ op'.kind = "recover"
  BY <1>4, <1>5 DEF Ops
<1>7. FlowType' /\ Control' /\ ~Aimed'
  BY <1>1, <1>6 DEF Recover, FlowType, Places, Control, Storing, Aimed
<1> QED BY <1>1, <1>3, <1>7, TypePartsNext DEF Recover

LEMMA CommitLeftTyped ==
    ASSUME Typed, UNCHANGED refuses, CommitLeft
    PROVE  Typed' /\ ~Aimed'
<1> USE DEF Typed
<1>1. /\ RepoType /\ FlowType /\ HistType /\ refuses \in BOOLEAN /\ spent \in Tally
      /\ index \in Trees /\ tries = 0 /\ ~Aimed
  BY TypeParts DEF CommitLeft, Control, RepoType
<1>2. ahead' \in Seq(Trees)
  <2>1. ahead \in Seq(Trees)
    BY <1>1 DEF RepoType
  <2>2. Append(ahead, index) \in Seq(Trees)
    BY <1>1, <2>1, AppendProperties
  <2> QED BY <2>1, <2>2 DEF CommitLeft
<1>3. RepoType' /\ HistType'
  BY <1>1, <1>2 DEF CommitLeft, RepoType, HistType, hist
<1>4. CASE pc' = "push" /\ UNCHANGED <<op, tries>>
  BY <1>1, <1>3, <1>4, GitAssumption, TypePartsNext DEF CommitLeft, FlowType, Places, Control, Storing, Aimed
<1>5. CASE Return("ok") \/ Return("refused")
  BY <1>1, <1>3, <1>5, ReturnTypes, TypePartsNext DEF CommitLeft, Results
<1> QED BY <1>4, <1>5 DEF CommitLeft

LEMMA PeerPushTyped ==
    ASSUME Typed, UNCHANGED refuses, NEW p \in Paths, PeerPush(p)
    PROVE  /\ Typed' /\ UNCHANGED <<local, pc, op, acked>> /\ spent'.own = spent.own
           /\ \E t \in Trees : remote' = Append(remote, t)
<1> USE DEF Typed
<1>1. /\ RepoType /\ FlowType /\ HistType /\ refuses \in BOOLEAN /\ spent \in Tally /\ Origin \in Trees
  BY TypeParts, TreeTypes
<1>2. /\ spent' \in Tally /\ spent'.own = spent.own /\ spent.peers + 1 \in 0..MaxPeer
  <2>1. spent.peers < MaxPeer /\ spent' = [spent EXCEPT !.peers = @ + 1]
    BY DEF PeerPush
  <2>2. spent.peers \in 0..MaxPeer /\ MaxPeer \in Nat
    BY <1>1, GitAssumption DEF Tally
  <2>3. spent.peers + 1 \in 0..MaxPeer
    BY <2>1, <2>2
  <2> QED BY <1>1, <2>1, <2>3 DEF Tally
<1>3. Peers(spent.peers + 1) \in Contents
  BY <1>2, ContentTypes
<1>4. PICK t \in Trees : remote' = Append(remote, t)
  <2>1. [Origin EXCEPT ![p] = Peers(spent.peers + 1)] \in Trees /\ [Origin EXCEPT ![p] = None] \in Trees
    BY <1>1, <1>3 DEF Trees
  <2> QED BY <2>1 DEF PeerPush
<1>5. remote \in Seq(Trees) /\ base \in 1..Len(remote) /\ seen \in base..Len(remote)
  BY <1>1 DEF RepoType
<1>6. remote' \in Seq(Trees) /\ Len(remote') = Len(remote) + 1 /\ Len(remote) \in Nat /\ Len(remote') \in Nat
  BY <1>4, <1>5, AppendProperties, LenProperties
<1>7. remote' # <<>> /\ base \in 1..Len(remote') /\ seen \in base..Len(remote')
  BY <1>5, <1>6, EmptySeq
<1>8. RepoType'
  BY <1>1, <1>6, <1>7 DEF PeerPush, RepoType, local, repo
<1>9. FlowType' /\ HistType' /\ Control'
  BY <1>1, <1>2 DEF PeerPush, FlowType, HistType, Control, Storing, Aimed, hist
<1> QED BY <1>1, <1>2, <1>4, <1>8, <1>9, TypePartsNext DEF PeerPush, hist

(***************************************************************************)
(* A write that was committed stays in a commit or is on the remote.        *)
(***************************************************************************)

LEMMA PulledStored ==
    ASSUME TypeOK, Pulled, remote' = remote, spent'.own = spent.own, NEW p \in Paths, Stored(p)
    PROVE  Stored(p)'
<1> DEFINE new == Mine(spent.own)
           Holds == {k \in 1..Len(ahead) : ahead[k][p] = new}
<1>1. /\ Len(ahead) \in Nat /\ Landed \in 0..Len(ahead) /\ Landed \in Nat
      /\ Len(remote) \in Nat \ {0} /\ base \in 1..Len(remote) /\ base + Landed <= Len(remote)
      /\ \A j \in 1..Landed : remote[base + j] = ahead[j]
  BY TreeTypes, LandedIs
<1>2. ahead' = Replayed /\ remote' = remote /\ spent'.own = spent.own
  BY DEF Pulled
<1>3. SUFFICES ASSUME \A i \in 1..Len(remote) : remote[i][p] # new
               PROVE  \E i \in 1..Len(Replayed) : Replayed[i][p] = new
  BY <1>2 DEF Stored
<1>4. Holds # {} /\ Holds \in SUBSET Nat
  <2>1. PICK k \in 1..Len(ahead) : ahead[k][p] = new
    BY <1>3 DEF Stored
  <2>2. \A i \in 1..Len(ahead) : i \in Nat
    BY <1>1
  <2> QED BY <2>1, <2>2
<1>5. PICK k \in Holds : \A j \in Holds : k <= j
  BY <1>4, LeastNatural
<1>6. k \in 1..Len(ahead) /\ ahead[k][p] = new /\ k \in Nat
  BY <1>5
<1>7. ~(k <= Landed)
  <2>1. ASSUME k <= Landed PROVE FALSE
    <3>1. k \in 1..Landed /\ base + k \in 1..Len(remote)
      BY <1>1, <1>6, <2>1
    <3>2. remote[base + k] = ahead[k]
      BY <1>1, <3>1
    <3> QED BY <1>3, <1>6, <3>1, <3>2
  <2> QED BY <2>1
<1>8. Before(k)[p] # new
  <2>1. CASE k = 1
    BY <1>1, <1>3, <2>1 DEF Before
  <2>2. CASE k # 1
    <3>1. k - 1 \in 1..Len(ahead) /\ ~(k <= k - 1)
      BY <1>6, <2>2
    <3>2. k - 1 \notin Holds
      BY <1>5, <3>1
    <3> QED BY <2>2, <3>1, <3>2 DEF Before
  <2> QED BY <2>1, <2>2
<1>9. k \in (Landed + 1)..k /\ p \in Change(k) /\ k \in Landed..Len(ahead)
  BY <1>1, <1>6, <1>7, <1>8 DEF Change, Differ
<1>10. Rebased(k)[p] = new
  BY <1>6, <1>9 DEF Rebased
<1>11. Origin[p] # new
  BY <1>1, <1>3 DEF Origin, Last
<1> QED BY <1>9, <1>10, <1>11, RebasedIsThere

LEMMA PushedStored ==
    ASSUME RepoType, NEW p, Stored(p), UNCHANGED spent,
           remote' = remote \o ahead
    PROVE  \E i \in 1..Len(remote') : remote'[i][p] = Mine(spent.own)
<1>1. CASE \E i \in 1..Len(remote) : remote[i][p] = Mine(spent.own)
  BY <1>1, Concatenated
<1>2. CASE \E k \in 1..Len(ahead) : ahead[k][p] = Mine(spent.own)
  BY <1>2, Concatenated
<1> QED BY <1>1, <1>2 DEF Stored

(* The remote only grows.                                                   *)
LEMMA RemoteGrows ==
    ASSUME RepoType, remote' = remote \/ remote' = remote \o ahead \/ \E t \in Trees : remote' = Append(remote, t)
    PROVE  \A i \in 1..Len(remote) : i \in 1..Len(remote') /\ remote'[i] = remote[i]
<1>1. remote \in Seq(Trees) /\ Len(remote) \in Nat
  BY LenProperties DEF RepoType
<1>2. CASE remote' = remote
  BY <1>2
<1>3. CASE remote' = remote \o ahead
  BY <1>3, Concatenated
<1>4. CASE \E t \in Trees : remote' = Append(remote, t)
  BY <1>1, <1>4, AppendProperties
<1> QED BY <1>2, <1>3, <1>4

LEMMA AckedKept ==
    ASSUME AckedIsPushed, acked' = acked,
           \A i \in 1..Len(remote) : i \in 1..Len(remote') /\ remote'[i] = remote[i]
    PROVE  AckedIsPushed'
BY DEF AckedIsPushed

(***************************************************************************)
(* The invariant                                                            *)
(***************************************************************************)

LEMMA InitIInv == Init => IInv
<1> SUFFICES ASSUME Init PROVE IInv
  OBVIOUS
<1>1. PICK E \in {{}, Existing} : remote = <<[p \in Paths |-> IF p \in E THEN Peers(0) ELSE None]>>
  BY DEF Init
<1> DEFINE t == [p \in Paths |-> IF p \in E THEN Peers(0) ELSE None]
<1>2. t \in Trees
  BY GitAssumption, ContentTypes DEF Trees
<1> HIDE DEF t
<1>3. remote = <<t>> /\ remote \in Seq(Trees) /\ Len(remote) = 1 /\ remote[1] = t /\ remote # <<>>
  BY <1>1, <1>2 DEF t
<1>4. RepoType
  BY <1>2, <1>3, EmptySeq DEF Init, RepoType
<1>5. Tip \in Trees /\ work \in Trees
  BY <1>2, <1>3 DEF Init, Tip
<1>6. op \in Ops /\ op.kind = "none"
  BY <1>5, OperationType DEF Init, Kinds
<1>7. FlowType
  BY <1>6, GitAssumption DEF Init, FlowType, Places
<1>8. HistType /\ refuses \in BOOLEAN /\ spent \in Tally
  BY GitAssumption DEF Init, HistType, Tally
<1>9. Control /\ Carried /\ AckedIsPushed
  BY <1>6 DEF Init, Control, Carried, Storing, Aimed, AckedIsPushed
<1> QED BY <1>4, <1>7, <1>8, <1>9, TypeParts DEF IInv, Typed

LEMMA PutIInv ==
    ASSUME IInv, UNCHANGED refuses, NEW kind \in {"put", "batch"}, NEW P \in SUBSET Paths, Write(kind, P)
    PROVE  IInv'
<1>1. Typed' /\ op'.paths = P /\ spent'.own = spent.own + 1
  BY WriteTyped DEF IInv
<1>2. \A p \in P : work'[p] = Mine(spent'.own)
  BY <1>1 DEF Write
<1>3. Carried'
  BY <1>1, <1>2 DEF Carried, Write
<1>4. AckedIsPushed'
  BY DEF IInv, AckedIsPushed, Write
<1> QED BY <1>1, <1>3, <1>4 DEF IInv

LEMMA AddIInv == IInv /\ Add /\ UNCHANGED refuses => IInv'
<1> SUFFICES ASSUME IInv, Add, UNCHANGED refuses PROVE IInv'
  OBVIOUS
<1>1. Typed'
  BY AddTyped DEF IInv
<1>2. AckedIsPushed'
  BY DEF IInv, AckedIsPushed, Add, hist
<1>3. op.paths \subseteq Paths
  BY TypeParts DEF IInv, Typed, FlowType, Ops
<1>4. ASSUME Storing, NEW p \in op.paths PROVE index'[p] = Mine(spent.own)
  <2>1. work[p] = Mine(spent.own)
    BY <1>4 DEF IInv, Carried, Add
  <2> QED BY <1>3, <2>1 DEF Add, Over
<1>5. Carried'
  BY <1>4 DEF Add, Carried, Storing
<1> QED BY <1>1, <1>2, <1>5 DEF IInv

LEMMA CommitIInv == IInv /\ Commit /\ UNCHANGED refuses => IInv'
<1> SUFFICES ASSUME IInv, Commit, UNCHANGED refuses PROVE IInv'
  OBVIOUS
<1>1. Typed' /\ (Aimed' => Commits)
  BY CommitTyped DEF IInv
<1>2. Storing' => Aimed'
  BY DEF Aimed
<1>3. AckedIsPushed'
  BY DEF IInv, AckedIsPushed, Commit
<1>4. ASSUME Storing', NEW p \in op.paths PROVE Stored(p)'
  <2>1. index[p] = Mine(spent.own) /\ UNCHANGED <<remote, spent, base>>
    <3>1. Storing /\ pc = "commit"
      <4>1. op'.kind = op.kind
        BY <1>2, <1>1, <1>4 DEF Commits
      <4>2. pc = "commit"
        BY DEF Commit
      <4> QED BY <1>4, <4>1, <4>2 DEF Storing
    <3>2. UNCHANGED <<remote, spent, base>>
      BY DEF Commit
    <3> QED BY <1>4, <3>1, <3>2 DEF IInv, Carried
  <2>2. ahead \in Seq(Trees) /\ Len(ahead) \in Nat /\ base \in 1..Len(remote)
    BY LenProperties, TypeParts DEF IInv, Typed, RepoType
  <2>3. CASE ahead' = Append(ahead, index)
    <3>1. Len(ahead') \in 1..Len(ahead') /\ ahead'[Len(ahead')] = index
      <4>1. index \in Trees
        BY TypeParts DEF IInv, Typed, RepoType
      <4> QED BY <2>2, <2>3, <4>1, AppendProperties
    <3> QED BY <2>1, <3>1 DEF Stored
  <2>4. CASE index = Tip /\ ahead = <<>> /\ ahead' = ahead
    BY <2>1, <2>2, <2>4 DEF Stored, Tip
  <2>5. CASE index = Tip /\ ahead # <<>> /\ ahead' = ahead
    <3>1. Len(ahead) \in 1..Len(ahead)
      BY <2>2, <2>5, EmptySeq
    <3> QED BY <2>1, <2>5, <3>1 DEF Stored, Tip, Last
  <2>6. ahead' = ahead \/ ahead' = Append(ahead, index)
    BY DEF Commit
  <2>7. index = Tip \/ ahead' = Append(ahead, index)
    BY <1>2, <1>1, <1>4 DEF Commits
  <2> QED BY <2>3, <2>4, <2>5, <2>6, <2>7
<1>5. Carried'
  <2>1. ASSUME Storing', NEW p \in op'.paths PROVE pc' = "push" /\ Stored(p)'
    <3>1. pc' = "push" /\ op'.paths = op.paths
      BY <1>2, <1>1, <2>1 DEF Commits
    <3> QED BY <1>4, <2>1, <3>1
  <2> QED BY <2>1 DEF Carried
<1> QED BY <1>1, <1>3, <1>5 DEF IInv

LEMMA PushAcceptedIInv == IInv /\ PushAccepted /\ UNCHANGED refuses => IInv'
<1> SUFFICES ASSUME IInv, PushAccepted, UNCHANGED refuses PROVE IInv'
  OBVIOUS
<1>1. Typed' /\ ~Storing' /\ RepoType
  BY PushAcceptedTyped, TypeParts DEF IInv, Typed, Aimed
<1>2. remote' = remote \o ahead /\ UNCHANGED spent /\ acked' = acked \cup Acks /\ pc = "push"
  BY DEF PushAccepted, Pushed
<1>3. \A i \in 1..Len(remote) : i \in 1..Len(remote') /\ remote'[i] = remote[i]
  BY <1>1, <1>2, RemoteGrows
<1>4. ASSUME NEW a \in Acks PROVE \E i \in 1..Len(remote') : remote'[i][a[1]] = a[2]
  <2>1. PICK p \in op.paths : a = <<p, Mine(spent.own)>> /\ Storing
    BY <1>4 DEF Acks, Storing
  <2>2. Stored(p)
    BY <1>2, <2>1 DEF IInv, Carried
  <2>3. \E i \in 1..Len(remote') : remote'[i][p] = Mine(spent.own)
    BY <1>1, <1>2, <2>2, PushedStored
  <2> QED BY <2>1, <2>3
<1>5. ASSUME NEW a \in acked PROVE \E i \in 1..Len(remote') : remote'[i][a[1]] = a[2]
  BY <1>3 DEF IInv, AckedIsPushed
<1>6. AckedIsPushed'
  BY <1>2, <1>4, <1>5 DEF AckedIsPushed
<1> QED BY <1>1, <1>6 DEF IInv, Carried

LEMMA PushFailsIInv == IInv /\ PushFails /\ UNCHANGED refuses => IInv'
<1> SUFFICES ASSUME IInv, PushFails, UNCHANGED refuses PROVE IInv'
  OBVIOUS
<1>1. /\ Typed' /\ UNCHANGED <<ahead, op, acked>> /\ spent'.own = spent.own /\ RepoType
      /\ remote' = remote \/ remote' = remote \o ahead
      /\ pc = "push" /\ pc' \in {"failed", "pull"}
  BY PushFailsTyped, TypeParts DEF IInv, Typed
<1>2. \A i \in 1..Len(remote) : i \in 1..Len(remote') /\ remote'[i] = remote[i]
  BY <1>1, RemoteGrows
<1>3. AckedIsPushed'
  BY <1>1, <1>2, AckedKept DEF IInv
<1>4. ASSUME Storing, NEW p \in op.paths PROVE Stored(p)'
  <2>1. Stored(p)
    BY <1>1, <1>4 DEF IInv, Carried
  <2> QED BY <1>1, <1>2, <2>1 DEF Stored
<1>5. Carried'
  BY <1>1, <1>4 DEF Carried, Storing
<1> QED BY <1>1, <1>3, <1>5 DEF IInv

LEMMA RetryPullIInv == IInv /\ RetryPull /\ UNCHANGED refuses => IInv'
<1> SUFFICES ASSUME IInv, RetryPull, UNCHANGED refuses PROVE IInv'
  OBVIOUS
<1>1. /\ Typed' /\ UNCHANGED <<remote, acked>> /\ spent'.own = spent.own
      /\ pc = "pull" /\ op'.kind = op.kind /\ op'.paths = op.paths
      /\ \/ pc' = "failed"
         \/ pc' = "push" /\ (UNCHANGED <<local, mishaps>> \/ UNCHANGED repo \/ Pulled)
  BY RetryPullTyped DEF IInv
<1>2. AckedIsPushed'
  BY <1>1 DEF IInv, AckedIsPushed
<1>3. ASSUME Storing, NEW p \in op.paths, pc' = "push" PROVE Stored(p)'
  <2>1. Stored(p)
    BY <1>1, <1>3 DEF IInv, Carried
  <2>2. CASE ahead' = ahead
    BY <1>1, <2>1, <2>2 DEF Stored
  <2>3. CASE Pulled
    <3>1. p \in Paths
      BY TypeParts DEF IInv, Typed, FlowType, Ops
    <3> QED BY <1>1, <2>1, <2>3, <3>1, PulledStored DEF IInv, Typed
  <2> QED BY <1>1, <1>3, <2>2, <2>3 DEF local, repo
<1>4. Carried'
  BY <1>1, <1>3 DEF Carried, Storing
<1> QED BY <1>1, <1>2, <1>4 DEF IInv

(* What leaves nothing to store, and acknowledges nothing.                  *)
LEMMA OthersIInv ==
    ASSUME IInv, UNCHANGED <<refuses, remote, acked>>, Typed', ~Storing'
    PROVE  IInv'
BY DEF IInv, Carried, AckedIsPushed

LEMMA PeerPushIInv ==
    ASSUME IInv, UNCHANGED refuses, NEW p \in Paths, PeerPush(p)
    PROVE  IInv'
<1>1. /\ Typed' /\ UNCHANGED <<local, pc, op, acked>> /\ spent'.own = spent.own /\ RepoType
      /\ \E t \in Trees : remote' = Append(remote, t)
  BY PeerPushTyped, TypeParts DEF IInv, Typed
<1>2. \A i \in 1..Len(remote) : i \in 1..Len(remote') /\ remote'[i] = remote[i]
  BY <1>1, RemoteGrows
<1>3. AckedIsPushed'
  BY <1>1, <1>2, AckedKept DEF IInv
<1>4. \A q : Stored(q) => Stored(q)'
  BY <1>1, <1>2 DEF Stored, local, repo
<1>5. Carried'
  BY <1>1, <1>4 DEF IInv, Carried, Storing, local, repo
<1> QED BY <1>1, <1>3, <1>5 DEF IInv

LEMMA StepIInv == IInv /\ [Next]_vars => IInv'
<1> SUFFICES ASSUME IInv, [Next]_vars PROVE IInv'
  OBVIOUS
<1>0. Typed
  BY DEF IInv
<1>1. CASE UNCHANGED vars
  <2>1. /\ UNCHANGED <<remote, seen, base, ahead, index, work, unmerged>> /\ UNCHANGED <<pc, op, tries>>
        /\ UNCHANGED <<based, acked, mishaps>> /\ UNCHANGED <<refuses, spent>>
    BY <1>1 DEF vars, local, repo, hist
  <2>2. TypeOK'
    BY <1>0, <2>1, TypeParts, TypePartsNext DEF Typed, RepoType, FlowType, HistType
  <2>3. Control'
    BY <1>0, <2>1 DEF Typed, Control, Storing, Aimed
  <2>4. Carried'
    BY <2>1 DEF IInv, Carried, Storing, Stored
  <2>5. AckedIsPushed'
    BY <2>1 DEF IInv, AckedIsPushed
  <2> QED BY <2>2, <2>3, <2>4, <2>5 DEF IInv, Typed
<1>2. CASE Next
  <2>0. UNCHANGED refuses
    BY <1>2 DEF Next
  <2>1. CASE \E p \in Paths : Put(p)
    <3>1. PICK p \in Paths : Put(p)
      BY <2>1
    <3> QED BY <2>0, <3>1, PutIInv DEF Put
  <2>2. CASE \E P \in SUBSET Paths : PutBatch(P)
    BY <2>0, <2>2, PutIInv DEF PutBatch
  <2>3. CASE \E P \in SUBSET Paths : \E Q \in SUBSET P : PutBatchFails(P, Q)
    <3>1. PICK P \in SUBSET Paths : \E Q \in SUBSET P : PutBatchFails(P, Q)
      BY <2>3
    <3>2. UNCHANGED <<remote, acked>>
      BY <3>1 DEF PutBatchFails
    <3> QED BY <1>0, <2>0, <3>1, <3>2, PutBatchFailsTyped, OthersIInv DEF Aimed
  <2>4. CASE \E p \in Paths : Delete(p)
    <3>1. UNCHANGED <<remote, acked>>
      BY <2>4 DEF Delete
    <3> QED BY <1>0, <2>0, <2>4, <3>1, DeleteTyped, OthersIInv DEF Aimed
  <2>5. CASE BeginSync \/ Start
    <3>1. UNCHANGED <<remote, acked>>
      BY <2>5 DEF BeginSync, Start, hist
    <3> QED BY <1>0, <2>0, <2>5, <3>1, CallTyped, OthersIInv DEF Aimed
  <2>6. CASE Add
    BY <2>0, <2>6, AddIInv
  <2>7. CASE Commit
    BY <2>0, <2>7, CommitIInv
  <2>8. CASE PushAccepted
    BY <2>0, <2>8, PushAcceptedIInv
  <2>9. CASE PushFails
    BY <2>0, <2>9, PushFailsIInv
  <2>10. CASE RetryPull
    BY <2>0, <2>10, RetryPullIInv
  <2>11. CASE Undo
    <3>1. UNCHANGED <<remote, acked>>
      BY <2>11 DEF Undo, hist
    <3> QED BY <1>0, <2>0, <2>11, <3>1, UndoTyped, OthersIInv DEF Aimed
  <2>12. CASE Rollback \/ GiveUp
    <3>1. UNCHANGED <<remote, acked>>
      BY <2>12 DEF Rollback, GiveUp, hist
    <3> QED BY <1>0, <2>0, <2>12, <3>1, RollbackTyped, OthersIInv DEF Aimed
  <2>13. CASE SyncPull
    <3>1. UNCHANGED <<remote, acked>>
      BY <2>13 DEF SyncPull
    <3> QED BY <1>0, <2>0, <2>13, <3>1, SyncPullTyped, OthersIInv DEF Aimed
  <2>14. CASE Reconcile
    <3>1. UNCHANGED <<remote, acked>>
      BY <2>14 DEF Reconcile, hist
    <3> QED BY <1>0, <2>0, <2>14, <3>1, ReconcileTyped, OthersIInv DEF Aimed
  <2>15. CASE Recover
    <3>1. UNCHANGED <<remote, acked>>
      BY <2>15 DEF Recover, hist
    <3> QED BY <1>0, <2>0, <2>15, <3>1, RecoverTyped, OthersIInv DEF Aimed
  <2>16. CASE CommitLeft
    <3>1. UNCHANGED <<remote, acked>>
      BY <2>16 DEF CommitLeft, hist
    <3> QED BY <1>0, <2>0, <2>16, <3>1, CommitLeftTyped, OthersIInv DEF Aimed
  <2>17. CASE Crash
    <3>1. UNCHANGED <<remote, acked>>
      BY <2>17 DEF Crash, hist
    <3> QED BY <1>0, <2>0, <2>17, <3>1, CrashTyped, OthersIInv DEF Aimed
  <2>18. CASE \E p \in Paths : PeerPush(p)
    BY <2>0, <2>18, PeerPushIInv
  <2> QED
    BY <1>2, <2>1, <2>2, <2>3, <2>4, <2>5, <2>6, <2>7, <2>8, <2>9, <2>10, <2>11, <2>12, <2>13,
       <2>14, <2>15, <2>16, <2>17, <2>18 DEF Next, Step, Call
<1> QED BY <1>1, <1>2

(* Every reachable state of the clone, the operation and the remote is well *)
(* typed, whatever was pulled, replayed, reverted, lost or cut off.         *)
THEOREM TypeHolds == Spec => []TypeOK
<1>1. IInv => TypeOK
  BY DEF IInv, Typed
<1> QED BY InitIInv, StepIInv, <1>1, PTL DEF Spec

(* What put or putBatch reported as stored is in the history of the remote: *)
(* no retry, rebase or lost answer makes commitAndPush report a push that   *)
(* did not carry the write.                                                 *)
THEOREM AckedIsPushedHolds == Spec => []AckedIsPushed
<1>1. IInv => AckedIsPushed
  BY DEF IInv
<1> QED BY InitIInv, StepIInv, <1>1, PTL DEF Spec

(***************************************************************************)
(* What a rebase makes of the commits, one file at a time.                  *)
(***************************************************************************)

(* The tree after k commits is that of the last one kept so far.            *)
LEMMA RebasedIsReplayed ==
    ASSUME TypeOK, NEW k \in Landed..Len(ahead)
    PROVE  LET c == Cardinality(Upto(Kept, k))
           IN  /\ c \in 0..Len(Replayed)
               /\ Rebased(k) = IF c = 0 THEN Origin ELSE Replayed[c]
<1> DEFINE C(j)    == Cardinality(Upto(Kept, j))
           Right(j) == Rebased(j) = IF C(j) = 0 THEN Origin ELSE Replayed[C(j)]
           Wrong   == {j \in Landed..Len(ahead) : ~Right(j)}
<1>1. /\ Landed \in Nat /\ Len(ahead) \in Nat /\ Kept \in SUBSET (1..Len(ahead))
      /\ Len(Replayed) = Cardinality(Kept) /\ Cardinality(Kept) \in Nat
  BY LandedIs, TreeTypes, KeptIs, ReplayedType
<1>2. ASSUME NEW j \in Nat PROVE C(j) \in 0..Len(Replayed)
  <2>1. C(j) \in Nat /\ C(j) <= Cardinality(Kept)
    BY <1>1, UptoCardinality
  <2> QED BY <1>1, <2>1
<1>3. Right(Landed)
  <2>1. Rebased(Landed) = Origin
    <3>1. ~ \E j \in (Landed + 1)..Landed : TRUE
      BY <1>1
    <3>2. Rebased(Landed) = [p \in Paths |-> Origin[p]]
      BY <3>1 DEF Rebased
    <3> QED BY <3>2, TreeTypes DEF Trees
  <2>2. Upto(Kept, Landed) = {}
    <3>1. \A j \in Kept : ~(j <= Landed)
      BY <1>1 DEF Kept
    <3> QED BY <3>1 DEF Upto
  <2> QED BY <2>1, <2>2, FS_EmptySet
<1>4. SUFFICES ASSUME Wrong # {} PROVE FALSE
  <2>1. k \in Nat
    BY <1>1
  <2> QED BY <1>2, <2>1
<1>5. Wrong \in SUBSET Nat
  BY <1>1
<1>6. PICK m \in Wrong : \A j \in Wrong : m <= j
  BY <1>4, <1>5, LeastNatural
<1>7. m \in Landed..Len(ahead) /\ m \in Nat /\ ~Right(m)
  BY <1>1, <1>6
<1>8. m # Landed
  BY <1>3, <1>7
<1>9. m - 1 \in Landed..Len(ahead) /\ m - 1 \in Nat /\ m \in (Landed + 1)..Len(ahead) /\ ~(m <= m - 1)
      /\ (m - 1) + 1 = m
  BY <1>1, <1>7, <1>8
<1>10. Right(m - 1)
  BY <1>6, <1>9
<1>11. C(m) = C(m - 1) + (IF m \in Kept THEN 1 ELSE 0)
  <2>1. C((m - 1) + 1) = C(m - 1) + (IF (m - 1) + 1 \in Kept THEN 1 ELSE 0)
    BY <1>1, <1>9, UptoNext
  <2> QED BY <1>9, <2>1
<1>12. CASE m \in Kept
  <2>1. PICK i \in 1..Cardinality(Kept) : Nth(Kept, i) = m
    BY <1>1, <1>12, NthCovers
  <2>2. C(m) = i
    BY <1>1, <2>1, NthIs
  <2>3. Replayed[i] = Rebased(m) /\ i # 0
    BY <1>1, <2>1, ReplayedType
  <2> QED BY <1>7, <2>2, <2>3
<1>13. CASE m \notin Kept
  <2>1. Rebased(m) = Rebased(m - 1)
    BY <1>9, <1>13 DEF Kept
  <2>2. C(m) = C(m - 1)
    BY <1>2, <1>9, <1>11, <1>13
  <2> QED BY <1>7, <1>10, <2>1, <2>2
<1> QED BY <1>12, <1>13

(* A file that no commit changes after the landed ones is the remote's.     *)
LEMMA Unchanged ==
    ASSUME TypeOK, NEW p \in Paths, NEW k \in Landed..Len(ahead),
           \A j \in (Landed + 1)..k : p \notin Change(j)
    PROVE  Before(k + 1)[p] = remote[base + Landed][p]
<1> DEFINE Wrong == {j \in Landed..k : Before(j + 1)[p] # remote[base + Landed][p]}
<1>1. /\ Landed \in Nat /\ Len(ahead) \in Nat /\ k \in Nat /\ base \in Nat
      /\ \A j \in 1..Landed : remote[base + j] = ahead[j]
  BY LandedIs, TreeTypes
<1>2. SUFFICES ASSUME Wrong # {} PROVE FALSE
  BY <1>1
<1>3. Wrong \in SUBSET Nat
  BY <1>1
<1>4. PICK m \in Wrong : \A j \in Wrong : m <= j
  BY <1>2, <1>3, LeastNatural
<1>5. m \in Landed..k /\ m \in Nat /\ Before(m + 1)[p] # remote[base + Landed][p]
  BY <1>1, <1>4
<1>6. m # Landed
  <2>1. CASE Landed = 0
    <3>1. Before(Landed + 1) = remote[base + Landed]
      BY <1>1, <2>1 DEF Before
    <3> QED BY <1>5, <3>1
  <2>2. CASE Landed # 0
    <3>1. Landed + 1 # 1 /\ (Landed + 1) - 1 = Landed /\ Landed \in 1..Landed
      BY <1>1, <2>2
    <3>2. Before(Landed + 1) = remote[base + Landed]
      BY <1>1, <3>1 DEF Before
    <3> QED BY <1>5, <3>2
  <2> QED BY <2>1, <2>2
<1>7. m - 1 \in Landed..k /\ m \in (Landed + 1)..k /\ ~(m <= m - 1) /\ (m - 1) + 1 = m
      /\ m + 1 # 1 /\ (m + 1) - 1 = m
  BY <1>1, <1>5, <1>6
<1>8. Before(m)[p] = remote[base + Landed][p]
  BY <1>4, <1>7
<1>9. p \notin Change(m)
  BY <1>7
<1>10. ahead[m][p] = Before(m)[p]
  BY <1>9 DEF Change, Differ
<1> QED BY <1>5, <1>7, <1>8, <1>10 DEF Before

LEMMA RebasedAt ==
    ASSUME NEW p \in Paths, NEW k
    PROVE  /\ (\E j \in (Landed + 1)..k : p \in Change(j)) => Rebased(k)[p] = ahead[k][p]
           /\ (\A j \in (Landed + 1)..k : p \notin Change(j)) => Rebased(k)[p] = Origin[p]
BY DEF Rebased

LEMMA AllLandedIs ==
    ASSUME TypeOK, base + Len(ahead) <= Len(remote), \A j \in 1..Len(ahead) : remote[base + j] = ahead[j]
    PROVE  Landed = Len(ahead)
<1> DEFINE T == {k \in 0..Len(ahead) : /\ base + k <= Len(remote)
                                       /\ \A j \in 1..k : remote[base + j] = ahead[j]}
<1>1. Len(ahead) \in Nat /\ base \in 1..Len(remote) /\ Len(remote) \in Nat
  BY TreeTypes
<1>2. Len(ahead) \in T /\ T \in SUBSET (0..Len(ahead))
  BY <1>1
<1>3. Max(T) \in 0..Len(ahead) /\ Max(T) >= Len(ahead)
  BY <1>1, <1>2, MaxNatural
<1>4. Max(T) = Len(ahead)
  BY <1>1, <1>3
<1> QED BY <1>4 DEF Landed

(***************************************************************************)
(* What a write that is not made yet brings is nowhere.                     *)
(***************************************************************************)

Written(own, t) == \A p \in Paths : \A m \in (own + 1)..MaxOwn : t[p] # Mine(m)

AllWritten ==
    /\ \A i \in 1..Len(remote) : Written(spent.own, remote[i])
    /\ \A k \in 1..Len(ahead) : Written(spent.own, ahead[k])
    /\ Written(spent.own, index) /\ Written(spent.own, work)

LEMMA MineIs ==
    ASSUME NEW m \in 1..MaxOwn
    PROVE  /\ Mine(m) # None /\ Mine(m) # Torn
           /\ \A k : Mine(m) # Peers(k)
           /\ \A k : Mine(m) = Mine(k) => m = k
<1>1. Mine(m) \in Contents
  BY ContentTypes
<1> QED BY <1>1, NoneAssumption DEF Mine, Torn, Peers

LEMMA OwnType ==
    ASSUME spent \in Tally
    PROVE  /\ spent.own \in Nat /\ MaxOwn \in Nat
           /\ \A m \in (spent.own + 1)..MaxOwn : m \in 1..MaxOwn
           /\ \A m \in ((spent.own + 1) + 1)..MaxOwn :
                 m \in (spent.own + 1)..MaxOwn /\ m # spent.own + 1
<1>1. spent.own \in 0..MaxOwn /\ MaxOwn \in Nat
  BY GitAssumption DEF Tally
<1> QED BY <1>1

LEMMA OverWritten ==
    ASSUME NEW own, NEW s, NEW t, NEW P, Written(own, s), Written(own, t)
    PROVE  Written(own, Over(s, t, P))
BY DEF Written, Over

LEMMA TreesWritten ==
    ASSUME TypeOK, AllWritten
    PROVE  /\ Written(spent.own, Origin) /\ Written(spent.own, Tip) /\ Written(spent.own, Parent)
           /\ Written(spent.own, remote[base]) /\ Written(spent.own, remote[seen])
           /\ \A k \in 0..Len(ahead) : Written(spent.own, Rebased(k))
           /\ \A i \in 1..Len(Replayed) : Written(spent.own, Replayed[i])
<1>1. /\ Len(remote) \in Nat \ {0} /\ Len(ahead) \in Nat
      /\ base \in 1..Len(remote) /\ seen \in 1..Len(remote)
      /\ ahead # <<>> => Len(ahead) \in 1..Len(ahead)
  BY TreeTypes, EmptySeq DEF TypeOK
<1>2. Written(spent.own, Origin) /\ Written(spent.own, Tip)
  BY <1>1 DEF AllWritten, Origin, Tip, Last
<1>3. Written(spent.own, Parent)
  BY <1>1 DEF AllWritten, Parent
<1>4. ASSUME NEW k \in 0..Len(ahead) PROVE Written(spent.own, Rebased(k))
  <2>1. Landed \in Nat
    BY LandedIs, TreeTypes
  <2>2. ASSUME NEW p \in Paths, \E j \in (Landed + 1)..k : p \in Change(j) PROVE k \in 1..Len(ahead)
    BY <1>1, <2>1, <2>2
  <2> QED BY <1>2, <2>2 DEF AllWritten, Written, Rebased
<1>5. ASSUME NEW i \in 1..Len(Replayed) PROVE Written(spent.own, Replayed[i])
  <2>1. Nth(Kept, i) \in Kept /\ Replayed[i] = Rebased(Nth(Kept, i)) /\ Kept \in SUBSET (1..Len(ahead))
    BY KeptIs, ReplayedType
  <2>2. Nth(Kept, i) \in 1..Len(ahead)
    BY <2>1
  <2>3. Nth(Kept, i) \in 0..Len(ahead)
    BY <1>1, <2>2
  <2> QED BY <1>4, <2>1, <2>3
<1> QED BY <1>1, <1>2, <1>3, <1>4, <1>5 DEF AllWritten

LEMMA PulledWritten ==
    ASSUME TypeOK, AllWritten, Pulled, remote' = remote, spent'.own = spent.own
    PROVE  AllWritten'
<1> DEFINE tip   == Rebased(Len(ahead))
           torn  == {p \in Stashed : tip[p] \notin {Tip[p], work[p]}}
           fresh == {p \in Stashed \ torn : tip[p] = None /\ work[p] # None}
<1>1. Written(spent.own, tip) /\ Written(spent.own, work)
  BY TreesWritten, TreeTypes DEF AllWritten
<1>2. index' = Over(tip, work, fresh)
  BY DEF Pulled
<1>3. work' = [p \in Paths |-> IF p \in torn THEN (IF tip[p] = None THEN work[p] ELSE Torn)
                               ELSE IF p \in Stashed \cup Untracked THEN work[p] ELSE tip[p]]
  BY DEF Pulled
<1>4. \A m \in (spent.own + 1)..MaxOwn : Mine(m) # Torn
  BY MineIs, OwnType, TypeParts
<1> HIDE DEF tip, torn, fresh
<1>5. Written(spent.own, work')
  BY <1>1, <1>3, <1>4 DEF Written
<1>6. Written(spent.own, index')
  BY <1>1, <1>2, OverWritten
<1>7. ahead' = Replayed
  BY DEF Pulled
<1>8. \A i \in 1..Len(ahead') : Written(spent.own, ahead'[i])
  BY <1>7, TreesWritten
<1> QED BY <1>5, <1>6, <1>8 DEF AllWritten

(* The changes made here: the next content, or none.                        *)
LEMMA CallWritten ==
    ASSUME TypeOK, AllWritten, UNCHANGED <<remote, ahead>>, spent'.own = spent.own + 1,
           \A p \in Paths : work'[p] \in {work[p], Mine(spent.own + 1), None},
           \A p \in Paths : index'[p] \in {index[p], None}
    PROVE  AllWritten'
<1>1. \A m \in ((spent.own + 1) + 1)..MaxOwn :
            /\ m \in (spent.own + 1)..MaxOwn /\ m # spent.own + 1
            /\ Mine(m) # None /\ Mine(m) # Mine(spent.own + 1)
  <2> TAKE m \in ((spent.own + 1) + 1)..MaxOwn
  <2>1. m \in (spent.own + 1)..MaxOwn /\ m # spent.own + 1
    BY OwnType, TypeParts
  <2>2. m \in 1..MaxOwn
    BY <2>1, OwnType, TypeParts
  <2> QED BY <2>1, <2>2, MineIs
<1>2. Written(spent.own + 1, work')
  BY <1>1 DEF AllWritten, Written
<1>3. Written(spent.own + 1, index')
  BY <1>1 DEF AllWritten, Written
<1>4. \A t : Written(spent.own, t) => Written(spent.own + 1, t)
  BY <1>1 DEF Written
<1> QED BY <1>2, <1>3, <1>4 DEF AllWritten

LEMMA FrontIs ==
    ASSUME TypeOK
    PROVE  /\ \A k \in 1..Len(Front(ahead)) : k \in 1..Len(ahead) /\ Front(ahead)[k] = ahead[k]
           /\ ahead # <<>> => Len(Front(ahead)) = Len(ahead) - 1
<1>1. Len(ahead) \in Nat
  BY TreeTypes
<1>2. Front(ahead) = SubSeq(ahead, 1, Len(ahead) - 1)
  BY DEF Front
<1>3. CASE ahead = <<>>
  <2>1. Len(ahead) - 1 = -1
    BY <1>3, EmptySeq
  <2>2. Front(ahead) = <<>>
    BY <1>2, <1>3, <2>1, SubSeqEmpty, EmptySeq
  <2>3. \A k \in 1..Len(Front(ahead)) : FALSE
    BY <2>2, EmptySeq
  <2> QED BY <1>3, <2>3
<1>4. CASE ahead # <<>>
  <2>1. Len(ahead) \in Nat \ {0} /\ ahead \in Seq(Trees)
    BY <1>1, <1>4, EmptySeq DEF TypeOK
  <2> DEFINE n == Len(ahead) - 1
  <2>5. n \in Nat /\ \A i \in 1..n : i \in 1..Len(ahead) /\ 1 + i - 1 = i
    BY <2>1
  <2>0. \A m \in Nat : m - 1 + 1 = m /\ (1 <= m \/ m = 0)
    OBVIOUS
  <2>6. \A i \in 1..n : ahead[i] \in Trees
    BY <2>5, TreeTypes
  <2> HIDE DEF n
  <2>7. n \in Nat /\ n - 1 + 1 = n /\ (1 <= n \/ n = 0)
    BY <2>0, <2>5
  <2>2. /\ n \in Int /\ 1 \in Int /\ n - 1 + 1 = n
        /\ (IF 1 <= n THEN n - 1 + 1 ELSE 0) = n
    BY <2>7
  <2>3. /\ Len(SubSeq(ahead, 1, n)) = (IF 1 <= n THEN n - 1 + 1 ELSE 0)
        /\ \A i \in 1..(n - 1 + 1) : SubSeq(ahead, 1, n)[i] = ahead[1 + i - 1]
    BY <2>2, <2>6, SubSeqProperties
  <2>4. Len(Front(ahead)) = n /\ \A k \in 1..n : Front(ahead)[k] = ahead[k]
    BY <1>2, <2>2, <2>3, <2>5 DEF n
  <2>8. n = Len(ahead) - 1
    BY DEF n
  <2> QED BY <2>4, <2>5, <2>8
<1> QED BY <1>3, <1>4

LEMMA AppendedWritten ==
    ASSUME TypeOK, AllWritten, NEW t \in Trees, Written(spent.own, t)
    PROVE  /\ \A k \in 1..Len(Append(ahead, t)) : Written(spent.own, Append(ahead, t)[k])
           /\ \A i \in 1..Len(Append(remote, t)) : Written(spent.own, Append(remote, t)[i])
<1>1. ahead \in Seq(Trees) /\ remote \in Seq(Trees) /\ Len(ahead) \in Nat /\ Len(remote) \in Nat
  BY TreeTypes DEF TypeOK
<1>2. \A k \in 1..Len(Append(ahead, t)) : Written(spent.own, Append(ahead, t)[k])
  BY <1>1, AppendProperties DEF AllWritten
<1>3. \A i \in 1..Len(Append(remote, t)) : Written(spent.own, Append(remote, t)[i])
  BY <1>1, AppendProperties DEF AllWritten
<1> QED BY <1>2, <1>3

LEMMA ConcatenatedWritten ==
    ASSUME TypeOK, AllWritten
    PROVE  \A i \in 1..Len(remote \o ahead) : Written(spent.own, (remote \o ahead)[i])
<1>1. remote \in Seq(Trees) /\ ahead \in Seq(Trees) /\ Len(remote) \in Nat /\ Len(ahead) \in Nat
  BY TreeTypes DEF TypeOK
<1>2. /\ Len(remote \o ahead) = Len(remote) + Len(ahead)
      /\ \A i \in 1..Len(remote) + Len(ahead) :
            (remote \o ahead)[i] = IF i <= Len(remote) THEN remote[i] ELSE ahead[i - Len(remote)]
  BY <1>1, ConcatProperties
<1> TAKE i \in 1..Len(remote \o ahead)
<1>3. CASE i <= Len(remote)
  BY <1>1, <1>2, <1>3 DEF AllWritten
<1>4. CASE ~(i <= Len(remote))
  <2>1. i - Len(remote) \in 1..Len(ahead)
    BY <1>1, <1>2, <1>4
  <2> QED BY <1>2, <1>4, <2>1 DEF AllWritten
<1> QED BY <1>3, <1>4

(* A peer's tree is one.                                                    *)
LEMMA PeerTree ==
    ASSUME TypeOK, spent.peers < MaxPeer, NEW p \in Paths, NEW c \in {Peers(spent.peers + 1), None}
    PROVE  [Origin EXCEPT ![p] = c] \in Trees
<1>1. spent.peers \in 0..MaxPeer /\ MaxPeer \in Nat
  BY GitAssumption, TypeParts DEF Tally
<1>2. spent.peers + 1 \in 0..MaxPeer
  BY <1>1
<1>3. c \in Contents \cup {None}
  BY <1>2, ContentTypes
<1> QED BY <1>3, TreeTypes DEF Trees

LEMMA PullWritten ==
    ASSUME TypeOK, AllWritten, UNCHANGED remote,
           \/ \E found \in BOOLEAN : PullReturns(found)
           \/ \E paths \in {{}, Conflicting} : PullThrows(paths)
    PROVE  AllWritten'
<1>1. spent'.own = spent.own
  BY FaultTypes, TypeParts DEF PullReturns, PullThrows, NoFault
<1>2. CASE UNCHANGED repo
  BY <1>1, <1>2 DEF AllWritten, repo
<1>3. CASE Pulled
  BY <1>1, <1>3, PulledWritten
<1> QED BY <1>2, <1>3 DEF PullReturns, PullThrows, local

LEMMA StepWritten ==
    ASSUME Typed, AllWritten, [Next]_vars
    PROVE  AllWritten'
<1>0. /\ TypeOK /\ RepoType /\ spent \in Tally /\ index \in Trees /\ work \in Trees
      /\ Parent \in Trees /\ Tip \in Trees /\ remote[seen] \in Trees /\ Origin \in Trees
  BY TypeParts, TreeTypes DEF Typed, RepoType
<1>1. CASE /\ UNCHANGED <<remote, ahead, work>> /\ spent'.own = spent.own
           /\ index' = index \/ \E P : index' = Over(index, work, P)
  BY <1>1, OverWritten DEF AllWritten
<1>2. CASE UNCHANGED vars
  BY <1>1, <1>2 DEF vars, local, repo
<1>3. CASE \E p \in Paths : Put(p) \/ Delete(p)
  <2>1. PICK p \in Paths : Put(p) \/ Delete(p)
    BY <1>3
  <2>2. /\ UNCHANGED <<remote, ahead>> /\ spent' = [spent EXCEPT !.own = @ + 1]
        /\ \A q \in Paths : work'[q] \in {work[q], Mine(spent.own + 1), None}
        /\ \A q \in Paths : index'[q] \in {index[q], None}
    BY <1>0, <2>1 DEF Put, Write, Delete, Trees
  <2>3. spent'.own = spent.own + 1
    BY <1>0, <2>2 DEF Tally
  <2> QED BY <1>0, <2>2, <2>3, CallWritten
<1>4. CASE \/ \E P \in SUBSET Paths : PutBatch(P)
           \/ \E P \in SUBSET Paths : \E Q \in SUBSET P : PutBatchFails(P, Q)
  <2>1. PICK P \in SUBSET Paths : PutBatch(P) \/ \E Q \in SUBSET P : PutBatchFails(P, Q)
    BY <1>4
  <2>2. /\ UNCHANGED <<remote, ahead, index>>
        /\ \/ spent' = [spent EXCEPT !.own = @ + 1]
           \/ spent' = [spent EXCEPT !.own = @ + 1, !.faults = @ + 1]
    BY <2>1 DEF PutBatch, Write, PutBatchFails
  <2>3. \A q \in Paths : work'[q] \in {work[q], Mine(spent.own + 1), None}
    BY <2>1 DEF PutBatch, Write, PutBatchFails
  <2>4. spent'.own = spent.own + 1
    BY <1>0, <2>2 DEF Tally
  <2> QED BY <1>0, <2>2, <2>3, <2>4, CallWritten
<1>5. CASE BeginSync \/ Start \/ Crash \/ GiveUp
  <2>1. UNCHANGED <<remote, local>>
    BY <1>5 DEF BeginSync, Start, Crash, GiveUp
  <2>2. spent'.own = spent.own
    BY <1>0, <1>5 DEF BeginSync, Start, Crash, GiveUp, Tally
  <2> QED BY <1>1, <2>1, <2>2 DEF local, repo
<1>6. CASE Add \/ Reconcile \/ Recover
  BY <1>1, <1>6 DEF Add, Reconcile, Recover
<1>7. CASE Commit \/ CommitLeft
  <2>1. UNCHANGED <<remote, index, work, spent>> /\ (ahead' = ahead \/ ahead' = Append(ahead, index))
    BY <1>7 DEF Commit, CommitLeft
  <2> QED BY <1>0, <2>1, AppendedWritten DEF AllWritten
<1>8. CASE PushAccepted
  <2>1. UNCHANGED <<index, work, spent>> /\ remote' = remote \o ahead /\ ahead' = <<>>
    BY <1>8 DEF PushAccepted, Pushed
  <2> QED BY <1>0, <2>1, ConcatenatedWritten, EmptySeq DEF AllWritten
<1>9. CASE PushFails
  <2>1. UNCHANGED <<ahead, index, work>> /\ (remote' = remote \/ remote' = remote \o ahead)
    BY <1>9 DEF PushFails, local, repo
  <2>2. spent'.own = spent.own
    BY <1>0, <1>9, FaultTypes DEF PushFails, NoFault
  <2> QED BY <1>0, <2>1, <2>2, ConcatenatedWritten DEF AllWritten
<1>10. CASE RetryPull
  BY <1>0, <1>10, PullWritten DEF RetryPull
<1>11. CASE SyncPull
  BY <1>0, <1>11, PullWritten DEF SyncPull
<1>12. CASE Undo
  <2>1. PICK p : /\ ahead' = Front(ahead) /\ UNCHANGED <<remote, spent>>
                 /\ index' = Parent \/ index' = [Parent EXCEPT ![p] = remote[seen][p]]
                 /\ work' = work \/ work' = [work EXCEPT ![p] = remote[seen][p]]
    BY <1>12 DEF Undo, hist
  <2>2. \A k \in 1..Len(ahead') : Written(spent.own, ahead'[k])
    BY <1>0, <2>1, FrontIs DEF AllWritten
  <2>3. Written(spent.own, index') /\ Written(spent.own, work')
    BY <1>0, <2>1, TreesWritten DEF AllWritten, Written, Trees
  <2> QED BY <2>1, <2>2, <2>3 DEF AllWritten
<1>13. CASE Rollback
  <2>1. UNCHANGED <<remote, spent>>
    BY <1>13 DEF Rollback
  <2>2. CASE UNCHANGED <<ahead, index, work>>
    BY <2>1, <2>2 DEF AllWritten
  <2>3. CASE /\ ahead' = Append(ahead, Parent) /\ index' = Parent
             /\ work' = Over(work, Parent, Differ(Parent, Tip))
    BY <1>0, <2>1, <2>3, TreesWritten, AppendedWritten, OverWritten DEF AllWritten
  <2> QED BY <1>13, <2>2, <2>3 DEF Rollback
<1>14. CASE \E p \in Paths : PeerPush(p)
  <2>1. PICK p \in Paths : PeerPush(p)
    BY <1>14
  <2>2. UNCHANGED <<ahead, index, work>> /\ spent' = [spent EXCEPT !.peers = @ + 1]
    BY <2>1 DEF PeerPush, local, repo
  <2>3. spent'.own = spent.own
    BY <1>0, <2>2 DEF Tally
  <2>4. PICK c \in {Peers(spent.peers + 1), None} : remote' = Append(remote, [Origin EXCEPT ![p] = c])
    BY <2>1 DEF PeerPush
  <2>5. [Origin EXCEPT ![p] = c] \in Trees
    BY <1>0, <2>1, <2>4, PeerTree DEF PeerPush
  <2>6. Written(spent.own, [Origin EXCEPT ![p] = c])
    <3>1. \A m \in (spent.own + 1)..MaxOwn : c # Mine(m)
      BY <1>0, MineIs, OwnType
    <3> QED BY <1>0, <3>1, TreesWritten DEF Written, Trees
  <2> QED BY <1>0, <2>2, <2>3, <2>4, <2>5, <2>6, AppendedWritten DEF AllWritten
<1> QED BY <1>2, <1>3, <1>4, <1>5, <1>6, <1>7, <1>8, <1>9, <1>10, <1>11, <1>12, <1>13, <1>14
        DEF Next, Step, Call

(***************************************************************************)
(* The commit of an operation until it is pushed or rolled back: the last   *)
(* one, and its change is that of the operation.                            *)
(***************************************************************************)

Aims == Aimed => /\ op.undo /\ op.paths # {}
                 /\ op.kind = "delete" => \E p \in Paths : op.paths = {p}

Absent(p) == /\ \A i \in 1..Len(remote) : remote[i][p] # Mine(spent.own)
             /\ \A k \in 1..Len(ahead) : ahead[k][p] # Mine(spent.own)

Prepared == Aimed /\ pc \in {"add", "commit"} =>
                op.head = Tip /\ (Storing => \A p \in op.paths : Absent(p))

(* A push went through and its answer was lost.                             *)
AllLanded == /\ base + Len(ahead) <= Len(remote)
             /\ \A j \in 1..Len(ahead) : remote[base + j] = ahead[j]

(* Before it a file is as the operation found it, or as the remote has it.  *)
OwnCommit ==
    /\ Len(ahead) # 0 /\ Change(Len(ahead)) = op.paths
    /\ \A p \in op.paths :
          \/ Before(Len(ahead))[p] = op.head[p]
          \/ \A j \in 1..(Len(ahead) - 1) : ahead[j][p] = remote[base][p]
    /\ Storing => \A p \in op.paths :
          /\ ahead[Len(ahead)][p] = Mine(spent.own)
          /\ \A j \in 1..(Len(ahead) - 1) : ahead[j][p] # Mine(spent.own)
          /\ (\E i \in 1..Len(remote) : remote[i][p] = Mine(spent.own)) => AllLanded

Owns == Aimed /\ pc \in {"push", "pull", "failed"} /\ op.made /\ mishaps = {} => OwnCommit

Untouched ==
    Aimed /\ mishaps = {} => \A p \in Paths \ op.paths : Unpushed(p) => work[p] = op.saw[p]

FInv == IInv /\ Aims /\ AllWritten /\ Prepared /\ Owns /\ Untouched

(* A last commit that a rebase keeps is the last one again, on what the     *)
(* rebase made of the one before.                                           *)
LEMMA KeptLast ==
    ASSUME TypeOK, Len(ahead) \in Kept
    PROVE  /\ Len(ahead) \in (Landed + 1)..Len(ahead) /\ Len(ahead) - 1 \in Landed..Len(ahead)
           /\ Len(Replayed) \in Nat \ {0} /\ Replayed[Len(Replayed)] = Rebased(Len(ahead))
           /\ Rebased(Len(ahead) - 1) = IF Len(Replayed) = 1 THEN Origin ELSE Replayed[Len(Replayed) - 1]
           /\ \A i \in 1..(Len(Replayed) - 1) : \E k \in (Landed + 1)..(Len(ahead) - 1) : Replayed[i] = Rebased(k)
<1> DEFINE n == Len(ahead)
           C(k) == Cardinality(Upto(Kept, k))
<1>1. /\ n \in Nat /\ Landed \in Nat /\ Kept \in SUBSET (1..n) /\ Cardinality(Kept) \in Nat
      /\ Len(Replayed) = Cardinality(Kept)
  BY TreeTypes, LandedIs, KeptIs, ReplayedType
<1>2. n \in (Landed + 1)..n
  BY DEF Kept
<1>3. n - 1 \in Nat /\ n - 1 \in Landed..n /\ n \in Landed..n /\ (n - 1) + 1 = n
  BY <1>1, <1>2
<1>4. C(n) = Cardinality(Kept) /\ C(n - 1) \in Nat
  <2>1. C(n - 1) \in Nat
    BY <1>1, <1>3, UptoCardinality
  <2> QED BY <1>1, <2>1, UptoCardinality
<1>5. C(n) = C(n - 1) + 1
  <2>1. C((n - 1) + 1) = C(n - 1) + (IF (n - 1) + 1 \in Kept THEN 1 ELSE 0)
    BY <1>1, <1>3, UptoNext
  <2> QED BY <1>3, <2>1
<1>6. Rebased(n) = IF C(n) = 0 THEN Origin ELSE Replayed[C(n)]
  BY <1>3, RebasedIsReplayed
<1>7. Rebased(n - 1) = IF C(n - 1) = 0 THEN Origin ELSE Replayed[C(n - 1)]
  BY <1>3, RebasedIsReplayed
<1>8. ASSUME NEW i \in 1..(Len(Replayed) - 1)
      PROVE  \E k \in (Landed + 1)..(n - 1) : Replayed[i] = Rebased(k)
  <2>1. i \in 1..Cardinality(Kept) /\ i # Cardinality(Kept)
    BY <1>1
  <2>2. Nth(Kept, i) \in Kept /\ C(Nth(Kept, i)) = i /\ Replayed[i] = Rebased(Nth(Kept, i))
    BY <1>1, <2>1, NthIs, ReplayedType
  <2>3. Nth(Kept, i) # n
    BY <1>4, <2>1, <2>2
  <2>4. Nth(Kept, i) \in (Landed + 1)..n
    BY <2>2 DEF Kept
  <2> QED BY <1>1, <2>2, <2>3, <2>4
<1> HIDE DEF C
<1> QED BY <1>1, <1>2, <1>3, <1>4, <1>5, <1>6, <1>7, <1>8

(* What the rebase makes of the commit of the operation and of those before.*)
LEMMA RebasedOwn ==
    ASSUME Typed, Aimed, Aims, OwnCommit, Len(ahead) \in Kept
    PROVE  /\ Differ(Rebased(Len(ahead) - 1), Rebased(Len(ahead))) = op.paths
           /\ \A p \in op.paths :
                 \/ Rebased(Len(ahead) - 1)[p] = op.head[p]
                 \/ /\ Rebased(Len(ahead) - 1)[p] = Origin[p]
                    /\ \A k \in (Landed + 1)..(Len(ahead) - 1) : Rebased(k)[p] = Origin[p]
           /\ Storing => \A p \in op.paths :
                 /\ Rebased(Len(ahead))[p] = Mine(spent.own)
                 /\ \A k \in (Landed + 1)..(Len(ahead) - 1) : Rebased(k)[p] # Mine(spent.own)
                 /\ \A i \in 1..Len(remote) : remote[i][p] # Mine(spent.own)
<1> USE DEF Typed
<1> DEFINE n    == Len(ahead)
           was  == Rebased(n - 1)
           now  == Rebased(n)
           Early(p) == \E j \in (Landed + 1)..(n - 1) : p \in Change(j)
<1>1. /\ n \in Nat /\ Landed \in Nat /\ n \in (Landed + 1)..n /\ n - 1 \in Landed..n /\ n - 1 \in 0..n
      /\ op.paths \in SUBSET Paths /\ Len(remote) \in Nat \ {0}
  BY TreeTypes, LandedIs, KeptLast, TypeParts DEF FlowType, Ops
<1>2. Change(n) = op.paths
  BY DEF OwnCommit
<1>3. ASSUME NEW p \in Paths
      PROVE  /\ Early(p) => was[p] = ahead[n - 1][p] /\ now[p] = ahead[n][p] /\ ahead[n - 1] = Before(n)
             /\ ~Early(p) => was[p] = Origin[p]
             /\ p \in op.paths => now[p] = ahead[n][p]
             /\ ~Early(p) /\ p \notin op.paths => now[p] = Origin[p]
             /\ p \notin op.paths => ahead[n][p] = Before(n)[p]
  <2>1. (\E j \in (Landed + 1)..n : p \in Change(j)) <=> Early(p) \/ p \in op.paths
    <3>1. \A j : j \in (Landed + 1)..n <=> j \in (Landed + 1)..(n - 1) \/ j = n
      BY <1>1
    <3> QED BY <1>2, <3>1
  <2>2. Early(p) => ahead[n - 1] = Before(n)
    <3>1. ASSUME NEW j \in (Landed + 1)..(n - 1) PROVE n # 1
      <4>1. j \in 1..(n - 1)
        BY <1>1
      <4>2. \A a \in Nat : \A b \in 1..(a - 1) : a # 1
        OBVIOUS
      <4> QED BY <1>1, <4>1, <4>2
    <3> QED BY <3>1 DEF Before
  <2>3. p \notin op.paths => ahead[n][p] = Before(n)[p]
    BY <1>2 DEF Change, Differ
  <2> HIDE DEF n
  <2> QED BY <2>1, <2>2, <2>3, RebasedAt
<1>4. ASSUME NEW p \in Paths, p \notin op.paths PROVE was[p] = now[p]
  BY <1>3, <1>4
<1>5. ASSUME Storing, NEW p \in op.paths
      PROVE  /\ now[p] = Mine(spent.own) /\ was[p] # Mine(spent.own)
             /\ \A k \in (Landed + 1)..(n - 1) : Rebased(k)[p] # Mine(spent.own)
             /\ \A i \in 1..Len(remote) : remote[i][p] # Mine(spent.own)
  <2>1. /\ ahead[n][p] = Mine(spent.own) /\ \A j \in 1..(n - 1) : ahead[j][p] # Mine(spent.own)
        /\ (\E i \in 1..Len(remote) : remote[i][p] = Mine(spent.own)) => AllLanded
    BY <1>5 DEF OwnCommit
  <2>2. ~AllLanded
    BY <1>1, AllLandedIs DEF AllLanded
  <2>3. \A i \in 1..Len(remote) : remote[i][p] # Mine(spent.own)
    BY <2>1, <2>2
  <2>4. Origin[p] # Mine(spent.own)
    BY <1>1, <2>3 DEF Origin, Last
  <2>5. p \in Paths
    BY <1>1
  <2>6. ASSUME NEW k \in (Landed + 1)..(n - 1) PROVE Rebased(k)[p] # Mine(spent.own)
    <3>1. k \in 1..(n - 1)
      BY <1>1
    <3> QED BY <2>1, <2>4, <2>5, <3>1, RebasedAt
  <2>7. was[p] # Mine(spent.own)
    <3>1. Early(p) => n - 1 \in 1..(n - 1)
      BY <1>1
    <3> QED BY <1>3, <2>1, <2>4, <2>5, <3>1
  <2> QED BY <1>3, <2>1, <2>3, <2>5, <2>6, <2>7
<1>6. Differ(was, now) = op.paths
  <2>1. Differ(was, now) \subseteq op.paths
    BY <1>4 DEF Differ
  <2>2. CASE Storing
    BY <1>1, <1>5, <2>1, <2>2 DEF Differ
  <2>3. CASE op.kind = "delete"
    <3>1. PICK q \in Paths : op.paths = {q}
      BY <2>3 DEF Aims
    <3>2. was # now
      BY <1>1 DEF Kept
    <3>3. was \in Trees /\ now \in Trees
      BY <1>1, RebasedType
    <3>4. Differ(was, now) # {}
      BY <3>2, <3>3 DEF Differ, Trees
    <3> QED BY <2>1, <3>1, <3>4
  <2> QED BY <2>2, <2>3 DEF Aimed
<1>7. ASSUME NEW p \in op.paths, ~(was[p] = op.head[p])
      PROVE  was[p] = Origin[p] /\ \A k \in (Landed + 1)..(n - 1) : Rebased(k)[p] = Origin[p]
  <2>1. p \in Paths
    BY <1>1
  <2>2. \/ Before(n)[p] = op.head[p]
        \/ \A j \in 1..(n - 1) : ahead[j][p] = remote[base][p]
    BY DEF OwnCommit
  <2>3. ~Early(p)
    <3>1. SUFFICES ASSUME Early(p) PROVE FALSE
      OBVIOUS
    <3>2. \A j \in 1..(n - 1) : ahead[j][p] = remote[base][p]
      BY <1>3, <1>7, <2>1, <2>2, <3>1
    <3>3. PICK j \in (Landed + 1)..(n - 1) : p \in Change(j)
      BY <3>1
    <3>4. j \in 1..(n - 1) /\ (j # 1 => j - 1 \in 1..(n - 1))
      BY <1>1
    <3>5. Before(j)[p] = remote[base][p] /\ ahead[j][p] = remote[base][p]
      BY <3>2, <3>4 DEF Before
    <3> QED BY <3>3, <3>5 DEF Change, Differ
  <2>4. ASSUME NEW k \in (Landed + 1)..(n - 1) PROVE Rebased(k)[p] = Origin[p]
    <3>1. \A j \in (Landed + 1)..k : j \in (Landed + 1)..(n - 1)
      BY <1>1
    <3>2. \A j \in (Landed + 1)..k : p \notin Change(j)
      BY <2>3, <3>1
    <3> QED BY <2>1, <3>2, RebasedAt
  <2> QED BY <1>3, <2>1, <2>3, <2>4
<1> QED BY <1>5, <1>6, <1>7

(* What the operation knows of itself.                                      *)
SameOp == op'.kind = op.kind /\ op'.paths = op.paths /\ op'.head = op.head /\ op'.saw = op.saw /\ op'.undo = op.undo

LEMMA PulledOwn ==
    ASSUME Typed, Aimed, Aims, OwnCommit, Len(ahead) \in Kept, Pulled,
           UNCHANGED remote, SameOp, spent'.own = spent.own
    PROVE  OwnCommit'
<1>1. PICK m \in Nat \ {0} : m = Len(Replayed)
  BY KeptLast DEF Typed
<1>2. PICK was \in {Rebased(Len(ahead) - 1)} : was = Rebased(Len(ahead) - 1)
  OBVIOUS
<1>3. PICK now \in {Rebased(Len(ahead))} : now = Rebased(Len(ahead))
  OBVIOUS
<1>4. /\ ahead' = Replayed /\ base' = Len(remote) /\ remote' = remote /\ Len(ahead') = m
      /\ remote'[base'] = Origin /\ m \in Nat \ {0}
  BY <1>1 DEF Pulled, Origin, Last
<1>5. /\ ahead'[m] = now /\ was = IF m = 1 THEN Origin ELSE ahead'[m - 1]
      /\ \A i \in 1..(m - 1) : \E k \in (Landed + 1)..(Len(ahead) - 1) : ahead'[i] = Rebased(k)
  BY <1>1, <1>2, <1>3, <1>4, KeptLast DEF Typed
<1>6. /\ Differ(was, now) = op.paths
      /\ \A p \in op.paths :
            \/ was[p] = op.head[p]
            \/ /\ was[p] = Origin[p]
               /\ \A k \in (Landed + 1)..(Len(ahead) - 1) : Rebased(k)[p] = Origin[p]
      /\ Storing => \A p \in op.paths :
            /\ now[p] = Mine(spent.own)
            /\ \A k \in (Landed + 1)..(Len(ahead) - 1) : Rebased(k)[p] # Mine(spent.own)
            /\ \A i \in 1..Len(remote) : remote[i][p] # Mine(spent.own)
  BY <1>2, <1>3, RebasedOwn
<1>7. Before(Len(ahead))' = was
  BY <1>4, <1>5 DEF Before
<1>8. Change(Len(ahead))' = op.paths
  BY <1>4, <1>5, <1>6, <1>7 DEF Change, Differ
<1>9. ASSUME NEW p \in op.paths
      PROVE  \/ was[p] = op.head[p]
             \/ \A j \in 1..(m - 1) : ahead'[j][p] = remote'[base'][p]
  BY <1>4, <1>5, <1>6
<1>10. ASSUME Storing, NEW p \in op.paths
       PROVE  /\ ahead'[m][p] = Mine(spent.own)
              /\ \A j \in 1..(m - 1) : ahead'[j][p] # Mine(spent.own)
              /\ \A i \in 1..Len(remote) : remote[i][p] # Mine(spent.own)
  BY <1>5, <1>6, <1>10
<1>11. op'.paths = op.paths /\ op'.head = op.head /\ (Storing' <=> Storing) /\ spent'.own = spent.own
  BY DEF SameOp, Storing
<1> QED BY <1>4, <1>7, <1>8, <1>9, <1>10, <1>11 DEF OwnCommit

(* It stays one as the remote grows.                                        *)
LEMMA GrownOwn ==
    ASSUME Typed, OwnCommit, UNCHANGED <<base, ahead>>, SameOp, spent'.own = spent.own,
           \A i \in 1..Len(remote) : i \in 1..Len(remote') /\ remote'[i] = remote[i],
           Len(remote') \in Nat,
           AllLanded' \/ \A p \in op.paths : \A i \in 1..Len(remote') :
                            Storing /\ remote'[i][p] = Mine(spent.own) =>
                               \E j \in 1..Len(remote) : remote[j][p] = Mine(spent.own)
    PROVE  OwnCommit'
<1>1. /\ Len(ahead) \in Nat /\ base \in 1..Len(remote) /\ Len(remote) \in Nat \ {0}
      /\ remote'[base] = remote[base]
  BY TreeTypes DEF Typed
<1>2. Before(Len(ahead))' = Before(Len(ahead)) /\ Change(Len(ahead))' = Change(Len(ahead))
  BY <1>1 DEF Before, Change
<1>3. AllLanded => AllLanded'
  <2>1. Len(remote) \in 1..Len(remote')
    BY <1>1
  <2>2. ASSUME AllLanded, NEW j \in 1..Len(ahead) PROVE base + j \in 1..Len(remote)
    BY <1>1, <2>2 DEF AllLanded
  <2> QED BY <1>1, <2>1, <2>2 DEF AllLanded
<1>4. op'.paths = op.paths /\ op'.head = op.head /\ (Storing' <=> Storing) /\ spent'.own = spent.own
  BY DEF SameOp, Storing
<1>5. ASSUME Storing, NEW p \in op.paths, \E i \in 1..Len(remote') : remote'[i][p] = Mine(spent.own)
      PROVE  AllLanded'
  <2>1. CASE \E i \in 1..Len(remote) : remote[i][p] = Mine(spent.own)
    BY <1>3, <1>5, <2>1 DEF OwnCommit
  <2> QED BY <1>5, <2>1
<1> QED BY <1>1, <1>2, <1>4, <1>5 DEF OwnCommit

LEMMA UnaimedFInv ==
    ASSUME IInv', AllWritten', ~Aimed'
    PROVE  FInv'
BY DEF FInv, Aims, Prepared, Owns, Untouched

LEMMA OpIs ==
    ASSUME Typed
    PROVE  /\ op \in Ops /\ op.paths \subseteq Paths
           /\ Storing => spent.own \in 1..MaxOwn
BY TypeParts DEF Typed, FlowType, Ops, Control

LEMMA WriteFInv ==
    ASSUME FInv, UNCHANGED refuses, NEW kind \in {"put", "batch"}, NEW P \in SUBSET Paths, P # {},
           Write(kind, P)
    PROVE  Aims' /\ Prepared' /\ Owns' /\ Untouched'
<1>1. Typed' /\ op'.kind = kind /\ op'.paths = P /\ spent'.own = spent.own + 1
  BY WriteTyped DEF FInv, IInv
<1>2. op'.undo /\ op'.saw = work /\ op'.head = Tip
  BY <1>1 DEF Write, Begin, Operation
<1>3. UNCHANGED <<remote, base, ahead>> /\ pc' = "add"
  BY DEF Write
<1>4. Tip' = Tip
  BY <1>3 DEF Tip
<1>5. \A p \in P : Absent(p)'
  <2>1. spent.own + 1 \in (spent.own + 1)..MaxOwn
    BY OwnType, TypeParts DEF FInv, IInv, Typed, Write
  <2>2. \A p \in Paths : /\ \A i \in 1..Len(remote) : remote[i][p] # Mine(spent.own + 1)
                         /\ \A k \in 1..Len(ahead) : ahead[k][p] # Mine(spent.own + 1)
    BY <2>1 DEF FInv, AllWritten, Written
  <2> QED BY <1>1, <1>3, <2>2 DEF Absent
<1>6. Aims' /\ Prepared' /\ Owns'
  BY <1>1, <1>2, <1>3, <1>4, <1>5 DEF Aims, Prepared, Owns
<1>7. Untouched'
  BY <1>1, <1>2 DEF Untouched, Write
<1> QED BY <1>6, <1>7

LEMMA DeleteFInv ==
    ASSUME FInv, NEW p \in Paths, Delete(p)
    PROVE  Aims' /\ Prepared' /\ Owns' /\ Untouched'
<1>1. op'.kind = "delete" /\ op'.paths = {p} /\ op'.undo /\ op'.saw = work /\ op'.head = Tip
  BY DEF Delete, Begin, Operation
<1>2. UNCHANGED <<remote, base, ahead>> /\ pc' = "commit"
  BY DEF Delete
<1>3. Tip' = Tip
  BY <1>2 DEF Tip
<1>4. Aims' /\ Prepared' /\ Owns'
  BY <1>1, <1>2, <1>3 DEF Aims, Prepared, Owns, Storing
<1>5. Untouched'
  <2>1. \A q \in Paths \ {p} : work'[q] = work[q]
    BY TypeParts DEF FInv, IInv, Typed, RepoType, Trees, Delete
  <2> QED BY <1>1, <2>1 DEF Untouched
<1> QED BY <1>4, <1>5

LEMMA AddFInv ==
    ASSUME FInv, Add
    PROVE  Aims' /\ Prepared' /\ Owns' /\ Untouched'
<1>1. UNCHANGED <<remote, base, ahead, work, op, spent, mishaps>> /\ pc = "add" /\ pc' = "commit"
  BY DEF Add, hist
<1>2. Tip' = Tip /\ (Aimed' <=> Aimed) /\ (Storing' <=> Storing)
  BY <1>1 DEF Tip, Aimed, Storing
<1>3. \A p : Absent(p)' <=> Absent(p)
  BY <1>1 DEF Absent
<1>4. \A p : Unpushed(p)' <=> Unpushed(p)
  BY <1>1 DEF Unpushed
<1> QED BY <1>1, <1>2, <1>3, <1>4 DEF FInv, Aims, Prepared, Owns, Untouched

LEMMA CommitFInv ==
    ASSUME FInv, UNCHANGED refuses, Commit, Aimed'
    PROVE  Aims' /\ Prepared' /\ Owns' /\ Untouched'
<1>1. /\ Typed /\ Commits /\ pc = "commit" /\ pc' = "push" /\ UNCHANGED <<remote, base, work, spent>>
  BY CommitTyped DEF FInv, IInv, Commit, Commits
<1>2. /\ op'.kind = op.kind /\ op'.paths = op.paths /\ op'.head = op.head /\ op'.saw = op.saw
      /\ op'.undo = op.undo /\ op'.made = (index # Tip)
  BY <1>1, OpIs DEF Commits, Ops
<1>3. (Storing' <=> Storing) /\ Aimed
  BY <1>2 DEF Storing, Aimed
<1>4. mishaps' = {} => /\ mishaps = {}
                       /\ ahead' # ahead => Differ(Tip, index) \subseteq op.paths
  BY <1>3 DEF Commit, Aimed, Storing
<1>5. Aims' /\ Prepared'
  BY <1>1, <1>2, <1>3 DEF FInv, Aims, Prepared
<1>6. Untouched'
  BY <1>1, <1>2, <1>3, <1>4 DEF FInv, Untouched, Unpushed
<1>7. ASSUME op'.made, mishaps' = {} PROVE OwnCommit'
  <2>1. index # Tip /\ ahead' = Append(ahead, index)
    BY <1>1, <1>2, <1>7 DEF Commits
  <2>2. /\ ahead \in Seq(Trees) /\ index \in Trees /\ Tip \in Trees /\ Len(ahead) \in Nat
        /\ op.paths \subseteq Paths
    BY <1>1, TreeTypes, OpIs, TypeParts DEF Typed, RepoType
  <2>3. /\ Len(ahead') = Len(ahead) + 1 /\ ahead'[Len(ahead) + 1] = index
        /\ \A j \in 1..Len(ahead) : ahead'[j] = ahead[j]
    BY <2>1, <2>2, AppendProperties
  <2>4. Before(Len(ahead))' = Tip
    <3>1. CASE Len(ahead) = 0
      BY <1>1, <2>2, <2>3, <3>1, EmptySeq DEF Before, Tip
    <3>2. CASE Len(ahead) # 0
      <4>1. /\ Len(ahead) \in 1..Len(ahead) /\ (Len(ahead) + 1) - 1 = Len(ahead)
            /\ Len(ahead) + 1 # 1 /\ ahead # <<>>
        BY <2>2, <3>2, EmptySeq
      <4> QED BY <2>3, <4>1 DEF Before, Tip, Last
    <3> QED BY <3>1, <3>2
  <2>5. Change(Len(ahead))' = Differ(Tip, index)
    BY <2>3, <2>4 DEF Change
  <2>6. op.head = Tip /\ (Storing => \A p \in op.paths : Absent(p))
    BY <1>1, <1>3 DEF FInv, Prepared
  <2>7. Storing => \A p \in op.paths : index[p] = Mine(spent.own) /\ Tip[p] # Mine(spent.own)
    <3>1. ASSUME NEW p, Absent(p) PROVE Tip[p] # Mine(spent.own)
      BY <1>1, <2>2, <3>1, TreeTypes, EmptySeq DEF Absent, Tip, Last, Typed
    <3>2. Storing => \A p \in op.paths : index[p] = Mine(spent.own)
      BY <1>1 DEF FInv, IInv, Carried
    <3> QED BY <2>6, <3>1, <3>2
  <2>8. Differ(Tip, index) = op.paths
    <3>1. Differ(Tip, index) \subseteq op.paths
      <4>1. ahead' # ahead
        BY <2>2, <2>3
      <4> QED BY <1>4, <1>7, <4>1
    <3>2. CASE Storing
      BY <2>2, <2>7, <3>1, <3>2 DEF Differ
    <3>3. CASE op.kind = "delete"
      <4>1. PICK q \in Paths : op.paths = {q}
        BY <1>3, <3>3 DEF FInv, Aims
      <4>2. Differ(Tip, index) # {}
        BY <2>1, <2>2 DEF Differ, Trees
      <4> QED BY <3>1, <4>1, <4>2
    <3> QED BY <1>3, <3>2, <3>3 DEF Aimed
  <2>9. ASSUME Storing, NEW p \in op.paths
        PROVE  /\ ahead'[Len(ahead')] = index /\ index[p] = Mine(spent.own)
               /\ \A j \in 1..(Len(ahead') - 1) : ahead'[j][p] # Mine(spent.own)
               /\ \A i \in 1..Len(remote) : remote[i][p] # Mine(spent.own)
    <3>1. Absent(p)
      BY <2>6, <2>9
    <3>2. (Len(ahead) + 1) - 1 = Len(ahead)
      BY <2>2
    <3> QED BY <2>3, <2>7, <2>9, <3>1, <3>2 DEF Absent
  <2>10. Len(ahead') # 0
    BY <2>2, <2>3
  <2> QED BY <1>1, <1>2, <1>3, <2>4, <2>5, <2>6, <2>8, <2>9, <2>10 DEF OwnCommit
<1>8. Owns'
  BY <1>7 DEF Owns
<1> QED BY <1>5, <1>6, <1>8

LEMMA PushFailsFInv ==
    ASSUME FInv, UNCHANGED refuses, PushFails
    PROVE  Aims' /\ Prepared' /\ Owns' /\ Untouched'
<1>1. /\ Typed /\ UNCHANGED <<ahead, base, work, op, mishaps>> /\ spent'.own = spent.own /\ RepoType
      /\ remote' = remote \/ (base = Len(remote) /\ remote' = remote \o ahead)
      /\ pc = "push" /\ pc' \in {"failed", "pull"}
  BY PushFailsTyped, TypeParts DEF FInv, IInv, Typed, PushFails, local, repo, hist
<1>2. \A i \in 1..Len(remote) : i \in 1..Len(remote') /\ remote'[i] = remote[i]
  BY <1>1, RemoteGrows
<1>3. SameOp /\ (Aimed' <=> Aimed) /\ (Storing' <=> Storing)
  BY <1>1 DEF SameOp, Aimed, Storing
<1>4. Aims' /\ Prepared'
  BY <1>1, <1>3 DEF FInv, Aims, Prepared
<1>5. \A p : Unpushed(p)' => Unpushed(p)
  BY <1>1, <1>2 DEF Unpushed
<1>6. Untouched'
  BY <1>1, <1>3, <1>5 DEF FInv, Untouched
<1>7. ASSUME OwnCommit PROVE OwnCommit'
  <2>1. CASE remote' = remote
    <3>1. Len(remote') \in Nat
      BY <1>1, <2>1, TreeTypes DEF Typed
    <3> QED BY <1>1, <1>2, <1>3, <1>7, <2>1, <3>1, GrownOwn
  <2>2. CASE base = Len(remote) /\ remote' = remote \o ahead
    <3>1. Len(remote') = Len(remote) + Len(ahead) /\ Len(remote) \in Nat /\ Len(ahead) \in Nat
      BY <1>1, <2>2, Concatenated, TreeTypes DEF Typed
    <3>2. \A j \in 1..Len(ahead) : remote'[Len(remote) + j] = ahead[j]
      <4>1. remote \in Seq(Trees) /\ ahead \in Seq(Trees)
        BY <1>1 DEF RepoType
      <4>2. \A i \in 1..Len(remote) + Len(ahead) :
               (remote \o ahead)[i] = IF i <= Len(remote) THEN remote[i] ELSE ahead[i - Len(remote)]
        BY <4>1, ConcatProperties
      <4> TAKE j \in 1..Len(ahead)
      <4>3. /\ Len(remote) + j \in 1..Len(remote) + Len(ahead) /\ ~(Len(remote) + j <= Len(remote))
            /\ (Len(remote) + j) - Len(remote) = j
        BY <3>1
      <4> QED BY <2>2, <4>2, <4>3
    <3>3. AllLanded'
      BY <1>1, <2>2, <3>1, <3>2 DEF AllLanded
    <3>4. Len(remote') \in Nat
      BY <3>1
    <3> QED BY <1>1, <1>2, <1>3, <1>7, <3>3, <3>4, GrownOwn
  <2> QED BY <1>1, <2>1, <2>2
<1>8. Owns'
  BY <1>1, <1>3, <1>7 DEF FInv, Owns
<1> QED BY <1>4, <1>6, <1>8

(* What this device wrote and has not pushed survives a pull that leaves no *)
(* conflict in the stash.                                                   *)
LEMMA PulledUntouched ==
    ASSUME TypeOK, Pulled, mishaps' = {}, NEW p \in Paths,
           \A i \in 1..Len(remote) : remote[i][p] # work[p]
    PROVE  work'[p] = work[p]
<1> DEFINE tip  == Rebased(Len(ahead))
           torn == {q \in Stashed : tip[q] \notin {Tip[q], work[q]}}
<1>1. torn = {}
  BY DEF Pulled
<1>2. work' = [q \in Paths |-> IF q \in torn THEN (IF tip[q] = None THEN work[q] ELSE Torn)
                               ELSE IF q \in Stashed \cup Untracked THEN work[q] ELSE tip[q]]
  BY DEF Pulled
<1>3. CASE p \in Stashed \cup Untracked
  <2> HIDE DEF torn, tip
  <2> QED BY <1>1, <1>2, <1>3
<1>4. CASE p \notin Stashed \cup Untracked
  <2>1. work[p] = Tip[p] /\ work'[p] = tip[p]
    <3>1. work[p] = Tip[p]
      BY <1>4 DEF Stashed
    <3> HIDE DEF torn, tip
    <3> QED BY <1>1, <1>2, <1>4, <3>1
  <2>2. /\ Len(ahead) \in Nat /\ Landed \in 0..Len(ahead) /\ base \in 1..Len(remote)
        /\ Len(remote) \in Nat /\ base + Landed <= Len(remote)
        /\ ahead # <<>> => Len(ahead) # 0
    BY TreeTypes, LandedIs, EmptySeq DEF TypeOK
  <2>3. ahead # <<>>
    BY <2>1, <2>2 DEF Tip
  <2>4. Tip = ahead[Len(ahead)] /\ Len(ahead) + 1 # 1 /\ (Len(ahead) + 1) - 1 = Len(ahead)
    BY <2>2, <2>3 DEF Tip, Last
  <2>5. \E j \in (Landed + 1)..Len(ahead) : p \in Change(j)
    <3>1. SUFFICES ASSUME \A j \in (Landed + 1)..Len(ahead) : p \notin Change(j) PROVE FALSE
      OBVIOUS
    <3>2. Len(ahead) \in Landed..Len(ahead) /\ base + Landed \in 1..Len(remote)
      BY <2>2
    <3>3. Before(Len(ahead) + 1)[p] = remote[base + Landed][p]
      BY <3>1, <3>2, Unchanged
    <3>4. Before(Len(ahead) + 1) = ahead[Len(ahead)]
      BY <2>4 DEF Before
    <3> QED BY <2>1, <2>4, <3>2, <3>3, <3>4
  <2> QED BY <2>1, <2>4, <2>5, RebasedAt
<1> QED BY <1>3, <1>4

LEMMA RetryPullFInv ==
    ASSUME FInv, UNCHANGED refuses, RetryPull
    PROVE  Aims' /\ Prepared' /\ Owns' /\ Untouched'
<1>1. /\ Typed /\ TypeOK /\ UNCHANGED remote /\ spent'.own = spent.own
      /\ pc = "pull" /\ pc' \in {"push", "failed"}
  BY RetryPullTyped DEF FInv, IInv, Typed
<1>2. SameOp
  BY <1>1, OpIs DEF RetryPull, Rebases, SameOp, Ops
<1>3. (Aimed' <=> Aimed) /\ (Storing' <=> Storing)
  BY <1>2 DEF SameOp, Aimed, Storing
<1>4. \/ UNCHANGED <<repo, mishaps>> /\ (op'.made => op.made)
      \/ Pulled /\ (op'.made => op.made /\ Len(ahead) \in Kept)
  <2>1. CASE \E found \in BOOLEAN : PullReturns(found) /\ Rebases
    <3>1. op'.made = (op.made /\ Survives)
      BY <1>1, <2>1, OpIs DEF Rebases, Ops
    <3> QED BY <2>1, <3>1 DEF PullReturns, Survives, local
  <2>2. CASE \E paths \in {{}, Conflicting} : PullThrows(paths) /\ op' = [op EXCEPT !.err = paths]
    <3>1. op'.made = op.made
      BY <1>1, <2>2, OpIs DEF Ops
    <3> QED BY <2>2, <3>1 DEF PullThrows, local
  <2> QED BY <2>1, <2>2 DEF RetryPull
<1>5. mishaps' = {} => mishaps = {}
  BY <1>4 DEF Pulled
<1>6. Aims' /\ Prepared'
  BY <1>1, <1>2, <1>3 DEF FInv, Aims, Prepared, SameOp
<1>7. \A i \in 1..Len(remote) : i \in 1..Len(remote') /\ remote'[i] = remote[i]
  BY <1>1
<1>8. Untouched'
  <2>1. ASSUME Aimed, mishaps' = {}, NEW p \in Paths \ op.paths, Unpushed(p)
        PROVE  work'[p] = op.saw[p]
    <3>1. work[p] = op.saw[p]
      BY <1>5, <2>1 DEF FInv, Untouched
    <3>2. CASE UNCHANGED <<repo, mishaps>>
      BY <3>1, <3>2 DEF repo
    <3>3. CASE Pulled
      <4>1. \A i \in 1..Len(remote) : remote[i][p] # work[p]
        BY <2>1, <3>1 DEF Unpushed
      <4> QED BY <1>1, <2>1, <3>1, <3>3, <4>1, PulledUntouched
    <3> QED BY <1>4, <3>2, <3>3
  <2>2. \A p : Unpushed(p)' <=> Unpushed(p)
    BY <1>1, <1>2 DEF Unpushed, SameOp
  <2>3. op'.paths = op.paths /\ op'.saw = op.saw
    BY <1>2 DEF SameOp
  <2> QED BY <1>3, <2>1, <2>2, <2>3 DEF Untouched
<1>9. ASSUME Aimed, op'.made, mishaps' = {} PROVE OwnCommit'
  <2>1. OwnCommit /\ Aims
    BY <1>1, <1>4, <1>5, <1>9 DEF FInv, Owns
  <2>2. CASE UNCHANGED <<repo, mishaps>>
    <3>1. UNCHANGED <<base, ahead>> /\ Len(remote') \in Nat
      BY <1>1, <2>2, TreeTypes DEF repo
    <3>2. \A p \in op.paths : \A i \in 1..Len(remote') :
             Storing /\ remote'[i][p] = Mine(spent.own) =>
                \E j \in 1..Len(remote) : remote[j][p] = Mine(spent.own)
      BY <1>1
    <3> QED BY <1>1, <1>2, <1>7, <2>1, <3>1, <3>2, GrownOwn
  <2>3. CASE Pulled /\ Len(ahead) \in Kept
    BY <1>1, <1>2, <1>9, <2>1, <2>3, PulledOwn
  <2> QED BY <1>4, <1>9, <2>2, <2>3
<1>10. Owns'
  BY <1>3, <1>9 DEF Owns
<1> QED BY <1>6, <1>8, <1>10

LEMMA PeerPushFInv ==
    ASSUME FInv, UNCHANGED refuses, NEW q \in Paths, PeerPush(q)
    PROVE  Aims' /\ Prepared' /\ Owns' /\ Untouched'
<1>1. /\ Typed /\ TypeOK /\ RepoType /\ UNCHANGED <<ahead, base, work, pc, op, mishaps>>
      /\ spent'.own = spent.own
  BY PeerPushTyped, TypeParts DEF FInv, IInv, Typed, PeerPush, local, repo, hist
<1>2. PICK c \in {Peers(spent.peers + 1), None} : remote' = Append(remote, [Origin EXCEPT ![q] = c])
  BY DEF PeerPush
<1>3. [Origin EXCEPT ![q] = c] \in Trees /\ Origin \in Trees /\ Len(remote) \in Nat \ {0}
      /\ base \in 1..Len(remote) /\ remote \in Seq(Trees)
  BY <1>1, PeerTree, TreeTypes DEF PeerPush, RepoType
<1>4. /\ Len(remote') = Len(remote) + 1 /\ remote'[Len(remote) + 1] = [Origin EXCEPT ![q] = c]
      /\ \A i \in 1..Len(remote) : i \in 1..Len(remote') /\ remote'[i] = remote[i]
  BY <1>2, <1>3, AppendProperties
<1>5. Tip' = Tip
  BY <1>1, <1>3, <1>4 DEF Tip
<1>6. SameOp /\ (Aimed' <=> Aimed) /\ (Storing' <=> Storing)
  BY <1>1 DEF SameOp, Aimed, Storing
<1>7. ASSUME Storing, NEW p \in op.paths, NEW i \in 1..Len(remote'), remote'[i][p] = Mine(spent.own)
      PROVE  \E j \in 1..Len(remote) : remote[j][p] = Mine(spent.own)
  <2>1. CASE i \in 1..Len(remote)
    BY <1>4, <1>7, <2>1
  <2>2. CASE i = Len(remote) + 1
    <3>1. c # Mine(spent.own) /\ p \in Paths
      BY <1>1, <1>7, OpIs, MineIs
    <3>2. Origin[p] = Mine(spent.own)
      BY <1>3, <1>4, <1>7, <2>2, <3>1 DEF Trees
    <3>3. Len(remote) \in 1..Len(remote)
      BY <1>3
    <3> QED BY <3>2, <3>3 DEF Origin, Last
  <2> QED BY <1>3, <1>4, <2>1, <2>2
<1>8. ASSUME Storing, NEW p \in op.paths, Absent(p) PROVE Absent(p)'
  <2>1. \A i \in 1..Len(remote') : remote'[i][p] # Mine(spent.own)
    BY <1>7, <1>8 DEF Absent
  <2> QED BY <1>1, <1>8, <2>1 DEF Absent
<1>9. Aims' /\ Prepared'
  BY <1>1, <1>5, <1>6, <1>8 DEF FInv, Aims, Prepared
<1>10. \A p : Unpushed(p)' => Unpushed(p)
  BY <1>1, <1>4 DEF Unpushed
<1>11. Untouched'
  BY <1>1, <1>6, <1>10 DEF FInv, Untouched
<1>12. ASSUME OwnCommit PROVE OwnCommit'
  <2>1. Len(remote') \in Nat
    BY <1>3, <1>4
  <2>2. \A p \in op.paths : \A i \in 1..Len(remote') :
             Storing /\ remote'[i][p] = Mine(spent.own) =>
                \E j \in 1..Len(remote) : remote[j][p] = Mine(spent.own)
    BY <1>7
  <2> QED BY <1>1, <1>4, <1>6, <1>12, <2>1, <2>2, GrownOwn
<1>13. Owns'
  BY <1>1, <1>6, <1>12 DEF FInv, Owns
<1> QED BY <1>9, <1>11, <1>13

LEMMA InitFInv == Init => FInv
<1> SUFFICES ASSUME Init PROVE FInv
  OBVIOUS
<1>1. IInv
  BY InitIInv
<1>2. op.kind = "none"
  BY DEF Init, Operation
<1>3. ~Aimed
  BY <1>2 DEF Aimed, Storing
<1>4. Aims /\ Prepared /\ Owns /\ Untouched
  BY <1>3 DEF Aims, Prepared, Owns, Untouched
<1>5. PICK E \in {{}, Existing} : remote = <<[p \in Paths |-> IF p \in E THEN Peers(0) ELSE None]>>
  BY DEF Init
<1>6. Len(remote) = 1 /\ \A p \in Paths : remote[1][p] \in {Peers(0), None}
  BY <1>5
<1>7. \A m \in (spent.own + 1)..MaxOwn : Mine(m) # Peers(0) /\ Mine(m) # None
  BY <1>1, MineIs, OwnType, TypeParts DEF IInv, Typed
<1>8. Written(spent.own, remote[1])
  BY <1>6, <1>7 DEF Written
<1>9. AllWritten
  BY <1>6, <1>8, EmptySeq DEF Init, AllWritten
<1> QED BY <1>1, <1>4, <1>9 DEF FInv

LEMMA StepFInv == FInv /\ [Next]_vars => FInv'
<1> SUFFICES ASSUME FInv, [Next]_vars PROVE FInv'
  OBVIOUS
<1>1. IInv' /\ AllWritten' /\ Typed
  BY StepIInv, StepWritten DEF FInv, IInv
<1>2. SUFFICES ~Aimed' \/ (Aims' /\ Prepared' /\ Owns' /\ Untouched')
  BY <1>1, UnaimedFInv DEF FInv
<1>3. CASE UNCHANGED vars
  <2>1. /\ UNCHANGED <<remote, seen, base, ahead, index, work, unmerged>> /\ UNCHANGED <<pc, op, tries>>
        /\ UNCHANGED <<based, acked, mishaps>> /\ UNCHANGED <<refuses, spent>>
    BY <1>3 DEF vars, local, repo, hist
  <2>2. Aims' /\ Prepared'
    BY <2>1 DEF FInv, Aims, Prepared, Aimed, Storing, Absent, Tip
  <2>3. OwnCommit => OwnCommit'
    BY <2>1 DEF OwnCommit, Change, Before, AllLanded, Storing
  <2>4. Owns' /\ Untouched'
    BY <2>1, <2>3 DEF FInv, Owns, Untouched, Unpushed, Aimed, Storing
  <2> QED BY <2>2, <2>4
<1>4. CASE Next
  <2>0. UNCHANGED refuses
    BY <1>4 DEF Next
  <2>1. CASE \E p \in Paths : Put(p)
    <3>1. PICK p \in Paths : Put(p)
      BY <2>1
    <3>2. {p} \in SUBSET Paths /\ {p} # {}
      OBVIOUS
    <3> QED BY <2>0, <3>1, <3>2, WriteFInv DEF Put
  <2>2. CASE \E P \in SUBSET Paths : PutBatch(P)
    <3>1. PICK P \in SUBSET Paths : PutBatch(P)
      BY <2>2
    <3>2. P # {}
      BY <3>1, FS_EmptySet DEF PutBatch
    <3> QED BY <2>0, <3>1, <3>2, WriteFInv DEF PutBatch
  <2>3. CASE \E P \in SUBSET Paths : \E Q \in SUBSET P : PutBatchFails(P, Q)
    BY <1>1, <2>0, <2>3, PutBatchFailsTyped
  <2>4. CASE \E p \in Paths : Delete(p)
    BY <2>4, DeleteFInv
  <2>5. CASE BeginSync \/ Start
    BY <1>1, <2>0, <2>5, CallTyped
  <2>6. CASE Add
    BY <2>6, AddFInv
  <2>7. CASE Commit
    BY <2>0, <2>7, CommitFInv
  <2>8. CASE PushAccepted
    BY <1>1, <2>0, <2>8, PushAcceptedTyped
  <2>9. CASE PushFails
    BY <2>0, <2>9, PushFailsFInv
  <2>10. CASE RetryPull
    BY <2>0, <2>10, RetryPullFInv
  <2>11. CASE Undo
    BY <1>1, <2>0, <2>11, UndoTyped
  <2>12. CASE Rollback \/ GiveUp
    BY <1>1, <2>0, <2>12, RollbackTyped
  <2>13. CASE SyncPull \/ Reconcile
    BY <1>1, <2>0, <2>13, SyncPullTyped, ReconcileTyped
  <2>14. CASE Recover \/ CommitLeft
    BY <1>1, <2>0, <2>14, RecoverTyped, CommitLeftTyped
  <2>15. CASE Crash
    BY <1>1, <2>0, <2>15, CrashTyped
  <2>16. CASE \E p \in Paths : PeerPush(p)
    BY <2>0, <2>16, PeerPushFInv
  <2> QED
    BY <1>4, <2>1, <2>2, <2>3, <2>4, <2>5, <2>6, <2>7, <2>8, <2>9, <2>10, <2>11, <2>12, <2>13,
       <2>14, <2>15, <2>16 DEF Next, Step, Call
<1> QED BY <1>3, <1>4

(***************************************************************************)
(* An operation that fails                                                  *)
(***************************************************************************)

Undone == Fails /\ mishaps' = {} =>
             /\ \A p \in op.paths : work'[p] \in {op.saw[p], op.head[p], remote[base'][p]}
             /\ \A p \in Paths \ op.paths : Unpushed(p) => work'[p] = op.saw[p]

LEMMA FailsByRollback ==
    ASSUME FInv, [Next]_vars, Fails
    PROVE  Rollback
<1>0. Typed /\ Aimed /\ pc \in {"add", "commit", "push", "pull", "failed"} /\ op.undo
  BY DEF FInv, IInv, Typed, Control, Fails, Aims, Aimed, Storing
<1>1. pc' = "idle" /\ op'.res = "failed"
  BY DEF Fails
<1>2. ~UNCHANGED vars
  BY <1>0, <1>1 DEF vars
<1>3. ~(Add \/ PushFails \/ RetryPull \/ GiveUp \/ Reconcile \/ Recover \/ CommitLeft \/ SyncPull)
  BY <1>0, <1>1 DEF Add, PushFails, Retry, RetryPull, GiveUp, Reconcile, Recover, CommitLeft, SyncPull
<1>4. ~(Call \/ BeginSync \/ Start \/ Crash)
  BY <1>0, <1>1 DEF Call, Put, PutBatch, Write, PutBatchFails, Delete, BeginSync, Start, Crash
<1>5. ~ \E p \in Paths : PeerPush(p)
  BY <1>0, <1>1 DEF PeerPush
<1>6. \A kind, res : [Operation(kind, {}) EXCEPT !.res = res].res = res
  BY DEF Operation
<1>7. \A res : Return(res) => op'.res = res
  BY <1>6 DEF Return
<1>8. ~(Commit \/ PushAccepted \/ Undo)
  BY <1>1, <1>7 DEF Commit, PushAccepted, Undo
<1> QED BY <1>2, <1>3, <1>4, <1>5, <1>8 DEF Next, Step

LEMMA StepUndone == FInv /\ [Next]_vars => Undone
<1> SUFFICES ASSUME FInv, [Next]_vars, Fails, mishaps' = {}
             PROVE  /\ \A p \in op.paths : work'[p] \in {op.saw[p], op.head[p], remote[base'][p]}
                    /\ \A p \in Paths \ op.paths : Unpushed(p) => work'[p] = op.saw[p]
  BY DEF Undone
<1>1. Rollback
  BY FailsByRollback
<1>2. /\ mishaps = {} /\ HeadIsOwn /\ Reverts /\ pc = "failed" /\ base' = base
      /\ work' = Over(work, Parent, Differ(Parent, Tip))
  BY <1>1 DEF Rollback
<1>3. Typed /\ TypeOK /\ Aimed /\ op.paths # {}
  BY DEF FInv, IInv, Typed, Fails, Aims, Aimed, Storing
<1>4. OwnCommit
  BY <1>2, <1>3 DEF FInv, Owns, HeadIsOwn
<1>5. Len(ahead) \in Nat \ {0} /\ ahead # <<>> /\ op.paths \subseteq Paths
  BY <1>3, <1>4, OpIs, TreeTypes, EmptySeq DEF OwnCommit
<1>6. Parent = Before(Len(ahead)) /\ Tip = ahead[Len(ahead)]
  BY <1>5 DEF Parent, Before, Tip, Last
<1>7. Differ(Parent, Tip) = op.paths
  BY <1>4, <1>6 DEF OwnCommit, Change
<1>8. ASSUME NEW p \in op.paths PROVE work'[p] \in {op.head[p], remote[base'][p]}
  <2>1. work'[p] = Before(Len(ahead))[p]
    BY <1>2, <1>5, <1>6, <1>7 DEF Over
  <2>2. CASE Before(Len(ahead))[p] = op.head[p]
    BY <2>1, <2>2
  <2>3. CASE \A j \in 1..(Len(ahead) - 1) : ahead[j][p] = remote[base][p]
    <3>1. \A n \in Nat \ {0} : n # 1 => n - 1 \in 1..(n - 1)
      OBVIOUS
    <3>2. Len(ahead) # 1 => Len(ahead) - 1 \in 1..(Len(ahead) - 1)
      BY <1>5, <3>1
    <3> QED BY <1>2, <2>1, <2>3, <3>2 DEF Before
  <2> QED BY <1>4, <2>2, <2>3 DEF OwnCommit
<1>9. ASSUME NEW p \in Paths \ op.paths, Unpushed(p) PROVE work'[p] = op.saw[p]
  <2>1. work'[p] = work[p]
    BY <1>2, <1>7 DEF Over
  <2> QED BY <1>2, <1>3, <1>9, <2>1 DEF FInv, Untouched
<1> QED BY <1>8, <1>9

(* Outside the named windows a put, putBatch or delete that reports a failed*)
(* push leaves its files as they were, as the last commit or as the remote  *)
(* has them, and rollbackLastCommit takes nothing of this device's that was *)
(* not pushed with it.                                                      *)
THEOREM FailedIsUndoneHolds == Spec => FailedIsUndone
<1>1. FInv /\ [Next]_vars => [Fails /\ mishaps' = {} =>
             /\ \A p \in op.paths : work'[p] \in {op.saw[p], op.head[p], remote[base'][p]}
             /\ \A p \in Paths \ op.paths : Unpushed(p) => work'[p] = op.saw[p]]_vars
  BY StepUndone DEF Undone
<1> QED BY InitFInv, StepFInv, <1>1, PTL DEF Spec, FailedIsUndone

(***************************************************************************)
(* Where each file's content comes from: the tip, the index and the file,   *)
(* commit by commit, against what the others pushed meanwhile.              *)
(***************************************************************************)

(* The content w is s, or was written by somebody who saw s.                *)
Follows(p, s, w) == s = w \/ <<p, s, w>> \in based

Chain(p) == /\ Follows(p, Tip[p], index[p]) /\ Follows(p, index[p], work[p])
            /\ Follows(p, Tip[p], work[p])

(* The commits the remote does not have, and what it has beyond the others. *)
Unlanded == (Landed + 1)..Len(ahead)
Later    == (base + Landed + 1)..Len(remote)

First(p, k) == \A i \in (Landed + 1)..(k - 1) : ahead[i][p] = Before(i)[p]
Quiet(p)    == First(p, Len(ahead) + 1)

(* Every change that a push would bring was asked for here, or is the first *)
(* one of its file and takes what the remote had meanwhile.                 *)
Lines(p) == \A k \in Unlanded :
               \/ Asked(p, Before(k)[p], ahead[k][p])
               \/ First(p, k) /\ \E j \in Later : remote[j][p] = ahead[k][p]
Tidy(p)  == Chain(p) /\ Lines(p)

(* The file moved on the remote and not in a commit here.                   *)
Moved(p) == \E j \in Later : remote[j][p] # remote[base + Landed][p]
Pending(p) ==
    /\ Quiet(p) /\ Moved(p)
    /\ \/ index[p] = Tip[p] /\ p \notin Untracked
       \/ /\ index[p] # None /\ Follows(p, index[p], work[p])
          /\ ~(op.kind = "put" /\ pc \in {"push", "pull", "failed"})

(* It was changed on both sides: the next pull stops at it.                 *)
ClashAt(p, j) == \E k \in Unlanded : /\ First(p, k) /\ ahead[k][p] # Before(k)[p]
                                     /\ remote[j][p] \notin {Before(k)[p], ahead[k][p]}
Lost(p)    == \E j \in Later : ClashAt(p, j)
Good(p)    == Tidy(p) \/ Pending(p) \/ Lost(p)
Settled(p) == Chain(p) /\ \A k \in 1..Len(ahead) : Asked(p, Before(k)[p], ahead[k][p])

(***************************************************************************)
(* How far the commits have landed, as the remote and the commits grow.     *)
(***************************************************************************)

Landing(r, b, a) == Max({k \in 0..Len(a) : /\ b + k <= Len(r)
                                           /\ \A j \in 1..k : r[b + j] = a[j]})

LEMMA LandingIs ==
    ASSUME NEW r \in Seq(Trees), NEW a \in Seq(Trees), NEW b \in 1..Len(r)
    PROVE  /\ Landing(r, b, a) \in 0..Len(a) /\ b + Landing(r, b, a) <= Len(r)
           /\ \A j \in 1..Landing(r, b, a) : r[b + j] = a[j]
           /\ \A k \in 0..Len(a) : b + k <= Len(r) /\ (\A j \in 1..k : r[b + j] = a[j])
                                      => k <= Landing(r, b, a)
<1> DEFINE T == {k \in 0..Len(a) : b + k <= Len(r) /\ \A j \in 1..k : r[b + j] = a[j]}
<1>1. Len(a) \in Nat /\ Len(r) \in Nat
  BY LenProperties
<1>2. 0 \in T /\ T \in SUBSET (0..Len(a))
  BY <1>1
<1>3. Max(T) \in T /\ \A m \in T : Max(T) >= m
  BY <1>1, <1>2, MaxNatural
<1>4. Landing(r, b, a) = Max(T)
  BY DEF Landing
<1>5. \A k \in T : k <= Landing(r, b, a)
  BY <1>1, <1>2, <1>3, <1>4
<1> QED BY <1>3, <1>4, <1>5

LEMMA LandingMeets ==
    ASSUME NEW r \in Seq(Trees), NEW a \in Seq(Trees), NEW b \in 1..Len(r), NEW k \in 0..Len(a),
           b + k <= Len(r), \A j \in 1..k : r[b + j] = a[j],
           k = Len(a) \/ b + k = Len(r) \/ r[b + k + 1] # a[k + 1]
    PROVE  Landing(r, b, a) = k
<1>1. Len(a) \in Nat /\ Len(r) \in Nat
  BY LenProperties
<1>2. PICK m \in 0..Len(a) : m = Landing(r, b, a)
  BY LandingIs
<1>3. k <= m /\ b + m <= Len(r) /\ \A j \in 1..m : r[b + j] = a[j]
  BY <1>2, LandingIs
<1>4. ~(k < m)
  <2>1. SUFFICES ASSUME k < m PROVE FALSE
    OBVIOUS
  <2>2. k + 1 \in 1..m /\ b + (k + 1) = b + k + 1 /\ k # Len(a) /\ b + k # Len(r)
    BY <1>1, <1>2, <1>3, <2>1
  <2> QED BY <1>3, <2>2
<1> QED BY <1>1, <1>2, <1>3, <1>4

LEMMA LandedIsLanding == Landed = Landing(remote, base, ahead) /\ Landed' = Landing(remote', base', ahead')
BY DEF Landed, Landing

LEMMA Positions ==
    ASSUME TypeOK
    PROVE  /\ remote \in Seq(Trees) /\ ahead \in Seq(Trees) /\ base \in 1..Len(remote)
           /\ Len(ahead) \in Nat /\ Len(remote) \in Nat /\ base \in Nat /\ Landed \in Nat
           /\ Landed <= Len(ahead) /\ Landed \in 0..Len(ahead)
           /\ base + Landed <= Len(remote) /\ base + Landed \in 1..Len(remote)
           /\ \A j \in 1..Landed : remote[base + j] = ahead[j]
           /\ \A k \in Unlanded : k \in 1..Len(ahead) /\ k \in Nat
           /\ \A j \in Later : j \in 1..Len(remote) /\ j \in Nat
<1>1. /\ remote \in Seq(Trees) /\ ahead \in Seq(Trees) /\ base \in 1..Len(remote)
      /\ Len(ahead) \in Nat /\ Len(remote) \in Nat
  BY TreeTypes DEF TypeOK
<1>2. Landed \in 0..Len(ahead) /\ base + Landed <= Len(remote) /\ \A j \in 1..Landed : remote[base + j] = ahead[j]
  BY LandedIs
<1> QED BY <1>1, <1>2 DEF Unlanded, Later

(* The next commit, if there is one, is not what the remote has next.       *)
LEMMA LandedStops ==
    ASSUME TypeOK
    PROVE  \/ Landed = Len(ahead) \/ base + Landed = Len(remote)
           \/ remote[base + Landed + 1] # ahead[Landed + 1]
<1>1. SUFFICES ASSUME Landed # Len(ahead), base + Landed # Len(remote),
                      remote[base + Landed + 1] = ahead[Landed + 1]
               PROVE  FALSE
  OBVIOUS
<1>2. PICK m \in 0..Len(ahead) : m = Landed
  BY Positions
<1>3. /\ m + 1 \in 0..Len(ahead) /\ base + (m + 1) <= Len(remote) /\ base + (m + 1) = base + m + 1
      /\ ~(m + 1 <= m) /\ \A j \in 1..(m + 1) : j \in 1..m \/ j = m + 1
  <2>1. \A n, b, r \in Nat : \A i \in 0..n :
           i # n /\ b + i <= r /\ b + i # r =>
              /\ i + 1 \in 0..n /\ b + (i + 1) <= r /\ b + (i + 1) = b + i + 1
              /\ ~(i + 1 <= i) /\ \A j \in 1..(i + 1) : j \in 1..i \/ j = i + 1
    OBVIOUS
  <2>2. /\ Len(ahead) \in Nat /\ base \in Nat /\ Len(remote) \in Nat
        /\ m # Len(ahead) /\ base + m <= Len(remote) /\ base + m # Len(remote)
    BY <1>1, <1>2, Positions
  <2> QED BY <2>1, <2>2
<1>4. \A j \in 1..(m + 1) : remote[base + j] = ahead[j]
  BY <1>1, <1>2, <1>3, Positions
<1>5. m + 1 <= Landing(remote, base, ahead)
  BY <1>3, <1>4, LandingIs, Positions
<1> QED BY <1>2, <1>3, <1>5, LandedIsLanding

(* Before the first change of a file it is as the remote had it.            *)
LEMMA QuietBefore ==
    ASSUME TypeOK, NEW p \in Paths, NEW k \in Landed..Len(ahead), First(p, k + 1)
    PROVE  Before(k + 1)[p] = remote[base + Landed][p]
<1>1. k \in Nat /\ (k + 1) - 1 = k
  BY Positions
<1>2. \A j \in (Landed + 1)..k : p \notin Change(j)
  BY <1>1 DEF First, Change, Differ
<1> QED BY <1>2, Unchanged

LEMMA TipIsBefore ==
    ASSUME TypeOK
    PROVE  /\ Tip = Before(Len(ahead) + 1)
           /\ Len(ahead) # 0 => Tip = ahead[Len(ahead)] /\ Parent = Before(Len(ahead)) /\ ahead # <<>>
           /\ Len(ahead) = 0 => Tip = remote[base] /\ ahead = <<>>
<1>1. Len(ahead) \in Nat /\ (ahead = <<>> <=> Len(ahead) = 0)
  BY Positions, EmptySeq
<1>2. Len(ahead) # 0 => Len(ahead) + 1 # 1 /\ (Len(ahead) + 1) - 1 = Len(ahead) /\ (Len(ahead) > 1 <=> Len(ahead) # 1)
  <2>1. \A n \in Nat : n # 0 => n + 1 # 1 /\ (n + 1) - 1 = n /\ (n > 1 <=> n # 1)
    OBVIOUS
  <2> QED BY <1>1, <2>1
<1> QED BY <1>1, <1>2 DEF Tip, Before, Last, Parent

LEMMA QuietTip ==
    ASSUME TypeOK, NEW p \in Paths, Quiet(p)
    PROVE  Tip[p] = remote[base + Landed][p]
<1>1. Len(ahead) \in Landed..Len(ahead)
  BY Positions
<1> QED BY <1>1, QuietBefore, TipIsBefore DEF Quiet

(***************************************************************************)
(* What each kind of step leaves of it.                                     *)
(***************************************************************************)

LEMMA Stays ==
    ASSUME TypeOK, UNCHANGED <<base, ahead>>, Landed' = Landed, based \subseteq based', Len(remote') \in Nat,
           \A i \in 1..Len(remote) : i \in 1..Len(remote') /\ remote'[i] = remote[i], NEW p
    PROVE  /\ Tip' = Tip /\ \A k : Before(k)' = Before(k)
           /\ Quiet(p)' <=> Quiet(p)
           /\ \A j \in Later : j \in Later' /\ (ClashAt(p, j) => ClashAt(p, j)')
           /\ Lines(p) => Lines(p)'
           /\ Moved(p) => Moved(p)'
           /\ Lost(p) => Lost(p)'
<1>1. /\ Len(remote) \in 1..Len(remote') /\ base \in 1..Len(remote) /\ base + Landed \in 1..Len(remote)
      /\ Len(remote) \in Nat /\ Landed \in Nat /\ base \in Nat
  BY Positions
<1>2. Tip' = Tip /\ \A k : Before(k)' = Before(k)
  BY <1>1 DEF Tip, Before
<1>3. Unlanded' = Unlanded /\ \A k : First(p, k)' <=> First(p, k)
  BY <1>2 DEF Unlanded, First
<1>4. \A j \in Later : j \in Later' /\ remote'[j] = remote[j]
  <2>1. \A j \in Later : j \in Later'
    BY <1>1 DEF Later
  <2> QED BY <2>1, Positions
<1>5. Quiet(p)' <=> Quiet(p)
  BY <1>3 DEF Quiet
<1>6. \A j \in Later : ClashAt(p, j) => ClashAt(p, j)'
  BY <1>2, <1>3, <1>4 DEF ClashAt
<1>7. Lines(p) => Lines(p)'
  BY <1>2, <1>3, <1>4 DEF Lines, Asked
<1>8. Moved(p) => Moved(p)'
  BY <1>1, <1>4 DEF Moved
<1>9. Lost(p) => Lost(p)'
  BY <1>4, <1>6 DEF Lost
<1> QED BY <1>2, <1>4, <1>5, <1>6, <1>7, <1>8, <1>9

LEMMA LandedSame == UNCHANGED <<remote, base, ahead>> => Landed' = Landed
BY LandedIsLanding

(* As the remote grows nothing lands while something is later already.      *)
LEMMA LandedGrown ==
    ASSUME TypeOK, UNCHANGED <<base, ahead>>, remote' \in Seq(Trees),
           \A i \in 1..Len(remote) : i \in 1..Len(remote') /\ remote'[i] = remote[i]
    PROVE  Landed' >= Landed /\ Landed' \in 0..Len(ahead) /\ (Later # {} => Landed' = Landed)
<1>1. PICK m \in 0..Len(ahead) : m = Landed
  BY Positions
<1>2. /\ Len(remote') \in Nat /\ Len(remote) \in Nat \ {0} /\ Len(remote) \in 1..Len(remote')
      /\ base \in 1..Len(remote') /\ ahead \in Seq(Trees) /\ base \in Nat /\ Len(ahead) \in Nat
      /\ base + m <= Len(remote) /\ base + m <= Len(remote')
  <2>1. Len(remote') \in Nat /\ Len(remote) \in Nat \ {0} /\ base \in 1..Len(remote) /\ base + m <= Len(remote)
    BY <1>1, Positions, LenProperties
  <2> QED BY <1>1, <2>1, Positions
<1>3. \A j \in 1..m : remote'[base + j] = ahead[j]
  <2> TAKE j \in 1..m
  <2>1. base + j \in 1..Len(remote)
    BY <1>1, <1>2
  <2> QED BY <1>1, <2>1, Positions
<1>4. Landing(remote', base, ahead) \in 0..Len(ahead) /\ m <= Landing(remote', base, ahead)
  BY <1>2, <1>3, LandingIs
<1>5. ASSUME Later # {} PROVE Landing(remote', base, ahead) = m
  <2>1. base + m + 1 \in 1..Len(remote) /\ base + m # Len(remote)
    <3>1. PICK j \in (base + m + 1)..Len(remote) : TRUE
      BY <1>1, <1>5 DEF Later
    <3> QED BY <1>1, <1>2, <3>1
  <2>2. m = Len(ahead) \/ remote[base + m + 1] # ahead[m + 1]
    BY <1>1, <2>1, LandedStops
  <2>3. m = Len(ahead) \/ remote'[base + m + 1] # ahead[m + 1]
    BY <2>1, <2>2
  <2> QED BY <1>2, <1>3, <2>3, LandingMeets
<1>6. Landed' = Landing(remote', base, ahead)
  BY LandedIsLanding
<1>7. Landed' \in 0..Len(ahead) /\ m <= Landed'
  BY <1>4, <1>6
<1>8. Landed' >= m
  BY <1>2, <1>7
<1> QED BY <1>1, <1>5, <1>6, <1>7, <1>8

(* With nothing later every commit is as it was asked for.                  *)
LEMMA NothingLater ==
    ASSUME TypeOK, Later = {}, NEW p, Good(p)
    PROVE  Chain(p) /\ \A k \in Unlanded : Asked(p, Before(k)[p], ahead[k][p])
BY DEF Good, Lost, Pending, Moved, Tidy, Lines

Putting == op.kind = "put" /\ pc \in {"push", "pull", "failed"}

LEMMA GrownGood ==
    ASSUME TypeOK, UNCHANGED <<base, ahead, index, work, based>>, remote' \in Seq(Trees), Putting' => Putting,
           \A i \in 1..Len(remote) : i \in 1..Len(remote') /\ remote'[i] = remote[i], NEW p, Good(p)
    PROVE  Good(p)'
<1>1. Len(remote') \in Nat /\ based \subseteq based'
  BY LenProperties
<1>2. Tip' = Tip /\ \A k : Before(k)' = Before(k)
  <2>1. remote'[base] = remote[base]
    BY Positions
  <2> QED BY <2>1 DEF Tip, Before
<1>3. Chain(p) => Chain(p)'
  BY <1>2 DEF Chain, Follows
<1>4. CASE Later = {}
  <2>1. \A k \in Unlanded' : k \in Unlanded
    <3>1. Landed' >= Landed /\ Landed' \in 0..Len(ahead)
      BY LandedGrown
    <3>2. Landed \in Nat /\ Len(ahead) \in Nat
      BY Positions
    <3>3. \A n, l \in Nat : \A m \in 0..n : m >= l => \A k \in (m + 1)..n : k \in (l + 1)..n
      OBVIOUS
    <3>4. Unlanded' = (Landed' + 1)..Len(ahead)
      BY DEF Unlanded
    <3> QED BY <3>1, <3>2, <3>3, <3>4 DEF Unlanded
  <2>2. Chain(p) /\ \A k \in Unlanded : Asked(p, Before(k)[p], ahead[k][p])
    BY <1>4, NothingLater
  <2>3. Lines(p)'
    BY <1>2, <2>1, <2>2 DEF Lines, Asked
  <2> QED BY <1>3, <2>2, <2>3 DEF Good, Tidy
<1>5. CASE Later # {}
  <2>1. Landed' = Landed
    BY <1>5, LandedGrown
  <2>2. /\ Quiet(p)' <=> Quiet(p)
        /\ Lines(p) => Lines(p)'
        /\ Moved(p) => Moved(p)'
        /\ Lost(p) => Lost(p)'
    BY <1>1, <2>1, Stays
  <2>3. Pending(p) => Pending(p)'
    BY <1>2, <2>2 DEF Pending, Putting, Follows, Untracked
  <2> QED BY <1>3, <2>2, <2>3 DEF Good, Tidy
<1> QED BY <1>4, <1>5

(* One more commit.                                                         *)
LEMMA AppendedIs ==
    ASSUME TypeOK, NEW n \in Nat, n = Len(ahead), NEW t \in Trees, ahead' = Append(ahead, t), UNCHANGED <<remote, base>>
    PROVE  /\ Len(ahead') = n + 1 /\ ahead'[n + 1] = t /\ Tip' = t
           /\ \A k \in 1..n : ahead'[k] = ahead[k] /\ Before(k)' = Before(k)
           /\ Before(n + 1)' = Tip
           /\ \/ Landed' = Landed
              \/ /\ Landed = n /\ Landed' = n + 1
                 /\ base + Landed + 1 \in Later /\ remote[base + Landed + 1] = t
<1>1. /\ ahead \in Seq(Trees) /\ n \in Nat /\ base \in 1..Len(remote) /\ Len(remote) \in Nat
      /\ remote \in Seq(Trees) /\ base \in Nat
  BY Positions
<1>2. /\ ahead' \in Seq(Trees) /\ Len(ahead') = n + 1 /\ ahead'[n + 1] = t
      /\ \A k \in 1..n : ahead'[k] = ahead[k]
  BY <1>1, AppendProperties
<1>3. \A i \in Nat : /\ i + 1 # 0 /\ (i + 1) - 1 = i /\ (i # 0 => i + 1 # 1 /\ i \in 1..i)
                     /\ \A k \in 1..i : k # 1 => k - 1 \in 1..i
  OBVIOUS
<1>4. n + 1 # 0 /\ (n + 1) - 1 = n /\ (n # 0 => n + 1 # 1 /\ n \in 1..n) /\ \A k \in 1..n : k # 1 => k - 1 \in 1..n
  BY <1>1, <1>3
<1>5. ahead' # <<>>
  BY <1>2, <1>4, EmptySeq
<1>6. Tip' = t
  BY <1>2, <1>5 DEF Tip, Last
<1>7. \A k \in 1..n : Before(k)' = Before(k)
  BY <1>2, <1>4 DEF Before
<1>8. Before(n + 1)' = Tip
  <2>1. CASE n = 0
    BY <1>1, <2>1, TipIsBefore DEF Before
  <2>2. CASE n # 0
    BY <1>2, <1>4, <2>2, TipIsBefore DEF Before
  <2> QED BY <2>1, <2>2
<1>9. PICK m \in 0..n : m = Landed
  BY Positions
<1>10. base + m <= Len(remote) /\ m \in 0..Len(ahead') /\ \A j \in 1..m : remote[base + j] = ahead'[j]
  <2>1. \A j \in 1..m : j \in 1..n
    BY <1>1, <1>9
  <2>2. m \in 0..(n + 1)
    BY <1>1, <1>9
  <2> QED BY <1>2, <1>9, <2>1, <2>2, Positions
<1>11. Landed' = Landing(remote, base, ahead')
  BY LandedIsLanding
<1>12. CASE m # n
  <2>1. base + m = Len(remote) \/ remote[base + m + 1] # ahead[m + 1]
    BY <1>9, <1>12, LandedStops
  <2>2. m + 1 \in 1..n
    BY <1>1, <1>9, <1>12
  <2>4. base + m = Len(remote) \/ remote[base + m + 1] # ahead'[m + 1]
    BY <1>2, <2>1, <2>2
  <2>3. Landing(remote, base, ahead') = m
    BY <1>1, <1>2, <1>10, <2>4, LandingMeets
  <2> QED BY <1>2, <1>6, <1>7, <1>8, <1>9, <1>11, <2>3
<1>13. CASE m = n /\ (base + m = Len(remote) \/ remote[base + m + 1] # t)
  <2>1. Landing(remote, base, ahead') = m
    BY <1>1, <1>2, <1>10, <1>13, LandingMeets
  <2> QED BY <1>2, <1>6, <1>7, <1>8, <1>9, <1>11, <2>1
<1>14. CASE m = n /\ base + m # Len(remote) /\ remote[base + m + 1] = t
  <2>1. /\ m + 1 \in 0..(n + 1) /\ base + (m + 1) <= Len(remote) /\ base + (m + 1) = base + m + 1
        /\ base + m + 1 \in (base + m + 1)..Len(remote) /\ \A j \in 1..(m + 1) : j \in 1..m \/ j = m + 1
    <3>1. \A b, r \in Nat : \A i \in Nat :
             b + i <= r /\ b + i # r =>
                /\ i + 1 \in 0..(i + 1) /\ b + (i + 1) <= r /\ b + (i + 1) = b + i + 1
                /\ b + i + 1 \in (b + i + 1)..r /\ \A j \in 1..(i + 1) : j \in 1..i \/ j = i + 1
      OBVIOUS
    <3> QED BY <1>1, <1>10, <1>14, <3>1
  <2>2. \A j \in 1..(m + 1) : remote[base + j] = ahead'[j]
    BY <1>2, <1>10, <1>14, <2>1
  <2>3. m + 1 \in 0..Len(ahead') /\ m + 1 = Len(ahead')
    BY <1>2, <1>14, <2>1
  <2>4. Landing(remote, base, ahead') = m + 1
    <3> QED BY <1>1, <1>2, <2>1, <2>2, <2>3, LandingMeets
  <2> QED BY <1>2, <1>6, <1>7, <1>8, <1>9, <1>11, <1>14, <2>1, <2>4 DEF Later
<1> QED BY <1>12, <1>13, <1>14

LEMMA AppendedLines ==
    ASSUME TypeOK, NEW n \in Nat, n = Len(ahead), NEW t \in Trees, ahead' = Append(ahead, t), UNCHANGED <<remote, base, based>>, NEW p
    PROVE  /\ Lost(p) => Lost(p)'
           /\ Lines(p) /\ Asked(p, Tip[p], t[p]) => Lines(p)'
           /\ Landed' # Landed => Lines(p)'
           /\ Landed' = Landed => Unlanded' = Unlanded \cup {n + 1} /\ Later' = Later
           /\ Landed' = Landed => (First(p, n + 1)' <=> Quiet(p))
<1>1. /\ Len(ahead') = n + 1 /\ ahead'[n + 1] = t
      /\ \A k \in 1..n : ahead'[k] = ahead[k] /\ Before(k)' = Before(k)
      /\ Before(n + 1)' = Tip
      /\ Landed' = Landed \/ (Landed = n /\ Landed' = n + 1)
  BY AppendedIs
<1>2. /\ n \in Nat /\ Landed \in Nat /\ Landed <= n /\ \A k \in Unlanded : k \in 1..n /\ k \in Nat
  BY Positions
<1>3. ASSUME Landed' # Landed PROVE Lines(p)' /\ ~Lost(p)
  <2>1. Landed = n /\ Landed' = n + 1
    BY <1>1, <1>3
  <2>2. \A i \in Nat : (i + 1)..i = {} /\ ((i + 1) + 1)..(i + 1) = {}
    OBVIOUS
  <2>3. Unlanded = {}
    BY <1>2, <2>1, <2>2 DEF Unlanded
  <2>4. Unlanded' = ((n + 1) + 1)..(n + 1)
    BY <1>1, <2>1 DEF Unlanded
  <2>5. Unlanded' = {}
    BY <1>2, <2>2, <2>4
  <2> QED BY <2>3, <2>5 DEF Lines, Lost, ClashAt
<1>4. ASSUME Landed' = Landed
      PROVE  /\ Unlanded' = Unlanded \cup {n + 1} /\ Later' = Later
             /\ \A k \in Unlanded : First(p, k)' <=> First(p, k)
             /\ First(p, n + 1)' <=> Quiet(p)
  <2>1. \A a, l \in Nat : l <= a => (l + 1)..(a + 1) = ((l + 1)..a) \cup {a + 1}
    OBVIOUS
  <2>2. Unlanded' = (Landed + 1)..(n + 1)
    BY <1>1, <1>4 DEF Unlanded
  <2>3. Unlanded' = Unlanded \cup {n + 1}
    BY <1>2, <2>1, <2>2 DEF Unlanded
  <2>4. Later' = Later
    BY <1>4 DEF Later
  <2>5. \A k \in 1..(n + 1) : \A i \in (Landed + 1)..(k - 1) : i \in 1..n
    BY <1>2
  <2>6. \A k \in 1..(n + 1) : First(p, k)' <=> First(p, k)
    BY <1>1, <1>4, <2>5 DEF First
  <2>7. n + 1 \in 1..(n + 1) /\ \A k \in 1..n : k \in 1..(n + 1)
    BY <1>2
  <2> QED BY <1>2, <2>3, <2>4, <2>6, <2>7 DEF Quiet
<1>5. Lost(p) => Lost(p)'
  <2>1. SUFFICES ASSUME Lost(p) PROVE Lost(p)'
    OBVIOUS
  <2>2. Landed' = Landed
    BY <1>3, <2>1
  <2>3. PICK j \in Later, k \in Unlanded :
           First(p, k) /\ ahead[k][p] # Before(k)[p] /\ remote[j][p] \notin {Before(k)[p], ahead[k][p]}
    BY <2>1 DEF Lost, ClashAt
  <2>4. j \in Later' /\ k \in Unlanded' /\ First(p, k)' /\ ahead'[k] = ahead[k] /\ Before(k)' = Before(k)
    BY <1>1, <1>2, <1>4, <2>2, <2>3
  <2> QED BY <2>3, <2>4 DEF Lost, ClashAt
<1>6. ASSUME Lines(p), Asked(p, Tip[p], t[p]) PROVE Lines(p)'
  <2>1. CASE Landed' # Landed
    BY <1>3, <2>1
  <2>2. CASE Landed' = Landed
    <3>1. ASSUME NEW k \in Unlanded
          PROVE  \/ Asked(p, Before(k)[p], ahead[k][p])'
                 \/ First(p, k)' /\ \E j \in Later' : remote'[j][p] = ahead'[k][p]
      <4>1. ahead'[k] = ahead[k] /\ Before(k)' = Before(k) /\ (First(p, k)' <=> First(p, k)) /\ Later' = Later
        BY <1>1, <1>2, <1>4, <2>2
      <4> QED BY <1>6, <4>1 DEF Lines, Asked
    <3>2. Asked(p, Before(n + 1)[p], ahead[n + 1][p])'
      BY <1>1, <1>6 DEF Asked
    <3>3. Unlanded' = Unlanded \cup {n + 1}
      BY <1>4, <2>2
    <3> QED BY <3>1, <3>2, <3>3 DEF Lines
  <2> QED BY <2>1, <2>2
<1> QED BY <1>3, <1>4, <1>5, <1>6

LEMMA QuietLines == \A p : Quiet(p) /\ TypeOK => Lines(p)
<1> SUFFICES ASSUME NEW p, Quiet(p), TypeOK, NEW k \in Unlanded PROVE Before(k)[p] = ahead[k][p]
  BY DEF Lines, Asked
<1>1. k \in (Landed + 1)..((Len(ahead) + 1) - 1)
  BY Positions DEF Unlanded
<1> QED BY <1>1 DEF Quiet, First

(* ... that takes a pending file along or not.                              *)
LEMMA AppendedPending ==
    ASSUME TypeOK, NEW n \in Nat, n = Len(ahead), NEW t \in Trees, ahead' = Append(ahead, t), UNCHANGED <<remote, base, based>>,
           NEW p \in Paths, Quiet(p), Moved(p)
    PROVE  /\ t[p] = Tip[p] => Quiet(p)' /\ Moved(p)'
           /\ t[p] # Tip[p] => \/ Lost(p)'
                               \/ Lines(p)' /\ \E i \in 1..Len(remote) : remote[i][p] = t[p]
<1>1. /\ Len(ahead') = n + 1 /\ ahead'[n + 1] = t /\ Before(n + 1)' = Tip
      /\ \A k \in 1..n : ahead'[k] = ahead[k] /\ Before(k)' = Before(k)
      /\ \/ Landed' = Landed
         \/ /\ Landed = n /\ Landed' = n + 1
            /\ base + Landed + 1 \in Later /\ remote[base + Landed + 1] = t
  BY AppendedIs
<1>2. Tip[p] = remote[base + Landed][p]
  BY QuietTip
<1>3. PICK j \in Later : remote[j][p] # remote[base + Landed][p]
  BY DEF Moved
<1>4. /\ n \in Nat /\ Landed \in Nat /\ Landed <= n /\ base \in Nat /\ Len(remote) \in Nat
      /\ \A k \in Unlanded : k \in 1..n /\ k \in Nat
      /\ j \in 1..Len(remote)
  BY Positions
<1>5. /\ Landed' # Landed => Lines(p)'
      /\ Landed' = Landed => Unlanded' = Unlanded \cup {n + 1} /\ Later' = Later
      /\ Landed' = Landed => First(p, n + 1)'
  BY AppendedLines
<1>6. CASE Landed' = Landed
  <2>1. ASSUME t[p] = Tip[p] PROVE Quiet(p)' /\ Moved(p)'
    <3>1. \A i \in (Landed + 1)..n : ahead'[i][p] = Before(i)'[p]
      <4>1. \A i \in (Landed + 1)..((n + 1) - 1) : ahead'[i][p] = Before(i)'[p]
        BY <1>5, <1>6 DEF First
      <4>2. (n + 1) - 1 = n
        BY <1>4
      <4> QED BY <4>1, <4>2
    <3>2. ahead'[n + 1][p] = Before(n + 1)'[p]
      BY <1>1, <2>1
    <3>3. \A i \in (Landed + 1)..((n + 1) + 1 - 1) : i \in (Landed + 1)..n \/ i = n + 1
      BY <1>4
    <3>6. Quiet(p)' <=> \A i \in (Landed' + 1)..((Len(ahead') + 1) - 1) : ahead'[i][p] = Before(i)'[p]
      BY DEF Quiet, First
    <3>7. (Landed' + 1)..((Len(ahead') + 1) - 1) = (Landed + 1)..((n + 1) + 1 - 1)
      BY <1>1, <1>6
    <3>4. Quiet(p)'
      BY <3>1, <3>2, <3>3, <3>6, <3>7
    <3>5. Moved(p)'
      BY <1>3, <1>5, <1>6 DEF Moved
    <3> QED BY <3>4, <3>5
  <2>2. ASSUME t[p] # Tip[p], remote[j][p] # t[p] PROVE Lost(p)'
    <3>1. n + 1 \in Unlanded' /\ j \in Later'
      BY <1>3, <1>5, <1>6
    <3>2. ahead'[n + 1][p] # Before(n + 1)'[p] /\ remote'[j][p] \notin {Before(n + 1)'[p], ahead'[n + 1][p]}
      BY <1>1, <1>2, <1>3, <2>2
    <3> QED BY <1>5, <1>6, <3>1, <3>2 DEF Lost, ClashAt
  <2>3. ASSUME remote[j][p] = t[p] PROVE Lines(p)'
    <3>1. First(p, n + 1)' /\ j \in Later' /\ remote'[j][p] = ahead'[n + 1][p]
      BY <1>1, <1>3, <1>5, <1>6, <2>3
    <3>2. \A k \in Unlanded : Asked(p, Before(k)[p], ahead[k][p])'
      <4>1. \A k \in Unlanded : k \in (Landed + 1)..((n + 1) - 1)
        BY <1>4 DEF Unlanded
      <4>2. \A k \in Unlanded : ahead'[k][p] = Before(k)'[p]
        BY <1>5, <1>6, <4>1 DEF First
      <4> QED BY <4>2 DEF Asked
    <3>3. Unlanded' = Unlanded \cup {n + 1}
      BY <1>5, <1>6
    <3> QED BY <3>1, <3>2, <3>3 DEF Lines
  <2> QED BY <1>4, <2>1, <2>2, <2>3
<1>7. CASE Landed' # Landed
  <2>0. /\ Landed = n /\ Landed' = n + 1 /\ base + Landed + 1 \in Later /\ remote[base + Landed + 1] = t
    BY <1>1, <1>7
  <2>1. ASSUME t[p] = Tip[p] PROVE Quiet(p)' /\ Moved(p)'
    <3>1. Quiet(p)'
      <4>1. \A i \in ((n + 1) + 1)..((n + 1) + 1 - 1) : FALSE
        BY <1>4
      <4>2. Quiet(p)' <=> \A i \in ((n + 1) + 1)..((n + 1) + 1 - 1) : ahead'[i][p] = Before(i)'[p]
        BY <1>1, <2>0 DEF Quiet, First
      <4> QED BY <4>1, <4>2
    <3>2. j # base + Landed + 1
      BY <1>2, <1>3, <2>0, <2>1
    <3>3. \A b, l, r \in Nat : /\ b + (l + 1) = b + l + 1
                               /\ \A i \in (b + l + 1)..r : i # b + l + 1 => i \in (b + (l + 1) + 1)..r
      OBVIOUS
    <3>4. base + (Landed + 1) = base + Landed + 1 /\ j \in (base + (Landed + 1) + 1)..Len(remote)
      BY <1>3, <1>4, <3>2, <3>3 DEF Later
    <3>5. Later' = (base + (Landed + 1) + 1)..Len(remote)
      BY <2>0 DEF Later
    <3>6. remote'[base' + Landed'][p] = remote[base + Landed][p]
      BY <1>2, <2>0, <2>1, <3>4
    <3>7. Moved(p)'
      BY <1>3, <3>4, <3>5, <3>6 DEF Moved
    <3> QED BY <3>1, <3>7
  <2>2. base + Landed + 1 \in 1..Len(remote)
    BY <2>0, Positions
  <2> QED BY <1>5, <1>7, <2>0, <2>1, <2>2
<1> QED BY <1>6, <1>7

(* The last commit undone.                                                  *)
LEMMA FrontedIs ==
    ASSUME TypeOK, NEW n \in Nat, n = Len(ahead), Landed < n, ahead' = Front(ahead), UNCHANGED <<remote, base>>
    PROVE  /\ Len(ahead') = n - 1 /\ Landed' = Landed /\ Tip' = Before(n)
           /\ \A k \in 1..(n - 1) : ahead'[k] = ahead[k] /\ Before(k)' = Before(k)
<1>1. /\ ahead \in Seq(Trees) /\ base \in 1..Len(remote) /\ Len(remote) \in Nat
      /\ remote \in Seq(Trees) /\ base \in Nat
  BY Positions
<1>2. PICK m \in Nat : m = Landed
  BY Positions
<1>3. /\ n # 0 /\ n - 1 \in Nat /\ m \in 0..(n - 1) /\ (n - 1) + 1 = n
      /\ \A k \in 1..(n - 1) : k \in 1..n /\ (k # 1 => k - 1 \in 1..(n - 1))
      /\ (n - 1 # 0 => n - 1 \in 1..(n - 1) /\ n # 1)
      /\ (n - 1 = 0 => n = 1) /\ \A k \in 1..m : k \in 1..(n - 1)
  <2>1. m < n
    BY <1>2
  <2> QED BY <1>2, <2>1
<1>4. ahead' \in Seq(Trees) /\ Len(ahead') = n - 1
  <2>1. ahead' \in Seq(Trees)
    BY FrontType
  <2>2. ahead # <<>>
    BY <1>3, EmptySeq
  <2>3. Len(Front(ahead)) = Len(ahead) - 1
    BY <2>2, FrontIs
  <2> QED BY <2>1, <2>3
<1>5. \A k \in 1..(n - 1) : ahead'[k] = ahead[k]
  BY <1>4, FrontIs
<1>6. \A k \in 1..(n - 1) : Before(k)' = Before(k)
  BY <1>3, <1>5 DEF Before
<1>7. Tip' = Before(n)
  <2>1. CASE n - 1 = 0
    <3>1. ahead' = <<>>
      BY <1>4, <2>1, EmptySeq
    <3> QED BY <1>3, <2>1, <3>1 DEF Tip, Before
  <2>2. CASE n - 1 # 0
    <3>1. ahead' # <<>>
      BY <1>4, <2>2, EmptySeq
    <3> QED BY <1>3, <1>4, <1>5, <2>2, <3>1 DEF Tip, Before, Last
  <2> QED BY <2>1, <2>2
<1>8. Landing(remote, base, ahead') = m
  <2>1. base + m <= Len(remote) /\ \A j \in 1..m : remote[base + j] = ahead'[j]
    BY <1>2, <1>3, <1>5, Positions
  <2>2. m = n - 1 \/ base + m = Len(remote) \/ remote[base + m + 1] # ahead'[m + 1]
    <3>1. base + m = Len(remote) \/ remote[base + m + 1] # ahead[m + 1]
      BY <1>2, LandedStops
    <3>2. m # n - 1 => m + 1 \in 1..(n - 1)
      BY <1>3
    <3> QED BY <1>5, <3>1, <3>2
  <2> QED BY <1>1, <1>3, <1>4, <2>1, <2>2, LandingMeets
<1> QED BY <1>2, <1>4, <1>5, <1>6, <1>7, <1>8, LandedIsLanding

LEMMA FrontedLines ==
    ASSUME TypeOK, NEW n \in Nat, n = Len(ahead), Landed < n, ahead' = Front(ahead),
           UNCHANGED <<remote, base, based>>, NEW p
    PROVE  /\ Later' = Later /\ (Quiet(p)' <=> First(p, n))
           /\ Lines(p) => Lines(p)'
           /\ Quiet(p) => Quiet(p)'
           /\ Moved(p) => Moved(p)'
           /\ Lost(p) => \/ Lost(p)'
                         \/ First(p, n) /\ ahead[n][p] # Before(n)[p]
<1>1. /\ Len(ahead') = n - 1 /\ Landed' = Landed
      /\ \A k \in 1..(n - 1) : ahead'[k] = ahead[k] /\ Before(k)' = Before(k)
  BY FrontedIs
<1>2. Landed \in Nat /\ Landed < n
  BY Positions
<1>3. Later' = Later
  BY <1>1 DEF Later
<1>4. /\ Unlanded' = (Landed + 1)..(n - 1) /\ Unlanded = (Landed + 1)..n
  BY <1>1 DEF Unlanded
<1>5. /\ \A k \in (Landed + 1)..(n - 1) : k \in 1..(n - 1) /\ k \in (Landed + 1)..n
      /\ \A k \in (Landed + 1)..n : k = n \/ k \in (Landed + 1)..(n - 1)
      /\ \A k \in 1..n : \A i \in (Landed + 1)..(k - 1) : i \in 1..(n - 1)
      /\ n \in 1..n /\ (n - 1) + 1 = n
      /\ \A k \in (Landed + 1)..n : k \in 1..n
      /\ \A i \in (Landed + 1)..(n - 1) : i \in (Landed + 1)..((n + 1) - 1)
  BY <1>2
<1>6. \A k \in 1..n : First(p, k)' <=> First(p, k)
  BY <1>1, <1>5 DEF First
<1>7. Quiet(p)' <=> First(p, n)
  <2>1. Quiet(p)' <=> First(p, n)'
    BY <1>1, <1>5 DEF Quiet, First
  <2> QED BY <1>5, <1>6, <2>1
<1>8. Quiet(p) => First(p, n)
  BY <1>5 DEF Quiet, First
<1>9. Lines(p) => Lines(p)'
  <2>1. SUFFICES ASSUME Lines(p), NEW k \in (Landed + 1)..(n - 1)
                 PROVE  \/ Asked(p, Before(k)[p], ahead[k][p])'
                        \/ First(p, k)' /\ \E j \in Later' : remote'[j][p] = ahead'[k][p]
    BY <1>4 DEF Lines
  <2>2. ahead'[k] = ahead[k] /\ Before(k)' = Before(k) /\ (First(p, k)' <=> First(p, k)) /\ k \in Unlanded
    BY <1>1, <1>4, <1>5, <1>6
  <2> QED BY <1>3, <2>1, <2>2 DEF Lines, Asked
<1>10. Moved(p) => Moved(p)'
  BY <1>1, <1>3 DEF Moved
<1>11. ASSUME Lost(p), ~(First(p, n) /\ ahead[n][p] # Before(n)[p]) PROVE Lost(p)'
  <2>1. PICK j \in Later, k \in Unlanded :
           First(p, k) /\ ahead[k][p] # Before(k)[p] /\ remote[j][p] \notin {Before(k)[p], ahead[k][p]}
    BY <1>11 DEF Lost, ClashAt
  <2>2. k # n
    BY <1>11, <2>1
  <2>3. k \in (Landed + 1)..(n - 1) /\ k \in 1..n
    BY <1>4, <1>5, <2>1, <2>2
  <2>4. j \in Later' /\ k \in Unlanded' /\ First(p, k)' /\ ahead'[k] = ahead[k] /\ Before(k)' = Before(k)
    BY <1>1, <1>3, <1>4, <1>5, <1>6, <2>1, <2>3
  <2> QED BY <2>1, <2>4 DEF Lost, ClashAt
<1> QED BY <1>3, <1>7, <1>8, <1>9, <1>10, <1>11

(***************************************************************************)
(* A pull that hit no window settles every file.                            *)
(***************************************************************************)

LEMMA PulledLine ==
    ASSUME TypeOK, Pulled, UNCHANGED remote, NEW i \in 1..Len(Replayed)
    PROVE  \E m \in Unlanded : ahead'[i] = Rebased(m) /\ Before(i)' = Rebased(m - 1)
<1> DEFINE C(k) == Cardinality(Upto(Kept, k))
<1>1. PICK n \in Nat : n = Len(ahead)
  BY Positions
<1>2. /\ Kept \in SUBSET (1..n) /\ Cardinality(Kept) \in Nat /\ Len(Replayed) = Cardinality(Kept)
      /\ Landed \in Nat /\ i \in 1..Cardinality(Kept) /\ i \in Nat
  BY <1>1, KeptIs, ReplayedType, Positions
<1>3. PICK m \in Kept : m = Nth(Kept, i) /\ C(m) = i /\ Replayed[i] = Rebased(m)
  BY <1>1, <1>2, NthIs, ReplayedType
<1>4. m \in (Landed + 1)..n
  BY <1>1 DEF Kept
<1>5. m - 1 \in Nat /\ m - 1 \in Landed..n /\ (m - 1) + 1 = m /\ m \in Nat
  BY <1>1, <1>2, <1>4
<1>6. C(m) = C(m - 1) + 1 /\ C(m - 1) \in Nat
  <2>1. C((m - 1) + 1) = C(m - 1) + (IF (m - 1) + 1 \in Kept THEN 1 ELSE 0)
    BY <1>1, <1>2, <1>5, UptoNext
  <2>2. C(m - 1) \in Nat
    BY <1>1, <1>2, <1>5, UptoCardinality
  <2> QED BY <1>3, <1>5, <2>1, <2>2
<1>7. Rebased(m - 1) = IF C(m - 1) = 0 THEN Origin ELSE Replayed[C(m - 1)]
  BY <1>1, <1>5, RebasedIsReplayed
<1>8. C(m - 1) = i - 1
  BY <1>2, <1>3, <1>6
<1> HIDE DEF C
<1>9. Rebased(m - 1) = IF i = 1 THEN Origin ELSE Replayed[i - 1]
  BY <1>2, <1>7, <1>8
<1>10. ahead' = Replayed /\ remote'[base'] = Origin
  BY DEF Pulled, Origin, Last
<1>11. Before(i)' = IF i = 1 THEN Origin ELSE Replayed[i - 1]
  BY <1>10 DEF Before
<1> QED BY <1>1, <1>3, <1>4, <1>9, <1>10, <1>11 DEF Unlanded

LEMMA PulledTip ==
    ASSUME TypeOK, Pulled, UNCHANGED remote
    PROVE  Tip' = Rebased(Len(ahead))
<1> DEFINE C(k) == Cardinality(Upto(Kept, k))
<1>1. PICK n \in Nat : n = Len(ahead)
  BY Positions
<1>2. /\ Kept \in SUBSET (1..n) /\ Len(Replayed) = Cardinality(Kept) /\ n \in Landed..n
      /\ Replayed \in Seq(Trees)
  BY <1>1, KeptIs, ReplayedType, Positions
<1>3. C(n) = Len(Replayed)
  BY <1>1, <1>2, UptoCardinality
<1>4. Rebased(n) = IF C(n) = 0 THEN Origin ELSE Replayed[C(n)]
  BY <1>1, <1>2, RebasedIsReplayed
<1> HIDE DEF C
<1>5. ahead' = Replayed /\ remote'[base'] = Origin
  BY DEF Pulled, Origin, Last
<1>6. Len(Replayed) = 0 <=> Replayed = <<>>
  BY <1>2, EmptySeq
<1> QED BY <1>1, <1>3, <1>4, <1>5, <1>6 DEF Tip, Last

LEMMA NoClash ==
    ASSUME TypeOK, Conflicts = {}, NEW p \in Paths, NEW k \in Unlanded, First(p, k), ahead[k][p] # Before(k)[p]
    PROVE  Origin[p] \in {Before(k)[p], ahead[k][p]}
<1>1. Clashing = {}
  <2>1. SUFFICES ASSUME Clashing # {} PROVE FALSE
    OBVIOUS
  <2>2. Clashing \in SUBSET Nat
    BY Positions DEF Clashing, Unlanded
  <2>3. PICK x \in Clashing : \A y \in Clashing : x <= y
    BY <2>1, <2>2, LeastNatural
  <2>4. Min(Clashing) \in Clashing
    BY <2>3 DEF Min
  <2>5. Conflicts = Clash(Min(Clashing)) /\ Clash(Min(Clashing)) # {}
    BY <2>1, <2>4 DEF Conflicts, Clashing
  <2> QED BY <2>5
<1>2. Clash(k) = {}
  BY <1>1 DEF Clashing, Unlanded
<1>3. p \in Change(k) /\ \A j \in (Landed + 1)..(k - 1) : p \notin Change(j)
  BY DEF Change, Differ, First
<1> QED BY <1>2, <1>3 DEF Clash

(* Files changed here went one step at most elsewhere.                      *)
LEMMA NotPassed ==
    ASSUME TypeOK, Passed = {}, NEW p \in Paths, NEW j \in Later,
           p \in Stashed \/ \E k \in Unlanded : ahead[k][p] # Before(k)[p]
    PROVE  remote[j][p] \in {remote[base + Landed][p], Origin[p]}
<1>1. j \in (base + Landed)..Len(remote)
  BY Positions DEF Later
<1>2. p \in Stashed \cup UNION {Change(k) : k \in (Landed + 1)..Len(ahead)}
  BY DEF Change, Differ, Unlanded
<1> QED BY <1>1, <1>2 DEF Passed

LEMMA FirstChange ==
    ASSUME TypeOK, NEW p \in Paths, NEW k \in Unlanded, First(p, k)
    PROVE  Before(k)[p] = remote[base + Landed][p] /\ k - 1 \in Landed..Len(ahead)
<1>1. k - 1 \in Landed..Len(ahead) /\ (k - 1) + 1 = k
  BY Positions DEF Unlanded
<1> QED BY <1>1, QuietBefore

LEMMA NotLost ==
    ASSUME TypeOK, Conflicts = {}, Passed = {}, NEW p \in Paths
    PROVE  ~Lost(p)
<1>1. SUFFICES ASSUME NEW j \in Later, NEW k \in Unlanded, First(p, k), ahead[k][p] # Before(k)[p],
                      remote[j][p] \notin {Before(k)[p], ahead[k][p]}
               PROVE  FALSE
  BY DEF Lost, ClashAt
<1>2. Origin[p] \in {Before(k)[p], ahead[k][p]}
  BY <1>1, NoClash
<1>3. Before(k)[p] = remote[base + Landed][p]
  BY <1>1, FirstChange
<1>4. remote[j][p] \in {remote[base + Landed][p], Origin[p]}
  BY <1>1, NotPassed
<1> QED BY <1>1, <1>2, <1>3, <1>4

LEMMA RebasedOver ==
    ASSUME NEW p \in Paths, NEW k
    PROVE  /\ (\E j \in (Landed + 1)..k : ahead[j][p] # Before(j)[p]) => Rebased(k)[p] = ahead[k][p]
           /\ (\A j \in (Landed + 1)..k : ahead[j][p] = Before(j)[p]) => Rebased(k)[p] = Origin[p]
<1>1. \A j : p \in Change(j) <=> ahead[j][p] # Before(j)[p]
  BY DEF Change, Differ
<1> QED BY <1>1, RebasedAt

LEMMA MergedLine ==
    ASSUME TypeOK, Conflicts = {}, Passed = {}, NEW p \in Paths, Good(p), NEW m \in Unlanded
    PROVE  Asked(p, Rebased(m - 1)[p], Rebased(m)[p])
<1>1. /\ m \in Nat /\ Landed \in Nat /\ m \in (Landed + 1)..m
      /\ \A j \in (Landed + 1)..m : j \in (Landed + 1)..(m - 1) \/ j = m
      /\ \A j \in (Landed + 1)..(m - 1) : j \in (Landed + 1)..m /\ m # 1
      /\ \A j \in (Landed + 1)..m : j \in (Landed + 1)..(Len(ahead) + 1 - 1)
  BY Positions DEF Unlanded
<1>2. ~Lost(p)
  BY NotLost
<1>3. CASE First(p, m) /\ ahead[m][p] = Before(m)[p]
  <2>1. Rebased(m - 1)[p] = Origin[p] /\ Rebased(m)[p] = Origin[p]
    BY <1>1, <1>3, RebasedOver DEF First
  <2> QED BY <2>1 DEF Asked
<1>4. CASE First(p, m) /\ ahead[m][p] # Before(m)[p]
  <2>1. Rebased(m - 1)[p] = Origin[p] /\ Rebased(m)[p] = ahead[m][p]
    BY <1>1, <1>4, RebasedOver DEF First
  <2>2. Origin[p] \in {Before(m)[p], ahead[m][p]}
    BY <1>4, NoClash
  <2>3. Lines(p)
    BY <1>1, <1>2, <1>4 DEF Good, Tidy, Pending, Quiet, First
  <2>4. ASSUME NEW j \in Later, remote[j][p] = ahead[m][p] PROVE Origin[p] = ahead[m][p]
    <3>1. remote[j][p] \in {remote[base + Landed][p], Origin[p]}
      BY <1>4, NotPassed
    <3>2. Before(m)[p] = remote[base + Landed][p]
      BY <1>4, FirstChange
    <3> QED BY <1>4, <2>4, <3>1, <3>2
  <2> QED BY <2>1, <2>2, <2>3, <2>4 DEF Lines, Asked
<1>5. CASE ~First(p, m)
  <2>1. PICK j \in (Landed + 1)..(m - 1) : ahead[j][p] # Before(j)[p]
    BY <1>5 DEF First
  <2>2. Rebased(m - 1)[p] = ahead[m - 1][p] /\ Rebased(m)[p] = ahead[m][p] /\ Before(m) = ahead[m - 1]
    BY <1>1, <2>1, RebasedOver DEF Before
  <2>3. Lines(p)
    BY <1>1, <1>2, <2>1 DEF Good, Tidy, Pending, Quiet, First
  <2> QED BY <1>5, <2>2, <2>3 DEF Lines
<1> QED BY <1>3, <1>4, <1>5

LEMMA MergedChain ==
    ASSUME TypeOK, Pulled, UNCHANGED <<remote, based>>, Conflicts = {}, Passed = {}, Blocked = {},
           unmerged' = {}, NEW p \in Paths, Good(p)
    PROVE  Chain(p)'
<1> DEFINE tip   == Rebased(Len(ahead))
           torn  == {q \in Stashed : tip[q] \notin {Tip[q], work[q]}}
           fresh == {q \in Stashed \ torn : tip[q] = None /\ work[q] # None}
<1>1. Tip' = tip
  BY PulledTip
<1>2. torn = {}
  BY DEF Pulled
<1>3. index' = Over(tip, work, fresh)
  BY DEF Pulled
<1>4. work' = [q \in Paths |-> IF q \in torn THEN (IF tip[q] = None THEN work[q] ELSE Torn)
                               ELSE IF q \in Stashed \cup Untracked THEN work[q] ELSE tip[q]]
  BY DEF Pulled
<1>5. p \in fresh <=> p \in Stashed /\ tip[p] = None /\ work[p] # None
  BY <1>2
<1>6. p \in Stashed => tip[p] \in {Tip[p], work[p]}
  BY <1>2
<1>7. PICK t : t = tip[p]
  OBVIOUS
<1>8. tip[p] = Origin[p] \/ tip[p] = Tip[p]
  <2>1. CASE \E j \in (Landed + 1)..Len(ahead) : ahead[j][p] # Before(j)[p]
    <3>1. tip[p] = ahead[Len(ahead)][p]
      BY <2>1, RebasedOver
    <3>2. Len(ahead) # 0
      BY <2>1, Positions
    <3> QED BY <3>1, <3>2, TipIsBefore
  <2>2. CASE \A j \in (Landed + 1)..Len(ahead) : ahead[j][p] = Before(j)[p]
    BY <2>2, RebasedOver
  <2> QED BY <2>1, <2>2
<1>9. Quiet(p) => tip[p] = Origin[p] /\ Tip[p] = remote[base + Landed][p]
  <2>1. (Len(ahead) + 1) - 1 = Len(ahead)
    BY Positions
  <2>2. Quiet(p) => \A j \in (Landed + 1)..Len(ahead) : ahead[j][p] = Before(j)[p]
    BY <2>1 DEF Quiet, First
  <2> QED BY <2>2, RebasedOver, QuietTip
<1> HIDE DEF tip, torn, fresh
<1>10. ~Lost(p)
  BY NotLost
<1>11. Tip'[p] = t /\ index'[p] = (IF p \in fresh THEN work[p] ELSE t)
  BY <1>1, <1>3, <1>7 DEF Over
<1>12. work'[p] = IF p \in Stashed \cup Untracked THEN work[p] ELSE t
  BY <1>2, <1>4, <1>7
<1>13. CASE p \notin Stashed \cup Untracked
  <2>1. p \notin fresh
    BY <1>5, <1>13
  <2> QED BY <1>11, <1>12, <1>13, <2>1 DEF Chain, Follows
<1>14. CASE p \in Untracked
  <2>1. work[p] # None /\ index[p] = None /\ Tip[p] = None /\ Origin[p] = None
    BY <1>14 DEF Untracked, Blocked
  <2>2. t = None
    BY <1>7, <1>8, <2>1
  <2>3. Chain(p)
    BY <1>10, <1>14, <2>1 DEF Good, Pending, Tidy
  <2>4. Follows(p, None, work[p])
    BY <2>1, <2>3 DEF Chain
  <2> QED BY <1>11, <1>12, <1>14, <2>2, <2>4 DEF Chain, Follows
<1>15. CASE p \in Stashed /\ t = work[p]
  BY <1>11, <1>12, <1>15 DEF Chain, Follows
<1>16. CASE p \in Stashed /\ t # work[p]
  <2>1. t = Tip[p]
    BY <1>6, <1>7, <1>16
  <2>2. Follows(p, Tip[p], work[p])
    <3>1. ASSUME Pending(p) PROVE FALSE
      <4>1. PICK j \in Later : remote[j][p] # remote[base + Landed][p]
        BY <3>1 DEF Pending, Moved
      <4>2. remote[j][p] \in {remote[base + Landed][p], Origin[p]}
        BY <1>16, NotPassed
      <4>3. Origin[p] = remote[base + Landed][p]
        BY <1>7, <1>9, <2>1, <3>1 DEF Pending
      <4> QED BY <4>1, <4>2, <4>3
    <3> QED BY <1>10, <3>1 DEF Good, Tidy, Chain
  <2> QED BY <1>11, <1>12, <1>16, <2>1, <2>2 DEF Chain, Follows
<1> QED BY <1>13, <1>14, <1>15, <1>16

LEMMA PulledSettles ==
    ASSUME TypeOK, Pulled, UNCHANGED <<remote, based>>, Conflicts = {}, Blocked = {},
           unmerged' = {}, mishaps' = {}, NEW p \in Paths, Good(p)
    PROVE  Settled(p)'
<1>1. Passed = {}
  BY DEF Pulled
<1>2. Chain(p)'
  BY <1>1, MergedChain
<1>3. ASSUME NEW i \in 1..Len(Replayed) PROVE Asked(p, Before(i)'[p], Replayed[i][p])
  <2>1. PICK m \in Unlanded : ahead'[i] = Rebased(m) /\ Before(i)' = Rebased(m - 1)
    BY PulledLine
  <2> QED BY <1>1, <2>1, MergedLine DEF Pulled
<1>4. ahead' = Replayed
  BY DEF Pulled
<1> QED BY <1>2, <1>3, <1>4 DEF Settled, Asked

(***************************************************************************)
(* The invariant: outside the named windows every file is tidy, pending or  *)
(* lost, and an operation that is past its pull has only tidy ones.         *)
(***************************************************************************)

Shape == /\ op.kind = "put" => \E p \in Paths : op.paths = {p}
         /\ pc = "add" => Storing
         /\ Aimed /\ pc \in {"add", "commit", "push", "pull"} => op.err = {}

Pushing   == pc \in {"push", "pull", "failed"}
OwnAsked(p, n) == \/ Asked(p, Before(n)[p], ahead[n][p]) \/ Lost(p) \/ work[p] # ahead[n][p]

(* What an operation of a user knows of its files, and any other of all.    *)
Known ==
    /\ ~Aimed /\ pc \notin {"idle", "down", "sync"} => \A p \in Paths : Settled(p)
    /\ Aimed /\ Pushing /\ op.made => \A p \in op.paths : OwnAsked(p, Len(ahead))
    /\ op.kind = "put" /\ pc = "failed" => \A p \in op.err \cap op.paths : seen \in Later /\ ClashAt(p, seen)
    /\ Storing /\ Pushing => op.made \/ ahead = <<>>
    /\ op.kind = "delete" /\ pc = "commit" => \A p \in op.paths : work[p] = None

Lineage == unmerged = {} /\ (\A p \in Paths : Good(p)) /\ Known
PInv    == FInv /\ Shape /\ (mishaps = {} => Lineage)

LEMMA Parts ==
    ASSUME PInv, mishaps = {}
    PROVE  /\ TypeOK /\ Typed /\ Control /\ FInv /\ Shape
           /\ unmerged = {} /\ (\A p \in Paths : Good(p)) /\ Known
           /\ op.paths \subseteq Paths
           /\ ~Aimed /\ pc \notin {"idle", "down", "sync"} => \A p \in Paths : Settled(p)
BY OpIs DEF PInv, FInv, IInv, Typed, Lineage, Known

(* Chain by chain: a file that nothing touches, one that is written, one    *)
(* that is staged.                                                          *)
LEMMA SameFile ==
    ASSUME TypeOK, UNCHANGED <<remote, base, ahead>>, based \subseteq based', NEW p,
           index'[p] = index[p], work'[p] = work[p], Putting' => Putting
    PROVE  /\ Good(p) => Good(p)'
           /\ Settled(p) => Settled(p)'
<1>1. /\ Tip' = Tip /\ (\A k : Before(k)' = Before(k)) /\ (Quiet(p)' <=> Quiet(p))
      /\ Lines(p) => Lines(p)'
      /\ Moved(p) => Moved(p)'
      /\ Lost(p) => Lost(p)'
  BY LandedSame, Positions, Stays
<1>2. Chain(p) => Chain(p)'
  BY <1>1 DEF Chain, Follows
<1>3. Pending(p) => Pending(p)'
  BY <1>1 DEF Pending, Putting, Follows, Untracked
<1>4. Settled(p) => Settled(p)'
  BY <1>1, <1>2 DEF Settled, Asked
<1> QED BY <1>1, <1>2, <1>3, <1>4 DEF Good, Tidy

LEMMA WrittenFile ==
    ASSUME TypeOK, UNCHANGED <<remote, base, ahead>>, based \subseteq based', NEW p \in Paths,
           \A s \in Basis(p) : <<p, s, work'[p]>> \in based', ~Putting', Good(p),
           \/ index'[p] = index[p]
           \/ index[p] = Tip[p] /\ work[p] = index[p] /\ index'[p] = work'[p]
    PROVE  Good(p)'
<1>1. /\ Tip' = Tip /\ (Quiet(p)' <=> Quiet(p))
      /\ Lines(p) => Lines(p)'
      /\ Moved(p) => Moved(p)'
      /\ Lost(p) => Lost(p)'
  BY LandedSame, Positions, Stays
<1>2. \A s : Follows(p, s, work[p]) => Follows(p, s, work[p])'
  BY DEF Follows, Basis
<1>3. Follows(p, work[p], work[p])
  BY DEF Follows
<1>4. Chain(p) => Chain(p)'
  BY <1>1, <1>2, <1>3 DEF Chain, Follows
<1>5. ASSUME Pending(p) PROVE Good(p)'
  <2>1. Quiet(p)' /\ Moved(p)' /\ Lines(p)'
    BY <1>1, <1>5, QuietLines DEF Pending
  <2>2. CASE index'[p] # index[p]
    <3>1. PICK s : s = Tip[p]
      OBVIOUS
    <3>2. s = work[p] /\ index'[p] = work'[p] /\ Tip'[p] = s
      BY <1>1, <2>2, <3>1
    <3>3. Follows(p, s, work[p])'
      BY <1>2, <1>3, <3>2
    <3>4. Chain(p)'
      BY <3>2, <3>3 DEF Chain, Follows
    <3> QED BY <2>1, <3>4 DEF Good, Tidy
  <2>3. CASE index'[p] = index[p] /\ index[p] = Tip[p] /\ p \notin Untracked
    <3>1. CASE p \notin Untracked'
      BY <1>1, <2>1, <2>3, <3>1 DEF Good, Pending
    <3>2. CASE p \in Untracked'
      <4>1. work[p] = None /\ Tip[p] = None /\ index[p] = None
        BY <1>1, <2>3, <3>2 DEF Untracked
      <4>2. Follows(p, None, work[p])'
        BY <1>2, <1>3, <4>1
      <4>3. Chain(p)'
        BY <1>1, <2>3, <4>1, <4>2 DEF Chain, Follows
      <4> QED BY <2>1, <4>3 DEF Good, Tidy
    <3> QED BY <3>1, <3>2
  <2>4. CASE index'[p] = index[p] /\ index[p] # None /\ Follows(p, index[p], work[p])
    <3>1. PICK s : s = index[p]
      OBVIOUS
    <3>2. Follows(p, s, work[p])' /\ index'[p] = s
      BY <1>2, <2>4, <3>1
    <3> QED BY <2>1, <2>4, <3>2 DEF Good, Pending, Putting, Follows
  <2> QED BY <1>5, <2>2, <2>3, <2>4 DEF Pending
<1> QED BY <1>1, <1>4, <1>5 DEF Good, Tidy

LEMMA StagedFile ==
    ASSUME TypeOK, UNCHANGED <<remote, base, ahead, based>>, NEW p \in Paths,
           work'[p] = work[p], index'[p] \in {index[p], work[p]}
    PROVE  /\ Settled(p) => Settled(p)'
           /\ Good(p) /\ index'[p] = work[p] /\ work[p] # None /\ ~Putting' => Good(p)'
<1>1. /\ Tip' = Tip /\ (\A k : Before(k)' = Before(k)) /\ (Quiet(p)' <=> Quiet(p))
      /\ Lines(p) => Lines(p)'
      /\ Moved(p) => Moved(p)'
      /\ Lost(p) => Lost(p)'
  BY LandedSame, Positions, Stays
<1>2. Chain(p) => Chain(p)'
  BY <1>1 DEF Chain, Follows
<1>3. Pending(p) /\ index'[p] = work[p] /\ work[p] # None /\ ~Putting' => Pending(p)'
  BY <1>1 DEF Pending, Putting, Follows
<1>4. Settled(p) => Settled(p)'
  BY <1>1, <1>2 DEF Settled, Asked
<1> QED BY <1>1, <1>2, <1>3, <1>4 DEF Good, Tidy

LEMMA SettledNext ==
    ASSUME TypeOK', NEW p, Settled(p)'
    PROVE  Good(p)'
<1>1. remote' \in Seq(Trees) /\ ahead' \in Seq(Trees) /\ base' \in 1..Len(remote')
  BY DEF TypeOK
<1>2. Landed' \in 0..Len(ahead') /\ Len(ahead') \in Nat
  BY <1>1, LandingIs, LandedIsLanding, LenProperties
<1>3. \A n \in Nat : \A l \in 0..n : \A k \in (l + 1)..n : k \in 1..n
  OBVIOUS
<1>4. \A k \in (Landed' + 1)..Len(ahead') : k \in 1..Len(ahead')
  BY <1>2, <1>3
<1> QED BY <1>4 DEF Settled, Good, Tidy, Lines, Unlanded

(* A pull that found the remote where it was, or empty.                     *)
LEMMA UpToDate ==
    ASSUME TypeOK, base = Len(remote), NEW p, Good(p)
    PROVE  Settled(p)
<1>1. base + Landed <= Len(remote) /\ Landed \in Nat /\ base \in Nat /\ Len(ahead) \in Nat
  BY Positions
<1>2. Landed = 0
  BY <1>1
<1>3. Later = {} /\ Unlanded = 1..Len(ahead)
  <2>1. base + 0 + 1 > Len(remote) /\ 0 + 1 = 1
    BY <1>1
  <2>2. Len(remote) \in Nat
    BY <1>1
  <2>3. (base + 0 + 1)..Len(remote) = {}
    BY <1>1
  <2> QED BY <1>2, <2>3, <2>1 DEF Later, Unlanded
<1> QED BY <1>3, NothingLater DEF Settled

LEMMA EmptyUpToDate == TypeOK /\ Empty => base = Len(remote)
<1> SUFFICES ASSUME TypeOK, Empty PROVE base = Len(remote)
  OBVIOUS
<1>1. Len(<<NoFiles>>) = 1
  OBVIOUS
<1>2. Len(remote) = 1 /\ base \in 1..1
  BY <1>1, Positions DEF Empty
<1> QED BY <1>2

LEMMA LostGrown ==
    ASSUME TypeOK, UNCHANGED <<base, ahead, based>>, remote' \in Seq(Trees),
           \A i \in 1..Len(remote) : i \in 1..Len(remote') /\ remote'[i] = remote[i], NEW p
    PROVE  /\ \A k : Before(k)' = Before(k)
           /\ Lost(p) => Lost(p)'
           /\ \A j \in Later : j \in Later' /\ (ClashAt(p, j) => ClashAt(p, j)')
<1>1. Len(remote') \in Nat /\ based \subseteq based'
  BY LenProperties
<1>2. \A k : Before(k)' = Before(k)
  <2>1. remote'[base] = remote[base]
    BY Positions
  <2> QED BY <2>1 DEF Before
<1>3. ASSUME Later # {}
      PROVE  /\ Lost(p) => Lost(p)'
             /\ \A j \in Later : j \in Later' /\ (ClashAt(p, j) => ClashAt(p, j)')
  <2>1. Landed' = Landed
    BY <1>3, LandedGrown
  <2> QED BY <1>1, <2>1, Stays
<1> QED BY <1>2, <1>3 DEF Lost

(***************************************************************************)
(* The actions, one by one: Shape first.                                    *)
(***************************************************************************)

LEMMA Begun ==
    ASSUME NEW kind, NEW P
    PROVE  /\ Operation(kind, P).kind = kind /\ Operation(kind, P).paths = P /\ Operation(kind, P).err = {}
           /\ \A res : [Operation(kind, P) EXCEPT !.res = res].kind = kind
BY DEF Operation

LEMMA Returned ==
    ASSUME NEW res, Return(res)
    PROVE  /\ ~Aimed' /\ ~Putting' /\ Shape'
           /\ pc' \in {"idle", "down"} \/ (pc' = "recover" /\ op.kind = "init")
<1>1. op'.kind \in {"init", "none"}
  BY Begun DEF Return
<1>2. pc' \in {"idle", "down"} \/ (pc' = "recover" /\ op.kind = "init")
  BY DEF Return
<1> QED BY <1>1, <1>2 DEF Aimed, Storing, Putting, Shape

LEMMA InitShape == Init => Shape
BY Begun DEF Init, Shape, Aimed, Storing

LEMMA CallShape == Shape /\ (Call \/ BeginSync \/ Start \/ Crash) => Shape'
<1>1. \A p \in Paths : Put(p) => Shape'
  BY Begun DEF Put, Write, Begin, Shape, Aimed, Storing
<1>2. \A P : PutBatch(P) => Shape'
  BY Begun DEF PutBatch, Write, Begin, Shape, Aimed, Storing
<1>3. \A p : Delete(p) => Shape'
  BY Begun DEF Delete, Begin, Shape, Aimed, Storing
<1>4. \A P, Q : PutBatchFails(P, Q) => Shape'
  BY Begun DEF PutBatchFails, Shape, Aimed, Storing
<1>5. BeginSync \/ Start \/ Crash => Shape'
  BY Begun DEF BeginSync, Start, Crash, Begin, Shape, Aimed, Storing
<1> QED BY <1>1, <1>2, <1>3, <1>4, <1>5 DEF Call

LEMMA SameShape ==
    ASSUME Typed, Shape, op'.kind = op.kind, op'.paths = op.paths, op'.err = op.err, pc' # "add"
    PROVE  (Aimed /\ pc' \in {"commit", "push", "pull"} => pc \in {"add", "commit", "push", "pull"}) => Shape'
BY DEF Shape, Aimed, Storing

LEMMA StepShape == Typed /\ Shape /\ [Next]_vars => Shape'
<1> SUFFICES ASSUME Typed, Shape, [Next]_vars PROVE Shape'
  OBVIOUS
<1>0. op \in Ops
  BY OpIs
<1>1. ASSUME UNCHANGED <<pc, op>> PROVE Shape'
  BY <1>1 DEF Shape, Aimed, Storing
<1>2. CASE Add
  BY <1>2, SameShape DEF Add
<1>3. CASE Commit
  <2>1. \A m : [op EXCEPT !.made = m].kind = op.kind /\ [op EXCEPT !.made = m].paths = op.paths
               /\ [op EXCEPT !.made = m].err = op.err
    BY <1>0 DEF Ops
  <2>2. ASSUME op' = [op EXCEPT !.made = index # Tip], pc' = "push" PROVE Shape'
    BY <1>3, <2>1, <2>2, SameShape DEF Commit
  <2> QED BY <1>3, <2>2, Returned DEF Commit
<1>4. CASE PushFails
  BY <1>4, SameShape DEF PushFails, Retry
<1>5. CASE RetryPull
  <2>1. \A m : [op EXCEPT !.made = m].kind = op.kind /\ [op EXCEPT !.made = m].paths = op.paths
               /\ [op EXCEPT !.made = m].err = op.err
    BY <1>0 DEF Ops
  <2>2. \A m : [op EXCEPT !.err = m].kind = op.kind /\ [op EXCEPT !.err = m].paths = op.paths
    BY <1>0 DEF Ops
  <2>3. CASE pc' = "push" /\ Rebases
    BY <1>5, <2>1, <2>3, SameShape DEF RetryPull, Rebases
  <2>4. CASE pc' = "failed" /\ \E paths : op' = [op EXCEPT !.err = paths]
    BY <2>2, <2>4 DEF Shape, Aimed, Storing
  <2> QED BY <1>5, <2>3, <2>4 DEF RetryPull
<1>6. CASE PushAccepted \/ Undo \/ Rollback \/ GiveUp
  BY <1>6, Returned DEF PushAccepted, Undo, Rollback, GiveUp
<1>7. CASE SyncPull
  <2>1. CASE pc' = "reconcile" /\ UNCHANGED op
    BY <2>1 DEF Shape, Aimed, Storing
  <2> QED BY <1>7, <2>1, Returned DEF SyncPull
<1>8. CASE Reconcile
  <2>1. ~Aimed
    BY <1>8 DEF Reconcile, Typed, Control
  <2>2. \A m : [op EXCEPT !.undo = m].kind = op.kind /\ [op EXCEPT !.undo = m].paths = op.paths
    BY <1>0 DEF Ops
  <2>3. CASE op'.kind = op.kind /\ op'.paths = op.paths /\ pc' # "add"
    BY <2>1, <2>3 DEF Shape, Aimed, Storing
  <2>4. \/ op'.kind = op.kind /\ op'.paths = op.paths /\ pc' # "add"
        \/ Return("ok")
    BY <1>8, <2>2 DEF Reconcile
  <2> QED BY <2>3, <2>4, Returned
<1>9. CASE Recover
  <2>1. op'.kind = "recover" /\ pc' = "commitLeft"
    BY <1>9 DEF Recover, Operation
  <2> QED BY <2>1 DEF Shape, Aimed, Storing
<1>10. CASE CommitLeft
  <2>1. ~Aimed
    BY <1>10 DEF CommitLeft, Typed, Control
  <2>2. CASE pc' = "push" /\ UNCHANGED op
    BY <2>1, <2>2 DEF Shape, Aimed, Storing
  <2> QED BY <1>10, <2>2, Returned DEF CommitLeft
<1>11. CASE \E p \in Paths : PeerPush(p)
  BY <1>1, <1>11 DEF PeerPush
<1>12. CASE UNCHANGED vars
  BY <1>1, <1>12 DEF vars
<1> QED BY <1>2, <1>3, <1>4, <1>5, <1>6, <1>7, <1>8, <1>9, <1>10, <1>11, <1>12, CallShape DEF Next, Step

(***************************************************************************)
(* The calls, and the actions that stage.                                   *)
(***************************************************************************)

LEMMA BasesIs ==
    ASSUME NEW P, NEW v
    PROVE  /\ based \subseteq Bases(P, v)
           /\ \A p \in P : \A s \in Basis(p) : <<p, s, v>> \in Bases(P, v)
BY DEF Bases

(* An operation that is over, or one that starts.                           *)
LEMMA KnownIdle ==
    /\ ~Aimed' /\ pc' \in {"idle", "down", "sync"} => Known'
    /\ Aimed' /\ pc' = "add" => Known'
    /\ ~Aimed' /\ (\A p \in Paths : Settled(p)') => Known'
BY DEF Known, Aimed, Storing, Pushing

LEMMA TouchLineage ==
    ASSUME PInv, mishaps = {}, UNCHANGED <<remote, base, ahead, unmerged>>, NEW P, NEW v, P \subseteq Paths,
           based' = Bases(P, v), \A p \in Paths : work'[p] = IF p \in P THEN v ELSE work[p],
           \A p \in Paths : \/ index'[p] = index[p]
                            \/ p \in P /\ index[p] = Tip[p] /\ work[p] = index[p] /\ index'[p] = v,
           ~Putting', Known'
    PROVE  Lineage'
<1>1. based \subseteq based' /\ TypeOK /\ unmerged = {} /\ \A p \in Paths : Good(p)
  BY BasesIs, Parts
<1>2. ASSUME NEW p \in P PROVE Good(p)'
  <2>1. \A s \in Basis(p) : <<p, s, work'[p]>> \in based'
    BY BasesIs
  <2>2. p \in Paths /\ Good(p) /\ \/ index'[p] = index[p]
                                  \/ index[p] = Tip[p] /\ work[p] = index[p] /\ index'[p] = work'[p]
    BY <1>1
  <2> QED BY <1>1, <2>1, <2>2, WrittenFile
<1>3. ASSUME NEW p \in Paths \ P PROVE Good(p)'
  <2>1. index'[p] = index[p] /\ work'[p] = work[p] /\ (Putting' => Putting) /\ Good(p)
    BY <1>1
  <2> QED BY <1>1, <2>1, SameFile
<1> QED BY <1>1, <1>2, <1>3 DEF Lineage

LEMMA WriteLineage ==
    ASSUME PInv, mishaps' = {}, NEW kind \in {"put", "batch"}, NEW P \in SUBSET Paths, Write(kind, P)
    PROVE  Lineage'
<1>1. mishaps = {} /\ TypeOK /\ UNCHANGED <<remote, base, ahead, unmerged, index>> /\ pc' = "add" /\ op'.kind = kind
  BY Parts, Begun DEF Write, Begin
<1>2. PICK v : /\ work' = [p \in Paths |-> IF p \in P THEN v ELSE work[p]]
               /\ based' = Bases(P, v)
  BY DEF Write
<1>3. Known' /\ ~Putting'
  BY <1>1, KnownIdle DEF Aimed, Storing, Putting
<1>4. \A p \in Paths : work'[p] = IF p \in P THEN v ELSE work[p]
  BY <1>2
<1> QED BY <1>1, <1>2, <1>3, <1>4, TouchLineage

LEMMA PutBatchFailsLineage ==
    ASSUME PInv, mishaps' = {}, NEW P \in SUBSET Paths, NEW Q \in SUBSET P, PutBatchFails(P, Q)
    PROVE  Lineage'
<1>1. mishaps = {} /\ TypeOK /\ UNCHANGED <<remote, base, ahead, unmerged, index>> /\ pc' = "idle" /\ op'.kind = "none"
  BY Parts, Begun DEF PutBatchFails
<1>2. PICK v : /\ work' = [p \in Paths |-> IF p \in Q THEN v ELSE work[p]]
               /\ based' = Bases(Q, v)
  BY DEF PutBatchFails
<1>3. Known' /\ ~Putting'
  BY <1>1, KnownIdle DEF Aimed, Storing, Putting
<1>4. Q \subseteq Paths /\ \A p \in Paths : work'[p] = IF p \in Q THEN v ELSE work[p]
  BY <1>2
<1> QED BY <1>1, <1>2, <1>3, <1>4, TouchLineage

LEMMA DeleteLineage ==
    ASSUME PInv, mishaps' = {}, NEW p \in Paths, Delete(p)
    PROVE  Lineage'
<1>1. /\ mishaps = {} /\ TypeOK /\ UNCHANGED <<remote, base, ahead>> /\ pc' = "commit" /\ op'.kind = "delete"
      /\ op'.paths = {p} /\ based' = Bases({p}, None) /\ unmerged = {}
      /\ work' = [work EXCEPT ![p] = None] /\ work \in Trees /\ index \in Trees
  BY Parts, Begun DEF Delete, Begin, TypeOK
<1>2. /\ \A q \in Paths : work'[q] = IF q \in {p} THEN None ELSE work[q]
      /\ work'[p] = None
  BY <1>1 DEF Trees
<1>3. PICK removes \in BOOLEAN : /\ removes => index[p] = Tip[p] /\ work[p] = index[p]
                                 /\ index' = IF removes THEN [index EXCEPT ![p] = None] ELSE index
                                 /\ unmerged' = {}
  <2>1. (index[p] = Tip[p] /\ work[p] = index[p]) \in BOOLEAN
    OBVIOUS
  <2>2. p \notin unmerged /\ unmerged \ {p} = unmerged
    BY <1>1
  <2> QED BY <1>1, <2>1, <2>2 DEF Delete
<1>4. \A q \in Paths : \/ index'[q] = index[q]
                       \/ q \in {p} /\ index[q] = Tip[q] /\ work[q] = index[q] /\ index'[q] = None
  BY <1>1, <1>3 DEF Trees
<1>5. Known' /\ ~Putting'
  BY <1>1, <1>2 DEF Known, Aimed, Storing, Pushing, Putting
<1>6. {p} \subseteq Paths /\ unmerged' = unmerged
  BY <1>1, <1>3
<1> QED BY <1>1, <1>2, <1>4, <1>5, <1>6, TouchLineage

(* The files and the commits stay as they are.                              *)
LEMMA StillLineage ==
    ASSUME PInv, mishaps = {}, UNCHANGED <<remote, base, ahead, index, work, unmerged, based>>,
           Putting' => Putting
    PROVE  /\ \A p \in Paths : Good(p)' /\ (Settled(p) => Settled(p)')
           /\ Known' => Lineage'
<1>1. \A p \in Paths : Good(p)' /\ (Settled(p) => Settled(p)')
  BY Parts, SameFile
<1> QED BY <1>1, Parts DEF Lineage

LEMMA ReturnLineage ==
    ASSUME PInv, mishaps = {}, UNCHANGED <<remote, base, ahead, index, work, unmerged, based>>,
           NEW res, Return(res), op.kind = "init" => \A p \in Paths : Settled(p)
    PROVE  Lineage'
<1>1. ~Aimed' /\ ~Putting' /\ (pc' \in {"idle", "down"} \/ op.kind = "init")
  BY Returned
<1> QED BY <1>1, StillLineage, KnownIdle

LEMMA OpensLineage ==
    ASSUME PInv, mishaps' = {}, BeginSync \/ Start \/ Crash
    PROVE  Lineage'
<1>1. /\ mishaps = {} /\ UNCHANGED <<remote, base, ahead, index, work, unmerged, based>>
      /\ pc' \in {"idle", "down", "sync"} /\ op'.kind \in {"sync", "init", "none"}
  BY Begun DEF BeginSync, Start, Crash, Begin, local, repo, hist
<1> QED BY <1>1, StillLineage, KnownIdle DEF Aimed, Storing, Putting

LEMMA GiveUpLineage ==
    ASSUME PInv, mishaps' = {}, GiveUp
    PROVE  Lineage'
<1>1. /\ mishaps = {} /\ UNCHANGED <<remote, base, ahead, index, work, unmerged, based>>
      /\ pc = "failed" /\ Return("failed")
  BY DEF GiveUp, local, repo, hist
<1>2. op.kind = "init" => \A p \in Paths : Settled(p)
  BY <1>1, Parts DEF Aimed, Storing
<1> QED BY <1>1, <1>2, ReturnLineage

LEMMA AddLineage ==
    ASSUME PInv, mishaps' = {}, Add
    PROVE  Lineage'
<1>1. /\ mishaps = {} /\ TypeOK /\ UNCHANGED <<remote, base, ahead, work, op, based>> /\ pc = "add" /\ pc' = "commit"
      /\ index' = Over(index, work, op.paths) /\ unmerged' = {} /\ spent' = spent
  BY Parts DEF Add, hist
<1>2. Storing /\ op.paths \subseteq Paths /\ \A p \in op.paths : work[p] # None
  <2>1. Storing /\ Carried /\ op.paths \subseteq Paths /\ spent.own \in 1..MaxOwn
    BY <1>1, Parts DEF Shape, FInv, IInv, Control
  <2> QED BY <1>1, <2>1, MineIs DEF Carried
<1>3. ~Putting' /\ Known'
  BY <1>1, <1>2 DEF Putting, Known, Aimed, Storing, Pushing
<1>4. ASSUME NEW p \in Paths PROVE Good(p)'
  <2>1. Good(p) /\ index'[p] = IF p \in op.paths THEN work[p] ELSE index[p]
    BY <1>1, Parts DEF Over
  <2>2. CASE p \in op.paths
    BY <1>1, <1>2, <1>3, <2>1, <2>2, StagedFile
  <2>3. CASE p \notin op.paths
    BY <1>1, <1>3, <2>1, <2>3, SameFile
  <2> QED BY <2>2, <2>3
<1> QED BY <1>1, <1>3, <1>4 DEF Lineage

(* sync and the recovery stage what they find.                              *)
LEMMA StagesLineage ==
    ASSUME PInv, mishaps = {}, UNCHANGED <<remote, base, ahead, work, unmerged, based>>, TypeOK', ~Aimed',
           \A p \in Paths : Settled(p) /\ index'[p] \in {index[p], work[p]}
    PROVE  Lineage'
<1>1. \A p \in Paths : Settled(p)'
  BY Parts, StagedFile
<1> QED BY <1>1, Parts, SettledNext, KnownIdle DEF Lineage

LEMMA ReconcileLineage ==
    ASSUME PInv, mishaps' = {}, UNCHANGED refuses, Reconcile
    PROVE  Lineage'
<1>1. /\ mishaps = {} /\ pc = "reconcile" /\ UNCHANGED <<remote, base, ahead, work, unmerged, based>>
      /\ TypeOK' /\ ~Aimed /\ ~Aimed'
      /\ index' = Over(index, work, Dirty) \/ index' = index
  BY Parts, ReconcileTyped DEF Reconcile, hist, Typed, Control
<1>2. \A p \in Paths : Settled(p)
  BY <1>1, Parts
<1> QED BY <1>1, <1>2, StagesLineage DEF Over

LEMMA RecoverLineage ==
    ASSUME PInv, mishaps' = {}, UNCHANGED refuses, Recover
    PROVE  Lineage'
<1>1. /\ mishaps = {} /\ pc = "recover" /\ UNCHANGED <<remote, base, ahead, work, unmerged, based>>
      /\ TypeOK' /\ ~Aimed /\ ~Aimed'
      /\ index' = Over(index, work, Dirty)
  BY Parts, RecoverTyped DEF Recover, hist, Typed, Control
<1>2. \A p \in Paths : Settled(p)
  BY <1>1, Parts
<1> QED BY <1>1, <1>2, StagesLineage DEF Over

(***************************************************************************)
(* The actions that commit.                                                 *)
(***************************************************************************)

(* A commit of what is staged, by nobody in particular.                     *)
LEMMA CommittedSettled ==
    ASSUME TypeOK, index \in Trees, ahead' = Append(ahead, index), UNCHANGED <<remote, base, index, work, based>>,
           NEW p \in Paths, Settled(p)
    PROVE  Settled(p)'
<1>1. PICK n \in Nat : n = Len(ahead)
  BY Positions
<1>2. /\ Len(ahead') = n + 1 /\ ahead'[n + 1] = index /\ Tip' = index
      /\ \A k \in 1..n : ahead'[k] = ahead[k] /\ Before(k)' = Before(k)
      /\ Before(n + 1)' = Tip
  BY <1>1, AppendedIs
<1>3. Chain(p)'
  BY <1>2 DEF Settled, Chain, Follows
<1>4. \A k \in 1..(n + 1) : k \in 1..n \/ k = n + 1
  BY <1>1
<1>5. ASSUME NEW k \in 1..n PROVE Asked(p, Before(k)[p], ahead[k][p])'
  BY <1>1, <1>2, <1>5 DEF Settled, Asked
<1>6. <<p, Tip[p], index[p]>> \in based \/ Tip[p] = index[p]
  BY DEF Settled, Chain, Follows
<1>7. Asked(p, Before(n + 1)[p], ahead[n + 1][p])'
  BY <1>2, <1>6 DEF Asked
<1>8. \A k \in 1..(n + 1) : Asked(p, Before(k)[p], ahead[k][p])'
  BY <1>4, <1>5, <1>7
<1> QED BY <1>2, <1>3, <1>8 DEF Settled

LEMMA CommitLeftLineage ==
    ASSUME PInv, mishaps' = {}, UNCHANGED refuses, CommitLeft
    PROVE  Lineage'
<1>1. /\ mishaps = {} /\ pc = "commitLeft" /\ UNCHANGED <<remote, base, index, work, unmerged, based>>
      /\ TypeOK' /\ ~Aimed /\ ~Aimed' /\ TypeOK /\ index \in Trees
      /\ ahead' = ahead \/ ahead' = Append(ahead, index)
  BY Parts, CommitLeftTyped DEF CommitLeft, hist, Typed, Control, TypeOK
<1>2. \A p \in Paths : Settled(p) /\ Good(p)
  BY <1>1, Parts
<1>3. CASE ahead' = ahead
  BY <1>1, <1>2, <1>3, StagesLineage
<1>4. CASE ahead' = Append(ahead, index)
  <2>1. \A p \in Paths : Settled(p)'
    BY <1>1, <1>2, <1>4, CommittedSettled
  <2> QED BY <1>1, <2>1, Parts, SettledNext, KnownIdle DEF Lineage
<1> QED BY <1>1, <1>3, <1>4

(* The commit of an operation of a user.                                    *)
LEMMA CommittedFile ==
    ASSUME TypeOK, NEW n \in Nat, n = Len(ahead), ahead' = Append(ahead, index),
           UNCHANGED <<remote, base, index, work, based>>, NEW p \in Paths, Good(p),
           \/ \A i \in 1..Len(remote) : remote[i][p] # index[p]
           \/ index[p] # None => work[p] # index[p]
    PROVE  /\ Good(p)'
           /\ Asked(p, Tip[p], index[p]) \/ Lost(p)' \/ work[p] # index[p]
<1>0. index \in Trees
  BY DEF TypeOK
<1>1. Tip' = index
  BY <1>0, AppendedIs
<1>2. CASE Lost(p)
  BY <1>0, <1>2, AppendedLines DEF Good
<1>3. CASE Tidy(p)
  <2>1. Asked(p, Tip[p], index[p])
    BY <1>3 DEF Tidy, Chain, Follows, Asked
  <2>2. Lines(p)'
    BY <1>0, <1>3, <2>1, AppendedLines DEF Tidy
  <2>3. Chain(p)'
    BY <1>1, <1>3 DEF Tidy, Chain, Follows
  <2> QED BY <2>1, <2>2, <2>3 DEF Good, Tidy
<1>4. CASE Pending(p) /\ index[p] = Tip[p]
  <2>1. Quiet(p)' /\ Moved(p)'
    BY <1>0, <1>4, AppendedPending DEF Pending
  <2>2. p \notin Untracked'
    BY <1>1, <1>4 DEF Pending, Untracked
  <2> QED BY <1>1, <1>4, <2>1, <2>2 DEF Good, Pending, Asked
<1>5. CASE Pending(p) /\ index[p] # Tip[p]
  <2>1. index[p] # None /\ Follows(p, index[p], work[p])
    BY <1>5 DEF Pending
  <2>2. Lost(p)' \/ (Lines(p)' /\ \E i \in 1..Len(remote) : remote[i][p] = index[p])
    BY <1>0, <1>5, AppendedPending DEF Pending
  <2>3. Chain(p)'
    BY <1>1, <2>1 DEF Chain, Follows
  <2> QED BY <2>1, <2>2, <2>3 DEF Good, Tidy
<1> QED BY <1>2, <1>3, <1>4, <1>5 DEF Good

LEMMA CommitLineage ==
    ASSUME PInv, mishaps' = {}, UNCHANGED refuses, Commit
    PROVE  Lineage'
<1>1. /\ mishaps = {} /\ pc = "commit" /\ UNCHANGED <<remote, base, index, work, unmerged, based>> /\ spent' = spent
      /\ TypeOK' /\ TypeOK /\ index \in Trees /\ unmerged = {} /\ op \in Ops /\ Typed
  BY Parts, CommitTyped, OpIs DEF Commit, Typed, TypeOK
<1>2. ~Aimed => \A p \in Paths : Settled(p)
  BY <1>1, Parts
<1>3. CASE \E res : Return(res) /\ ahead' = ahead
  <2>1. op.kind = "init" => ~Aimed
    BY DEF Aimed, Storing
  <2> QED BY <1>1, <1>2, <1>3, <2>1, ReturnLineage
<1>4. CASE /\ pc' = "push" /\ op' = [op EXCEPT !.made = index # Tip]
           /\ ahead' = IF index = Tip THEN ahead ELSE Append(ahead, index)
           /\ Aimed => Differ(Tip, index) \subseteq op.paths
  <2>1. /\ op'.kind = op.kind /\ op'.paths = op.paths /\ (op'.made <=> index # Tip)
        /\ (Aimed' <=> Aimed) /\ (Storing' <=> Storing)
    BY <1>1, <1>4 DEF Ops, Aimed, Storing
  <2>2. ASSUME Storing
        PROVE  op.paths # {} /\ \A p \in op.paths : /\ p \in Paths /\ index[p] # Tip[p]
                                                    /\ \A i \in 1..Len(remote) : remote[i][p] # index[p]
    <3>1. op.paths # {} /\ Aimed /\ Carried /\ Prepared /\ op.paths \subseteq Paths
      BY <1>1, <2>2, Parts DEF FInv, IInv, Aims, Aimed
    <3>2. \A p \in op.paths : index[p] = Mine(spent.own) /\ Absent(p)
      BY <1>1, <2>2, <3>1 DEF Carried, Prepared
    <3>3. base \in 1..Len(remote) /\ (Len(ahead) # 0 => Len(ahead) \in 1..Len(ahead))
      BY <1>1, Positions
    <3>4. \A p : Absent(p) => Tip[p] # Mine(spent.own)
      BY <1>1, <3>3, TipIsBefore DEF Absent
    <3> QED BY <3>1, <3>2, <3>4 DEF Absent
  <2>3. CASE index = Tip
    <3>1. ~Storing /\ ~op'.made /\ ahead' = ahead
      BY <1>4, <2>1, <2>2, <2>3
    <3>2. ~Putting'
      BY <2>1, <3>1 DEF Putting, Storing
    <3>3. \A p \in Paths : Good(p)' /\ (Settled(p) => Settled(p)')
      BY <1>1, <3>1, <3>2, StillLineage
    <3>4. Known'
      BY <1>2, <1>4, <2>1, <3>1, <3>3 DEF Known, Aimed
    <3> QED BY <1>1, <3>3, <3>4 DEF Lineage
  <2>4. CASE index # Tip /\ ~Aimed
    <3>1. \A p \in Paths : Settled(p)'
      BY <1>1, <1>2, <1>4, <2>4, CommittedSettled
    <3> QED BY <1>1, <2>1, <2>4, <3>1, SettledNext, KnownIdle DEF Lineage
  <2>5. CASE index # Tip /\ Aimed
    <3>1. PICK n \in Nat : n = Len(ahead)
      BY <1>1, Positions
    <3>2. ahead' = Append(ahead, index)
      BY <1>4, <2>5
    <3>3. Len(ahead') = n + 1 /\ ahead'[n + 1] = index /\ Before(n + 1)' = Tip
      BY <1>1, <3>1, <3>2, AppendedIs
    <3>4. ASSUME NEW p \in op.paths
          PROVE  Good(p)' /\ (Asked(p, Tip[p], index[p]) \/ Lost(p)' \/ work[p] # index[p])
      <4>1. p \in Paths /\ Good(p)
        BY Parts, <1>1
      <4>2. CASE Storing
        BY <1>1, <2>2, <3>1, <3>2, <4>1, <4>2, CommittedFile
      <4>3. CASE op.kind = "delete"
        <5>1. work[p] = None
          BY <1>1, <4>3, Parts DEF Known
        <5> QED BY <1>1, <3>1, <3>2, <4>1, <5>1, CommittedFile
      <4> QED BY <2>5, <4>2, <4>3 DEF Aimed
    <3>5. ASSUME NEW p \in Paths \ op.paths PROVE Good(p)'
      <4>1. index[p] = Tip[p] /\ Good(p)
        BY <1>1, <1>4, <2>5, Parts DEF Differ
      <4>2. Tip' = index
        BY <1>1, <3>1, <3>2, AppendedIs
      <4>3. CASE Lost(p)
        BY <1>1, <3>1, <3>2, <4>3, AppendedLines DEF Good
      <4>4. CASE Tidy(p)
        <5>1. Asked(p, Tip[p], index[p])
          BY <4>1 DEF Asked
        <5>2. Lines(p)'
          BY <1>1, <3>1, <3>2, <4>4, <5>1, AppendedLines DEF Tidy
        <5>3. Chain(p)'
          BY <1>1, <4>2, <4>4 DEF Tidy, Chain, Follows
        <5> QED BY <5>2, <5>3 DEF Good, Tidy
      <4>5. CASE Pending(p)
        <5>1. Quiet(p)' /\ Moved(p)'
          BY <1>1, <3>1, <3>2, <4>1, <4>5, AppendedPending DEF Pending
        <5>2. p \notin Untracked'
          BY <1>1, <4>1, <4>2, <4>5 DEF Pending, Untracked
        <5> QED BY <1>1, <4>2, <5>1, <5>2 DEF Good, Pending
      <4> QED BY <4>1, <4>3, <4>4, <4>5 DEF Good
    <3>6. Aimed' /\ op'.made /\ op'.paths = op.paths /\ work' = work
      BY <1>1, <2>1, <2>5
    <3>7. \A p \in op.paths : OwnAsked(p, n + 1)'
      BY <1>1, <3>3, <3>4 DEF OwnAsked, Asked
    <3>8. Known'
      BY <1>4, <3>3, <3>6, <3>7 DEF Known, Pushing, Aimed, Storing
    <3> QED BY <1>1, <3>4, <3>5, <3>8 DEF Lineage
  <2> QED BY <2>3, <2>4, <2>5
<1>5. ASSUME HasStaged, unmerged = {}, ~ \E res : Return(res) /\ ahead' = ahead
      PROVE  Aimed => Differ(Tip, index) \subseteq op.paths
  BY <1>1, <1>5 DEF Commit, Aimed, Storing
<1> QED BY <1>1, <1>3, <1>4, <1>5 DEF Commit

(* The revert of the last commit.                                           *)
LEMMA RevertedFile ==
    ASSUME TypeOK, NEW n \in Nat, n = Len(ahead), n # 0, ahead' = Append(ahead, Parent), index' = Parent,
           index = Tip, UNCHANGED <<remote, base, based>>, NEW p \in Paths, Good(p),
           work'[p] = IF Parent[p] # Tip[p] THEN Parent[p] ELSE work[p],
           Parent[p] # Tip[p] => Asked(p, Before(n)[p], ahead[n][p]) \/ Lost(p)
    PROVE  Good(p)'
<1>0. Parent \in Trees /\ Parent = Before(n) /\ Tip = ahead[n]
  BY TreeTypes, TipIsBefore
<1>1. Tip' = Parent
  BY <1>0, AppendedIs
<1>2. CASE Lost(p)
  BY <1>0, <1>2, AppendedLines DEF Good
<1>3. CASE ~Lost(p) /\ (Tidy(p) \/ Parent[p] # Tip[p])
  <2>1. Asked(p, Tip[p], Parent[p])
    BY <1>0, <1>3 DEF Asked
  <2>2. Lines(p)
    BY <1>3, QuietLines DEF Good, Tidy, Pending
  <2>3. Lines(p)'
    BY <1>0, <2>1, <2>2, AppendedLines
  <2>4. Chain(p)'
    <3>1. CASE Parent[p] # Tip[p]
      BY <1>1, <3>1 DEF Chain, Follows
    <3>2. CASE Parent[p] = Tip[p]
      <4>1. Tidy(p) /\ work'[p] = work[p] /\ index'[p] = index[p] /\ Tip'[p] = Tip[p]
        BY <1>1, <1>3, <3>2
      <4> QED BY <4>1 DEF Tidy, Chain, Follows
    <3> QED BY <3>1, <3>2
  <2> QED BY <2>3, <2>4 DEF Good, Tidy
<1>4. CASE Pending(p) /\ Parent[p] = Tip[p]
  <2>1. Quiet(p)' /\ Moved(p)'
    BY <1>0, <1>4, AppendedPending DEF Pending
  <2>2. work'[p] = work[p] /\ index'[p] = index[p] /\ Tip'[p] = Tip[p] /\ index[p] = Tip[p]
    BY <1>1, <1>4
  <2>3. p \notin Untracked'
    BY <1>4, <2>2 DEF Pending, Untracked
  <2> QED BY <2>1, <2>2, <2>3 DEF Good, Pending
<1> QED BY <1>2, <1>3, <1>4 DEF Good

LEMMA RollbackLineage ==
    ASSUME PInv, mishaps' = {}, UNCHANGED refuses, Rollback
    PROVE  Lineage'
<1>1. /\ mishaps = {} /\ pc = "failed" /\ UNCHANGED <<remote, base, unmerged, based>>
      /\ TypeOK /\ unmerged = {} /\ Return("failed") /\ Reverts /\ HeadIsOwn
      /\ ahead' = Append(ahead, Parent) /\ index' = Parent /\ work' = Over(work, Parent, Differ(Parent, Tip))
  BY Parts DEF Rollback
<1>2. PICK n \in Nat : n = Len(ahead)
  BY <1>1, Positions
<1>3. /\ n # 0 /\ Parent = Before(n) /\ Tip = ahead[n] /\ index = Tip /\ n \in 1..n
      /\ \A p \in Differ(Parent, Tip) : work[p] = Tip[p]
  <2>1. n # 0
    BY <1>1, <1>2, TipIsBefore DEF HeadIsOwn
  <2> QED BY <1>1, <1>2, <2>1, TipIsBefore DEF Reverts
<1>4. ASSUME NEW p \in Paths, Parent[p] # Tip[p]
      PROVE  Asked(p, Before(n)[p], ahead[n][p]) \/ Lost(p)
  <2>1. CASE ~Aimed
    <3>1. Settled(p)
      BY <1>1, <2>1, Parts
    <3> QED BY <1>2, <1>3, <3>1 DEF Settled
  <2>2. CASE Aimed
    <3>1. op.made
      BY <1>1, <2>2, Parts DEF FInv, Aims, HeadIsOwn
    <3>2. Change(n) = op.paths
      BY <1>1, <1>2, <2>2, <3>1, Parts DEF FInv, Owns, OwnCommit
    <3>3. p \in op.paths /\ work[p] = ahead[n][p]
      BY <1>3, <1>4, <3>2 DEF Change, Differ
    <3>4. OwnAsked(p, n)
      BY <1>1, <1>2, <2>2, <3>1, <3>3, Parts DEF Known, Pushing
    <3> QED BY <3>3, <3>4 DEF OwnAsked
  <2> QED BY <2>1, <2>2
<1>5. ASSUME NEW p \in Paths PROVE Good(p)'
  <2>1. Good(p) /\ work'[p] = IF Parent[p] # Tip[p] THEN Parent[p] ELSE work[p]
    BY <1>1, Parts DEF Over, Differ
  <2> QED BY <1>1, <1>2, <1>3, <1>4, <2>1, RevertedFile
<1>6. Known'
  <2>1. ~Aimed' /\ pc' \in {"idle", "down"}
    BY <1>1, Returned DEF Return
  <2> QED BY <2>1, KnownIdle
<1> QED BY <1>1, <1>5, <1>6 DEF Lineage

(***************************************************************************)
(* The actions that push, and the others.                                   *)
(***************************************************************************)

LEMMA PushedIs ==
    ASSUME TypeOK, base = Len(remote), remote' = remote \o ahead
    PROVE  \A i \in (Len(remote) + 1)..Len(remote') : \E k \in 1..Len(ahead) :
              remote'[i] = ahead[k] /\ remote'[i - 1] = Before(k)
<1> TAKE i \in (Len(remote) + 1)..Len(remote')
<1>1. /\ RepoType /\ Len(remote) \in Nat \ {0} /\ Len(ahead) \in Nat /\ Len(remote') = Len(remote) + Len(ahead)
      /\ \A j \in 1..Len(remote) : remote'[j] = remote[j]
      /\ \A k \in 1..Len(ahead) : remote'[Len(remote) + k] = ahead[k]
  BY TypeParts, Concatenated
<1>2. PICK k \in 1..Len(ahead) : i = Len(remote) + k
  <2>1. i - Len(remote) \in 1..Len(ahead) /\ i = Len(remote) + (i - Len(remote))
    BY <1>1
  <2> QED BY <2>1
<1>3. remote'[i] = ahead[k]
  BY <1>1, <1>2
<1>4. CASE k = 1
  <2>1. i - 1 = Len(remote) /\ Len(remote) \in 1..Len(remote)
    BY <1>1, <1>2, <1>4
  <2> QED BY <1>1, <1>3, <1>4, <2>1 DEF Before
<1>5. CASE k # 1
  <2>1. i - 1 = Len(remote) + (k - 1) /\ k - 1 \in 1..Len(ahead)
    BY <1>1, <1>2, <1>5
  <2> QED BY <1>1, <1>3, <1>5, <2>1 DEF Before
<1> QED BY <1>4, <1>5

LEMMA PushedAsked ==
    ASSUME TypeOK, base = Len(remote), remote' = remote \o ahead, \A p \in Paths : Good(p)
    PROVE  \A i \in (Len(remote) + 1)..Len(remote') : \A p \in Paths : Asked(p, remote'[i - 1][p], remote'[i][p])
<1> TAKE i \in (Len(remote) + 1)..Len(remote')
<1> TAKE p \in Paths
<1>1. PICK k \in 1..Len(ahead) : remote'[i] = ahead[k] /\ remote'[i - 1] = Before(k)
  BY PushedIs
<1>2. Settled(p)
  BY UpToDate
<1> QED BY <1>1, <1>2 DEF Settled

LEMMA PushAcceptedLineage ==
    ASSUME PInv, mishaps' = {}, UNCHANGED refuses, PushAccepted
    PROVE  Lineage'
<1>1. /\ mishaps = {} /\ TypeOK /\ TypeOK' /\ UNCHANGED <<index, work, unmerged, based>> /\ base = Len(remote)
      /\ remote' = remote \o ahead /\ base' = Len(remote') /\ ahead' = <<>> /\ Return("ok") /\ unmerged = {}
  BY Parts, PushAcceptedTyped DEF PushAccepted, Pushed, Typed
<1>2. Tip' = Tip
  <2>1. /\ Len(remote) \in Nat \ {0} /\ Len(ahead) \in Nat /\ Len(remote') = Len(remote) + Len(ahead)
        /\ \A j \in 1..Len(remote) : remote'[j] = remote[j]
        /\ \A k \in 1..Len(ahead) : remote'[Len(remote) + k] = ahead[k]
    BY <1>1, TypeParts, Concatenated
  <2>2. Tip' = remote'[Len(remote')]
    BY <1>1 DEF Tip
  <2>3. CASE Len(ahead) = 0
    BY <1>1, <2>1, <2>2, <2>3, TipIsBefore
  <2>4. CASE Len(ahead) # 0
    <3>1. Len(ahead) \in 1..Len(ahead)
      BY <2>1, <2>4
    <3> QED BY <1>1, <2>1, <2>2, <2>4, <3>1, TipIsBefore
  <2> QED BY <2>3, <2>4
<1>3. ASSUME NEW p \in Paths PROVE Settled(p)'
  <2>1. Settled(p)
    BY <1>1, Parts, UpToDate
  <2>2. Chain(p)'
    BY <1>1, <1>2, <2>1 DEF Settled, Chain, Follows
  <2>3. Len(ahead') = 0 /\ 1..0 = {}
    BY <1>1
  <2> QED BY <2>2, <2>3 DEF Settled
<1>4. ~Aimed'
  BY <1>1, Returned
<1> QED BY <1>1, <1>3, <1>4, SettledNext, KnownIdle DEF Lineage

(* The remote grows, by whomever.                                           *)
LEMMA GrownLineage ==
    ASSUME PInv, mishaps = {}, UNCHANGED <<seen, base, ahead, index, work, unmerged, based, op>>, remote' \in Seq(Trees),
           \A i \in 1..Len(remote) : i \in 1..Len(remote') /\ remote'[i] = remote[i],
           pc' = pc \/ (pc = "push" /\ pc' \in {"pull", "failed"})
    PROVE  Lineage'
<1>1. TypeOK /\ (Aimed' <=> Aimed) /\ (Storing' <=> Storing) /\ (Putting' => Putting) /\ unmerged = {} /\ Known
      /\ Shape /\ based \subseteq based'
  BY Parts DEF Aimed, Storing, Putting
<1>2. ASSUME NEW p \in Paths PROVE Good(p)'
  BY <1>1, Parts, GrownGood
<1>3. ASSUME NEW p \in Paths, Settled(p) PROVE Settled(p)'
  <2>1. remote'[base] = remote[base]
    BY <1>1, Positions
  <2>2. Tip' = Tip /\ \A k : Before(k)' = Before(k)
    BY <2>1 DEF Tip, Before
  <2> QED BY <1>3, <2>2 DEF Settled, Chain, Follows, Asked
<1>4. PICK n \in Nat : n = Len(ahead)
  BY <1>1, Positions
<1>5. ASSUME NEW p \in Paths, OwnAsked(p, n) PROVE OwnAsked(p, n)'
  BY <1>1, <1>5, LostGrown DEF OwnAsked, Asked
<1>6. Pushing' => Pushing
  BY DEF Pushing
<1>7. ~Aimed' /\ pc' \notin {"idle", "down", "sync"} => \A p \in Paths : Settled(p)'
  BY <1>1, <1>3 DEF Known
<1>8. Aimed' /\ Pushing' /\ op'.made => \A p \in op'.paths : OwnAsked(p, n)'
  BY <1>1, <1>4, <1>5, <1>6, Parts DEF Known
<1>9. op'.kind = "put" /\ pc' = "failed" => \A p \in op'.err \cap op'.paths : seen' \in Later' /\ ClashAt(p, seen)'
  <2>1. CASE pc = "failed"
    <3>1. PICK s : s = seen
      OBVIOUS
    <3>2. op.kind = "put" => \A p \in op.err \cap op.paths : s \in Later /\ ClashAt(p, s)
      BY <1>1, <2>1, <3>1 DEF Known
    <3>3. op.kind = "put" => \A p \in op.err \cap op.paths : s \in Later' /\ ClashAt(p, s)'
      BY <1>1, <3>2, LostGrown
    <3> QED BY <3>1, <3>3
  <2>2. CASE pc = "push"
    <3>1. op.kind = "put" => op.err = {}
      BY <1>1, <2>2 DEF Shape, Aimed, Storing
    <3> QED BY <3>1
  <2> QED BY <2>1, <2>2
<1>10. Storing' /\ Pushing' => op'.made \/ ahead' = <<>>
  BY <1>1, <1>6 DEF Known
<1>11. op'.kind = "delete" /\ pc' = "commit" => \A p \in op'.paths : work'[p] = None
  BY <1>1 DEF Known
<1>12. n = Len(ahead')
  BY <1>4
<1>13. Known'
  BY <1>7, <1>8, <1>9, <1>10, <1>11, <1>12 DEF Known
<1> QED BY <1>1, <1>2, <1>13 DEF Lineage

LEMMA PushFailsLineage ==
    ASSUME PInv, mishaps' = {}, UNCHANGED refuses, PushFails
    PROVE  Lineage'
<1>1. /\ mishaps = {} /\ RepoType /\ TypeOK' /\ pc = "push" /\ pc' \in {"pull", "failed"}
      /\ UNCHANGED <<seen, base, ahead, index, work, unmerged, based, op>>
      /\ remote' = remote \/ remote' = remote \o ahead
  BY Parts, PushFailsTyped, TypeParts DEF PushFails, hist, local, repo, Typed
<1>2. remote' \in Seq(Trees)
  BY <1>1 DEF TypeOK
<1> QED BY <1>1, <1>2, RemoteGrows, GrownLineage

LEMMA PeerPushLineage ==
    ASSUME PInv, mishaps' = {}, UNCHANGED refuses, NEW q \in Paths, PeerPush(q)
    PROVE  Lineage'
<1>1. /\ mishaps = {} /\ RepoType /\ TypeOK' /\ pc' = pc
      /\ UNCHANGED <<seen, base, ahead, index, work, unmerged, based, op>>
      /\ \E t \in Trees : remote' = Append(remote, t)
  BY Parts, PeerPushTyped, TypeParts DEF PeerPush, hist, local, repo, Typed
<1>2. remote' \in Seq(Trees)
  BY <1>1 DEF TypeOK
<1> QED BY <1>1, <1>2, RemoteGrows, GrownLineage

(* The property itself.                                                     *)
LEMMA StepAsked ==
    ASSUME PInv, [Next]_vars, mishaps = {}
    PROVE  PushesOnlyWhatWasAsked
<1>1. TypeOK /\ Typed /\ (\A p \in Paths : Good(p)) /\ Len(remote) \in Nat
  BY Parts, Positions
<1>2. ASSUME remote' = remote PROVE PushesOnlyWhatWasAsked
  <2>1. (Len(remote) + 1)..Len(remote') = {}
    BY <1>1, <1>2
  <2> QED BY <2>1 DEF PushesOnlyWhatWasAsked
<1>3. ASSUME base = Len(remote), remote' = remote \o ahead PROVE PushesOnlyWhatWasAsked
  BY <1>1, <1>3, PushedAsked DEF PushesOnlyWhatWasAsked
<1>4. CASE \E p \in Paths : PeerPush(p)
  <2>1. spent' = [spent EXCEPT !.peers = @ + 1] /\ spent \in Tally
    BY <1>1, <1>4, TypeParts DEF PeerPush
  <2>2. spent'.peers # spent.peers
    <3>1. spent.peers \in Nat /\ spent'.peers = spent.peers + 1
      BY <2>1, GitAssumption DEF Tally
    <3> QED BY <3>1
  <2> QED BY <2>2 DEF PushesOnlyWhatWasAsked
<1>5. CASE PushAccepted
  BY <1>3, <1>5 DEF PushAccepted, Pushed
<1>6. CASE PushFails
  BY <1>2, <1>3, <1>6 DEF PushFails
<1>7. CASE Add \/ Commit \/ RetryPull \/ Undo \/ Rollback \/ GiveUp \/ SyncPull
  BY <1>2, <1>7 DEF Add, Commit, RetryPull, Undo, Rollback, GiveUp, SyncPull
<1>8. CASE Reconcile \/ Recover \/ CommitLeft
  BY <1>2, <1>8 DEF Reconcile, Recover, CommitLeft
<1>9. CASE BeginSync \/ Start \/ Crash
  BY <1>2, <1>9 DEF BeginSync, Start, Crash
<1>10. CASE Call
  BY <1>2, <1>10 DEF Call, Put, PutBatch, Write, PutBatchFails, Delete
<1>11. CASE UNCHANGED vars
  BY <1>2, <1>11 DEF vars
<1> QED BY <1>4, <1>5, <1>6, <1>7, <1>8, <1>9, <1>10, <1>11 DEF Next, Step

(***************************************************************************)
(* The actions that pull.                                                   *)
(***************************************************************************)

LEMMA PullSettles ==
    ASSUME PInv, mishaps = {}, mishaps' = {}, UNCHANGED <<remote, based>>, Putting' => Putting,
           NEW found \in BOOLEAN, PullReturns(found)
    PROVE  /\ unmerged' = {} /\ \A p \in Paths : Settled(p)'
           /\ \/ UNCHANGED <<base, ahead, index, work>> /\ base = Len(remote)
              \/ Pulled /\ base # Len(remote)
<1>1. TypeOK /\ unmerged = {} /\ \A p \in Paths : Good(p)
  BY Parts
<1>2. CASE Pulled /\ base # Len(remote) /\ Blocked \cup Conflicts = {}
  <2>1. unmerged' = {}
    BY <1>2 DEF Pulled
  <2>2. Blocked = {} /\ Conflicts = {} /\ Pulled
    BY <1>2
  <2>3. \A p \in Paths : Settled(p)'
    BY <1>1, <2>1, <2>2, PulledSettles
  <2> QED BY <1>2, <2>1, <2>3
<1>3. CASE UNCHANGED repo /\ base = Len(remote)
  <2>1. UNCHANGED <<base, ahead, index, work, unmerged>> /\ based \subseteq based'
    BY <1>3 DEF repo
  <2>2. ASSUME NEW p \in Paths PROVE Settled(p)'
    <3>1. Settled(p)
      BY <1>1, <1>3, UpToDate
    <3> QED BY <1>1, <2>1, <3>1, SameFile
  <2> QED BY <1>1, <1>3, <2>1, <2>2
<1>4. Empty => base = Len(remote)
  BY <1>1, EmptyUpToDate
<1> QED BY <1>2, <1>3, <1>4 DEF PullReturns, local

(* A pull that throws stops at the first commit that clashes.               *)
LEMMA ThrownClash ==
    ASSUME TypeOK, unmerged = {}, NEW p \in Conflicting
    PROVE  Len(remote) \in Later /\ ClashAt(p, Len(remote))
<1>1. p \in Conflicts
  BY DEF Conflicting
<1>2. Clashing # {}
  BY <1>1 DEF Conflicts
<1>3. Clashing \in SUBSET Nat
  BY Positions DEF Clashing, Unlanded
<1>4. PICK k \in Clashing : \A y \in Clashing : k <= y
  BY <1>2, <1>3, LeastNatural
<1>5. Min(Clashing) \in Clashing
  BY <1>4 DEF Min
<1>6. p \in Clash(Min(Clashing))
  BY <1>1, <1>2 DEF Conflicts
<1>7. PICK m \in Unlanded : p \in Clash(m)
  BY <1>5, <1>6 DEF Clashing, Unlanded
<1>8. /\ p \in Paths /\ First(p, m) /\ ahead[m][p] # Before(m)[p] /\ Origin[p] \notin {Before(m)[p], ahead[m][p]}
  BY <1>7 DEF Clash, Change, Differ, First
<1>9. Origin = remote[Len(remote)]
  BY DEF Origin, Last
<1>10. Before(m)[p] = remote[base + Landed][p]
  BY <1>7, <1>8, FirstChange
<1>11. base + Landed # Len(remote)
  BY <1>8, <1>9, <1>10
<1>12. base + Landed \in 1..Len(remote) /\ Len(remote) \in Nat
  BY Positions
<1>13. Len(remote) \in (base + Landed + 1)..Len(remote)
  <2>1. \A b, r \in Nat : b \in 1..r /\ b # r => r \in (b + 1)..r
    OBVIOUS
  <2>2. base + Landed \in Nat
    BY <1>12
  <2> QED BY <1>11, <1>12, <2>1, <2>2
<1> QED BY <1>7, <1>8, <1>9, <1>13 DEF Later, ClashAt

(* The commit of a write disappears in a rebase only when it had landed.    *)
LEMMA PulledDrops ==
    ASSUME TypeOK, Storing, op.paths # {}, OwnCommit, Pulled, Len(ahead) \notin Kept
    PROVE  ahead' = <<>>
<1>1. PICK n \in Nat : n = Len(ahead)
  BY Positions
<1>2. n # 0 /\ Landed \in 0..n /\ Len(remote) \in Nat \ {0} /\ Len(remote) \in 1..Len(remote)
  BY <1>1, Positions, TreeTypes DEF OwnCommit
<1>3. Landed = n
  <2>1. SUFFICES ASSUME Landed # n PROVE FALSE
    OBVIOUS
  <2>2. PICK p \in op.paths : TRUE
    OBVIOUS
  <2>3. n \in (Landed + 1)..n /\ \A j \in (Landed + 1)..(n - 1) : j \in 1..(n - 1) /\ n - 1 \in 1..(n - 1)
    <3>1. \A i \in Nat : \A l \in 0..i : l # i /\ i # 0 =>
             i \in (l + 1)..i /\ \A j \in (l + 1)..(i - 1) : j \in 1..(i - 1) /\ i - 1 \in 1..(i - 1)
      OBVIOUS
    <3> QED BY <1>2, <2>1, <3>1
  <2>4. \A i \in 1..Len(remote) : remote[i][p] # Mine(spent.own)
    <3>1. AllLanded => Landed = Len(ahead)
      BY AllLandedIs DEF AllLanded
    <3> QED BY <1>1, <2>1, <2>2, <3>1 DEF OwnCommit
  <2>5. p \in Change(n) /\ ahead[n][p] = Mine(spent.own) /\ \A j \in 1..(n - 1) : ahead[j][p] # Mine(spent.own)
    BY <1>1, <2>2 DEF OwnCommit
  <2>6. p \in Paths /\ ahead[n][p] # Before(n)[p]
    BY <2>5 DEF Change, Differ
  <2>7. Rebased(n)[p] = Mine(spent.own)
    BY <2>3, <2>5, <2>6, RebasedOver
  <2>8. Origin[p] # Mine(spent.own)
    BY <1>2, <2>4 DEF Origin, Last
  <2>9. Rebased(n - 1)[p] # Mine(spent.own)
    <3>1. CASE \E j \in (Landed + 1)..(n - 1) : ahead[j][p] # Before(j)[p]
      <4>1. Rebased(n - 1)[p] = ahead[n - 1][p]
        BY <2>6, <3>1, RebasedOver
      <4>2. n - 1 \in 1..(n - 1)
        BY <2>3, <3>1
      <4> QED BY <2>5, <4>1, <4>2
    <3>2. CASE \A j \in (Landed + 1)..(n - 1) : ahead[j][p] = Before(j)[p]
      BY <2>6, <2>8, <3>2, RebasedOver
    <3> QED BY <3>1, <3>2
  <2> QED BY <1>1, <2>3, <2>7, <2>9 DEF Kept
<1>4. Kept = {}
  <2>1. \A i \in Nat : (i + 1)..i = {}
    OBVIOUS
  <2> QED BY <1>1, <1>3, <2>1 DEF Kept
<1>5. Cardinality(Kept) = 0
  BY <1>4, FS_EmptySet
<1>6. Replayed \in Seq(Trees) /\ Len(Replayed) = 0
  BY <1>5, ReplayedType
<1> QED BY <1>6, EmptySeq DEF Pulled

LEMMA RetryPullLineage ==
    ASSUME PInv, FInv', mishaps' = {}, UNCHANGED refuses, RetryPull
    PROVE  Lineage'
<1>1. /\ mishaps = {} /\ TypeOK /\ TypeOK' /\ pc = "pull" /\ UNCHANGED <<remote, based>> /\ unmerged = {}
      /\ op \in Ops /\ Typed /\ Known /\ FInv /\ \A p \in Paths : Good(p)
  BY Parts, OpIs DEF RetryPull, PullReturns, PullThrows, Pulled, FInv, IInv, Typed
<1>2. CASE pc' = "push" /\ Rebases /\ \E found \in BOOLEAN : PullReturns(found)
  <2>1. /\ op'.kind = op.kind /\ op'.paths = op.paths /\ (op'.made <=> op.made /\ Survives)
        /\ (Aimed' <=> Aimed) /\ (Storing' <=> Storing) /\ (Putting' => Putting)
    BY <1>1, <1>2 DEF Rebases, Ops, Aimed, Storing, Putting
  <2>2. /\ unmerged' = {} /\ \A p \in Paths : Settled(p)'
        /\ \/ UNCHANGED <<base, ahead, index, work>> /\ base = Len(remote)
           \/ Pulled /\ base # Len(remote)
    BY <1>1, <1>2, <2>1, PullSettles
  <2>3. PICK n \in Nat : n = Len(ahead')
    BY <1>1, LenProperties DEF TypeOK
  <2>4. ASSUME Aimed', op'.made PROVE \A p \in op'.paths : OwnAsked(p, n)'
    <3>1. OwnCommit'
      BY <1>2, <2>4 DEF FInv, Owns
    <3>2. n # 0 /\ n \in 1..n
      BY <2>3, <3>1 DEF OwnCommit
    <3>3. op'.paths \subseteq Paths
      BY <1>1, <2>1 DEF Ops
    <3>4. \A p \in Paths : Asked(p, Before(n)[p], ahead[n][p])'
      BY <2>2, <2>3, <3>2 DEF Settled
    <3> QED BY <3>3, <3>4 DEF OwnAsked
  <2>5. ASSUME Storing', ~op'.made PROVE ahead' = <<>>
    <3>1. CASE ~op.made
      <4>1. ahead = <<>>
        BY <1>1, <2>1, <2>5, <3>1 DEF Known, Pushing
      <4>2. CASE Pulled
        <5>1. Len(ahead) = 0 /\ Kept \in SUBSET (1..Len(ahead))
          BY <1>1, <4>1, KeptIs
        <5>2. Kept = {}
          BY <5>1
        <5>3. Cardinality(Kept) = 0
          BY <5>2, FS_EmptySet
        <5>4. Replayed \in Seq(Trees) /\ Len(Replayed) = 0
          BY <1>1, <5>3, ReplayedType
        <5> QED BY <4>2, <5>4, EmptySeq DEF Pulled
      <4> QED BY <2>2, <4>1, <4>2
    <3>2. CASE op.made
      <4>1. base # Len(remote) /\ Len(ahead) \notin Kept /\ Pulled
        BY <2>1, <2>2, <2>5, <3>2 DEF Survives
      <4>2. Aimed /\ op.paths # {}
        BY <1>1, <2>1, <2>5 DEF FInv, Aims, Aimed
      <4>3. OwnCommit
        BY <1>1, <3>2, <4>2 DEF FInv, Owns
      <4> QED BY <1>1, <2>1, <2>5, <4>1, <4>2, <4>3, PulledDrops
    <3> QED BY <3>1, <3>2
  <2>6. Known'
    BY <1>2, <2>2, <2>3, <2>4, <2>5 DEF Known
  <2> QED BY <1>1, <2>2, <2>6, SettledNext DEF Lineage
<1>3. ASSUME NEW paths \in {{}, Conflicting}, PullThrows(paths), pc' = "failed", op' = [op EXCEPT !.err = paths]
      PROVE  Lineage'
  <2>1. /\ op'.kind = op.kind /\ op'.paths = op.paths /\ (op'.made <=> op.made) /\ op'.err = paths
        /\ (Aimed' <=> Aimed) /\ (Storing' <=> Storing) /\ (Putting' => Putting)
    BY <1>1, <1>3 DEF Ops, Aimed, Storing, Putting
  <2>2. UNCHANGED <<base, ahead, index, work, unmerged>> /\ (paths # {} => paths = Conflicting /\ seen' = Len(remote))
    BY <1>1, <1>3 DEF PullThrows, local, repo
  <2>3. \A p \in Paths : Good(p)' /\ (Settled(p) => Settled(p)')
    BY <1>1, <2>1, <2>2, StillLineage
  <2>4. /\ \A k : Before(k)' = Before(k)
        /\ \A p : Lost(p) => Lost(p)'
        /\ \A p : \A j \in Later : j \in Later' /\ (ClashAt(p, j) => ClashAt(p, j)')
    <3>1. remote' \in Seq(Trees) /\ \A i \in 1..Len(remote) : i \in 1..Len(remote') /\ remote'[i] = remote[i]
      BY <1>1 DEF TypeOK
    <3> QED BY <1>1, <2>2, <3>1, LostGrown
  <2>5. PICK n \in Nat : n = Len(ahead)
    BY <1>1, Positions
  <2>6. \A p : OwnAsked(p, n) => OwnAsked(p, n)'
    BY <1>1, <2>2, <2>4 DEF OwnAsked, Asked
  <2>7. Aimed' /\ op'.made => \A p \in op'.paths : OwnAsked(p, n)'
    BY <1>1, <2>1, <2>5, <2>6 DEF Known, Pushing
  <2>8. \A p \in op'.err : seen' \in Later' /\ ClashAt(p, seen)'
    <3>1. SUFFICES ASSUME NEW p \in paths PROVE seen' \in Later' /\ ClashAt(p, seen)'
      BY <2>1
    <3>2. PICK s : s = Len(remote)
      OBVIOUS
    <3>3. s \in Later /\ ClashAt(p, s) /\ seen' = s
      BY <1>1, <2>2, <3>1, <3>2, ThrownClash
    <3>4. s \in Later' /\ ClashAt(p, s)'
      BY <2>4, <3>3
    <3> QED BY <3>3, <3>4
  <2>9. Storing' => op'.made \/ ahead' = <<>>
    BY <1>1, <2>1, <2>2 DEF Known, Pushing
  <2>10. ~Aimed' => \A p \in Paths : Settled(p)'
    BY <1>1, <2>1, <2>3 DEF Known
  <2>11. n = Len(ahead')
    BY <2>2, <2>5
  <2>12. Known'
    BY <1>3, <2>7, <2>8, <2>9, <2>10, <2>11 DEF Known
  <2> QED BY <1>1, <2>2, <2>3, <2>12 DEF Lineage
<1> QED BY <1>2, <1>3 DEF RetryPull

LEMMA SyncPullLineage ==
    ASSUME PInv, mishaps' = {}, UNCHANGED refuses, SyncPull
    PROVE  Lineage'
<1>1. /\ mishaps = {} /\ TypeOK /\ TypeOK' /\ pc = "sync" /\ UNCHANGED <<remote, based>> /\ unmerged = {}
      /\ ~Aimed' /\ \A p \in Paths : Good(p)
  BY Parts, SyncPullTyped DEF SyncPull, PullReturns, PullThrows, Pulled, Typed
<1>2. ~Putting'
  BY <1>1 DEF Putting, Aimed, Storing
<1>3. CASE \E found \in BOOLEAN : PullReturns(found)
  <2>1. unmerged' = {} /\ \A p \in Paths : Settled(p)'
    BY <1>1, <1>2, <1>3, PullSettles
  <2> QED BY <1>1, <2>1, SettledNext, KnownIdle DEF Lineage
<1>4. CASE \E paths \in {{}, Conflicting} : PullThrows(paths) /\ Return("failed")
  <2>1. UNCHANGED <<base, ahead, index, work, unmerged>>
    BY <1>4 DEF PullThrows, local, repo
  <2>2. pc' \in {"idle", "down"}
    BY <1>4 DEF Return
  <2> QED BY <1>1, <1>2, <2>1, <2>2, StillLineage, KnownIdle
<1> QED BY <1>3, <1>4 DEF SyncPull

(***************************************************************************)
(* The undo of a write that lost                                            *)
(***************************************************************************)

LEMMA UndoneFile ==
    ASSUME TypeOK, NEW n \in Nat, n = Len(ahead), Landed < n, ahead' = Front(ahead),
           UNCHANGED <<remote, base, based>>, NEW q \in Paths, q \notin Change(n), Putting,
           index'[q] = Parent[q], work'[q] = work[q], Good(q)
    PROVE  Good(q)'
<1>1. Tip' = Before(n) /\ Parent = Before(n) /\ Tip = ahead[n]
  <2>1. Landed \in Nat /\ n # 0
    BY Positions
  <2> QED BY <2>1, FrontedIs, TipIsBefore
<1>2. ahead[n][q] = Before(n)[q]
  BY DEF Change, Differ
<1>3. /\ Lines(q) => Lines(q)'
      /\ Quiet(q) => Quiet(q)'
      /\ Moved(q) => Moved(q)'
      /\ Lost(q) => Lost(q)'
  BY <1>2, FrontedLines
<1>4. index'[q] = Tip[q] /\ Tip'[q] = Tip[q]
  BY <1>1, <1>2
<1>5. Chain(q) => Chain(q)'
  BY <1>4 DEF Chain, Follows
<1>6. Pending(q) => Pending(q)'
  <2>1. SUFFICES ASSUME Pending(q) PROVE Pending(q)'
    OBVIOUS
  <2>2. index[q] = Tip[q] /\ q \notin Untracked
    BY <2>1 DEF Pending, Putting
  <2>3. q \notin Untracked'
    BY <1>4, <2>2 DEF Untracked
  <2> QED BY <1>3, <1>4, <2>1, <2>3 DEF Pending
<1> QED BY <1>3, <1>5, <1>6 DEF Good, Tidy

LEMMA LostFile ==
    ASSUME TypeOK, NEW n \in Nat, n = Len(ahead), Landed < n, ahead' = Front(ahead),
           UNCHANGED <<remote, base, based>>, NEW p \in Paths, NEW s \in Later, ClashAt(p, s), ~Putting',
           \/ remote[s][p] # None /\ index'[p] = remote[s][p] /\ work'[p] = remote[s][p]
           \/ remote[s][p] = None /\ index'[p] = Parent[p]
    PROVE  Good(p)'
<1>0. Landed \in Nat /\ n # 0 /\ n - 1 \in Nat /\ (n - 1) + 1 = n
  BY Positions
<1>1. Tip' = Before(n) /\ Parent = Before(n)
  BY <1>0, FrontedIs, TipIsBefore
<1>2. Lost(p)
  BY DEF Lost
<1>3. CASE Lost(p)'
  BY <1>3 DEF Good
<1>4. CASE First(p, n)
  <2>1. Quiet(p)'
    BY <1>4, FrontedLines
  <2>2. PICK k \in Unlanded : First(p, k) /\ remote[s][p] \notin {Before(k)[p], ahead[k][p]}
    BY DEF ClashAt
  <2>3. Before(k)[p] = remote[base + Landed][p]
    BY <2>2, FirstChange
  <2>4. Moved(p)
    BY <2>2, <2>3 DEF Moved
  <2>5. Moved(p)'
    BY <2>4, FrontedLines
  <2>6. n \in Unlanded
    <3>1. n \in (Landed + 1)..n
      BY <1>0
    <3> QED BY <3>1 DEF Unlanded
  <2>7. Before(n)[p] = remote[base + Landed][p]
    BY <1>4, <2>6, FirstChange
  <2>8. CASE remote[s][p] # None /\ index'[p] = remote[s][p] /\ work'[p] = remote[s][p]
    BY <2>1, <2>5, <2>8 DEF Good, Pending, Putting, Follows
  <2>9. CASE remote[s][p] = None /\ index'[p] = Parent[p]
    <3>1. Tip'[p] # None /\ index'[p] = Tip'[p]
      BY <1>1, <2>2, <2>3, <2>7, <2>9
    <3>2. p \notin Untracked'
      BY <3>1 DEF Untracked
    <3> QED BY <2>1, <2>5, <3>1, <3>2 DEF Good, Pending
  <2> QED BY <2>8, <2>9
<1> QED BY <1>2, <1>3, <1>4, FrontedLines

LEMMA UndoLineage ==
    ASSUME PInv, mishaps' = {}, UNCHANGED refuses, Undo
    PROVE  Lineage'
<1>1. /\ mishaps = {} /\ TypeOK /\ pc = "failed" /\ UNCHANGED <<remote, base, unmerged, based>> /\ unmerged = {}
      /\ op.kind = "put" /\ op.err \cap op.paths # {} /\ Shape /\ FInv /\ Known /\ \A p \in Paths : Good(p)
      /\ ahead' = Front(ahead)
  BY Parts DEF Undo, hist
<1>2. PICK p \in Paths : op.paths = {p}
  BY <1>1 DEF Shape
<1>3. p \in op.err /\ p = CHOOSE q \in op.paths : TRUE
  BY <1>1, <1>2
<1>4. PICK s : s = seen
  OBVIOUS
<1>5. s \in Later /\ ClashAt(p, s)
  BY <1>1, <1>2, <1>3, <1>4 DEF Known
<1>6. PICK n \in Nat : n = Len(ahead)
  BY <1>1, Positions
<1>7. Landed < n /\ n # 0 /\ ahead # <<>>
  <2>1. PICK k \in Unlanded : TRUE
    BY <1>5 DEF ClashAt
  <2>2. k \in (Landed + 1)..n /\ Landed \in Nat
    BY <1>1, <1>6, <2>1, Positions DEF Unlanded
  <2>3. Landed < n /\ n # 0
    BY <2>2
  <2> QED BY <1>1, <1>6, <2>3, TipIsBefore
<1>8. Aimed /\ Storing /\ Putting
  BY <1>1 DEF Aimed, Storing, Putting
<1>9. op.made
  BY <1>1, <1>7, <1>8 DEF Known, Pushing
<1>10. Change(n) = {p}
  BY <1>1, <1>2, <1>6, <1>8, <1>9 DEF FInv, Owns, OwnCommit
<1>11. /\ index' = IF remote[s][p] # None THEN [Parent EXCEPT ![p] = remote[s][p]] ELSE Parent
       /\ work'  = IF remote[s][p] # None THEN [work EXCEPT ![p] = remote[s][p]] ELSE work
       /\ \E res : Return(res)
  BY <1>3, <1>4 DEF Undo
<1>12. Parent \in Trees /\ work \in Trees
  BY <1>1, TreeTypes DEF TypeOK
<1>13. ~Aimed' /\ ~Putting' /\ pc' \in {"idle", "down"}
  <2>1. op.kind # "init"
    BY <1>1
  <2> QED BY <1>11, <2>1, Returned
<1>14. Good(p)'
  <2>1. \/ remote[s][p] # None /\ index'[p] = remote[s][p] /\ work'[p] = remote[s][p]
        \/ remote[s][p] = None /\ index'[p] = Parent[p]
    BY <1>11, <1>12 DEF Trees
  <2> QED BY <1>1, <1>5, <1>6, <1>7, <1>13, <2>1, LostFile
<1>15. ASSUME NEW q \in Paths, q # p PROVE Good(q)'
  <2>1. index'[q] = Parent[q] /\ work'[q] = work[q]
    BY <1>11, <1>12, <1>15 DEF Trees
  <2>2. q \notin Change(n)
    BY <1>10, <1>15
  <2> QED BY <1>1, <1>6, <1>7, <1>8, <2>1, <2>2, UndoneFile
<1> QED BY <1>1, <1>13, <1>14, <1>15, KnownIdle DEF Lineage

(***************************************************************************)
(* The invariant holds                                                      *)
(***************************************************************************)

LEMMA InitPInv == Init => PInv
<1> SUFFICES ASSUME Init PROVE PInv
  OBVIOUS
<1>1. FInv /\ Shape
  BY InitFInv, InitShape
<1>2. TypeOK /\ pc = "idle" /\ op.kind = "none" /\ unmerged = {} /\ ahead = <<>> /\ base = 1
      /\ index = remote[1] /\ work = remote[1]
  BY <1>1, Begun DEF Init, FInv, IInv, Typed
<1>3. Tip = remote[1] /\ Len(ahead) = 0 /\ Landed \in Nat /\ Landed <= 0
  BY <1>2, Positions DEF Tip
<1>4. Unlanded = {}
  BY <1>3 DEF Unlanded
<1>5. \A p \in Paths : Good(p)
  BY <1>2, <1>3, <1>4 DEF Good, Tidy, Chain, Lines, Follows
<1>6. Known
  BY <1>2 DEF Known, Aimed, Storing, Pushing
<1> QED BY <1>1, <1>2, <1>5, <1>6 DEF PInv, Lineage

(* A window that was hit stays hit.                                         *)
LEMMA MishapsStay == [Next]_vars => mishaps \subseteq mishaps'
<1> SUFFICES ASSUME [Next]_vars PROVE mishaps \subseteq mishaps'
  OBVIOUS
<1>1. CASE Call \/ BeginSync \/ Start \/ Crash \/ \E p \in Paths : PeerPush(p)
  BY <1>1 DEF Call, Put, PutBatch, Write, PutBatchFails, Delete, BeginSync, Start, Crash, PeerPush, hist
<1>2. CASE Add \/ Commit \/ PushAccepted \/ PushFails
  BY <1>2 DEF Add, Commit, PushAccepted, PushFails, hist
<1>3. CASE RetryPull \/ SyncPull
  <2>1. Pulled => mishaps \subseteq mishaps'
    BY DEF Pulled
  <2> QED BY <1>3, <2>1 DEF RetryPull, SyncPull, PullReturns, PullThrows
<1>4. CASE Undo \/ Rollback \/ GiveUp \/ Reconcile \/ Recover \/ CommitLeft
  BY <1>4 DEF Undo, Rollback, GiveUp, Reconcile, Recover, CommitLeft, hist
<1>5. CASE UNCHANGED vars
  BY <1>5 DEF vars, hist
<1> QED BY <1>1, <1>2, <1>3, <1>4, <1>5 DEF Next, Step

LEMMA StepPInv == PInv /\ [Next]_vars => PInv'
<1> SUFFICES ASSUME PInv, [Next]_vars PROVE PInv'
  OBVIOUS
<1>1. FInv' /\ Shape'
  BY StepFInv, StepShape DEF PInv, FInv, IInv
<1>2. SUFFICES ASSUME mishaps' = {} PROVE Lineage'
  BY <1>1 DEF PInv
<1>3. CASE UNCHANGED vars
  <2>1. mishaps = {} /\ UNCHANGED <<remote, seen, base, ahead, index, work, unmerged, based, op, pc>>
    BY <1>2, <1>3 DEF vars, local, repo, hist
  <2>2. remote' \in Seq(Trees) /\ \A i \in 1..Len(remote) : i \in 1..Len(remote') /\ remote'[i] = remote[i]
    BY <2>1, Parts DEF TypeOK
  <2> QED BY <2>1, <2>2, GrownLineage
<1>4. CASE Next
  <2>0. UNCHANGED refuses
    BY <1>4 DEF Next
  <2>1. CASE \E p \in Paths : Put(p)
    <3>1. PICK p \in Paths : Put(p)
      BY <2>1
    <3>2. {p} \in SUBSET Paths
      OBVIOUS
    <3> QED BY <1>2, <3>1, <3>2, WriteLineage DEF Put
  <2>2. CASE \E P \in SUBSET Paths : PutBatch(P)
    BY <1>2, <2>2, WriteLineage DEF PutBatch
  <2>3. CASE \E P \in SUBSET Paths : \E Q \in SUBSET P : PutBatchFails(P, Q)
    BY <1>2, <2>3, PutBatchFailsLineage
  <2>4. CASE \E p \in Paths : Delete(p)
    BY <1>2, <2>4, DeleteLineage
  <2>5. CASE BeginSync \/ Start \/ Crash
    BY <1>2, <2>5, OpensLineage
  <2>6. CASE Add \/ Commit
    BY <1>2, <2>0, <2>6, AddLineage, CommitLineage
  <2>7. CASE PushAccepted \/ PushFails
    BY <1>2, <2>0, <2>7, PushAcceptedLineage, PushFailsLineage
  <2>8. CASE RetryPull \/ SyncPull
    BY <1>1, <1>2, <2>0, <2>8, RetryPullLineage, SyncPullLineage
  <2>9. CASE Undo \/ Rollback \/ GiveUp
    BY <1>2, <2>0, <2>9, UndoLineage, RollbackLineage, GiveUpLineage
  <2>10. CASE Reconcile \/ Recover \/ CommitLeft
    BY <1>2, <2>0, <2>10, ReconcileLineage, RecoverLineage, CommitLeftLineage
  <2>11. CASE \E p \in Paths : PeerPush(p)
    BY <1>2, <2>0, <2>11, PeerPushLineage
  <2> QED BY <1>4, <2>1, <2>2, <2>3, <2>4, <2>5, <2>6, <2>7, <2>8, <2>9, <2>10, <2>11 DEF Next, Step, Call
<1> QED BY <1>3, <1>4

(* As long as none of the named windows was hit, whatever the order of this *)
(* device's operations, crashes, lost answers and rebases and of the other  *)
(* devices' pushes: every commit that a push of this device brings changes  *)
(* a file from what its writer saw to what it wrote, or back.  Neither      *)
(* rebase, autostash, undo nor rollbackLastCommit takes a peer's change     *)
(* back unseen.                                                             *)
THEOREM PeersKeptHolds == Spec => PeersKept
<1>1. PInv /\ [Next]_vars => [mishaps = {} => PushesOnlyWhatWasAsked]_vars
  BY StepAsked
<1> QED BY InitPInv, StepPInv, <1>1, PTL DEF Spec, PeersKept
=============================================================================
