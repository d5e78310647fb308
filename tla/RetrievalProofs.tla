--------------------------- MODULE RetrievalProofs ---------------------------
(***************************************************************************)
(* What Retrieval's searchers and retrievers hold is right, for any set of  *)
(* mementos, texts, chunk size and limits.                                  *)
(*                                                                          *)
(* IInv says that RAM is sound: the inverted index is the inverse of the    *)
(* chunks (Inverted), a list of the trigram index names, in order, every    *)
(* slot whose text has the trigram (Searchable), the two searchers hold the *)
(* same texts, and the chunks are those of the mementos RAM knows (Agrees). *)
(* Loops and recursive walks are unfolded once each, by lemmas that give    *)
(* the values they go through (Fold, Turns, Chain), and the proofs go       *)
(* along those.                                                             *)
(*                                                                          *)
(* LInv adds what a read under way relies on: no two mementos were written  *)
(* at the same time (Provenance), and what the read picked is as many       *)
(* mementos as were asked for, each once, and each still to be read, found, *)
(* or known to be gone (Asking).                                            *)
(***************************************************************************)
EXTENDS Retrieval, FiniteSetTheorems, FunctionTheorems, SequenceTheorems, NaturalsInduction,
        WellFoundedInduction, TLAPS

(* A set of naturals that is not empty has a least member.                  *)
LEMMA LeastNatural ==
    ASSUME NEW T \in SUBSET Nat, T # {}
    PROVE  \E n \in T : \A m \in T : n <= m
<1> DEFINE R == OpToRel(<, Nat)
<1>1. IsWellFoundedOn(R, Nat)
  BY NatLessThanWellFounded
<1>2. \A x, y \in Nat : x < y => <<x, y>> \in R
  BY DEF OpToRel
<1> HIDE DEF R
<1>3. \E x \in T : \A y \in T : ~ (<<y, x>> \in R)
  BY <1>1, WFMin
<1>4. PICK n \in T : \A m \in T : ~ (<<m, n>> \in R)
  BY <1>3
<1>5. \A m \in T : ~(m < n)
  BY <1>2, <1>4
<1>6. n \in Nat /\ \A m \in T : m \in Nat
  OBVIOUS
<1> QED BY <1>5, <1>6

(* Induction, for a property given as the set of the numbers that have it.  *)
LEMMA AllNaturals ==
    ASSUME NEW T, 0 \in T, \A n \in Nat : n \in T => n + 1 \in T
    PROVE  \A n \in Nat : n \in T
<1> SUFFICES ASSUME Nat \ T # {} PROVE FALSE
  OBVIOUS
<1>1. PICK n \in Nat \ T : \A m \in Nat \ T : n <= m
  BY LeastNatural
<1>2. n # 0 /\ n - 1 \in Nat /\ ~(n <= n - 1) /\ (n - 1) + 1 = n
  BY <1>1
<1>3. n - 1 \in T
  BY <1>1, <1>2
<1> QED BY <1>1, <1>2, <1>3

(* Induction up to a bound.                                                 *)
LEMMA UpTo ==
    ASSUME NEW N \in Nat, NEW T, 0 \in T, \A n \in 0..N - 1 : n \in T => n + 1 \in T
    PROVE  \A n \in 0..N : n \in T
<1> DEFINE U == {n \in Nat : n <= N => n \in T}
<1>1. 0 \in U
  OBVIOUS
<1>2. ASSUME NEW n \in Nat, n \in U PROVE n + 1 \in U
  <2>1. SUFFICES ASSUME n + 1 <= N PROVE n + 1 \in T
    OBVIOUS
  <2>2. n \in 0..N - 1 /\ n <= N
    BY <2>1
  <2> QED BY <1>2, <2>2
<1> HIDE DEF U
<1>3. \A n \in Nat : n \in U
  BY <1>1, <1>2, AllNaturals
<1> QED BY <1>3 DEF U


(* Sets of naturals have a least member, and a greatest if they are bounded. *)
LEMMA MinIs ==
    ASSUME NEW S \in SUBSET Nat, S # {}
    PROVE  Min(S) \in S /\ \A y \in S : Min(S) <= y
<1>1. \E x \in S : \A y \in S : x <= y
  BY LeastNatural
<1> QED BY <1>1 DEF Min

(* The greatest member of a finite set of naturals.                         *)
LEMMA MaxIs ==
    ASSUME NEW N \in Nat, NEW S \in SUBSET (0..N), S # {}
    PROVE  Max(S) \in S /\ \A y \in S : y <= Max(S)
<1> DEFINE T == {n \in Nat : N - n \in S}
<1>1. T # {}
  <2>1. PICK x \in S : TRUE
    OBVIOUS
  <2>2. N - x \in Nat /\ N - (N - x) = x
    OBVIOUS
  <2> QED BY <2>1, <2>2
<1>2. PICK n \in T : \A m \in T : n <= m
  <2>1. T \in SUBSET Nat
    OBVIOUS
  <2> HIDE DEF T
  <2> QED BY <1>1, <2>1, LeastNatural
<1>3. \A y \in S : y <= N - n
  <2> SUFFICES ASSUME NEW y \in S PROVE y <= N - n
    OBVIOUS
  <2>1. N - y \in Nat /\ N - (N - y) = y
    OBVIOUS
  <2>2. n <= N - y
    BY <1>2, <2>1
  <2> QED BY <2>1, <2>2
<1>4. \E x \in S : \A y \in S : y <= x
  BY <1>2, <1>3
<1>5. \E x \in S : \A y \in S : x >= y
  BY <1>4
<1>6. Max(S) \in S /\ \A y \in S : Max(S) >= y
  BY <1>5 DEF Max
<1> QED BY <1>6

Total(S, R) ==
    /\ \A x \in S : <<x, x>> \notin R
    /\ \A x, y \in S : x # y => <<x, y>> \in R \/ <<y, x>> \in R
    /\ \A x, y, z \in S : <<x, y>> \in R /\ <<y, z>> \in R => <<x, z>> \in R

Earlier(S, R, x) == {y \in S : <<y, x>> \in R}

Lists(S, R, s) ==
    /\ Cardinality(S) \in Nat
    /\ s \in [1..Cardinality(S) -> S]
    /\ \A i, j \in 1..Cardinality(S) : i < j => <<s[i], s[j]>> \in R /\ s[i] # s[j]
    /\ \A x \in S : \E i \in 1..Cardinality(S) : s[i] = x

ByPlace(S, place) == [i \in 1..Cardinality(S) |-> CHOOSE x \in S : place[x] = i]

(* The ranks of the members of a finite set, in a strict total order, are   *)
(* the numbers from one to its size, each once.                             *)
LEMMA Ranks ==
    ASSUME NEW S, IsFiniteSet(S), NEW R,
           Total(S, R),
           NEW place, \A x \in S : place[x] = 1 + Cardinality(Earlier(S, R, x))
    PROVE  /\ Cardinality(S) \in Nat
           /\ \A x \in S : place[x] \in 1..Cardinality(S)
           /\ \A x, y \in S : <<x, y>> \in R => place[x] < place[y]
           /\ \A x, y \in S : place[x] = place[y] => x = y
           /\ \A i \in 1..Cardinality(S) : \E x \in S : place[x] = i
<1> DEFINE n == Cardinality(S)
           Before(x) == Earlier(S, R, x)
<1>1. n \in Nat
  BY FS_CardinalityType
<1>2. \A x \in S : IsFiniteSet(Before(x)) /\ Cardinality(Before(x)) \in Nat
  BY FS_Subset, FS_CardinalityType DEF Earlier
<1>3. \A x \in S : Cardinality(Before(x)) <= n - 1
  <2> SUFFICES ASSUME NEW x \in S PROVE Cardinality(Before(x)) <= n - 1
    OBVIOUS
  <2>1. IsFiniteSet(S \ {x}) /\ Cardinality(S \ {x}) = n - 1
    BY FS_RemoveElement
  <2>2. Before(x) \in SUBSET (S \ {x})
    BY DEF Total, Earlier
  <2> HIDE DEF Before, n
  <2> QED BY <2>1, <2>2, FS_Subset
<1>4. \A x, y \in S : <<x, y>> \in R => Cardinality(Before(x)) < Cardinality(Before(y))
  <2> SUFFICES ASSUME NEW x \in S, NEW y \in S, <<x, y>> \in R
               PROVE Cardinality(Before(x)) < Cardinality(Before(y))
    OBVIOUS
  <2>1. Before(x) \in SUBSET Before(y) /\ x \in Before(y) /\ x \notin Before(x)
    BY DEF Total, Earlier
  <2>2. IsFiniteSet(Before(y)) /\ Cardinality(Before(x)) \in Nat /\ Cardinality(Before(y)) \in Nat
    BY <1>2
  <2> HIDE DEF Before
  <2>3. Cardinality(Before(x)) <= Cardinality(Before(y))
        /\ (Cardinality(Before(y)) = Cardinality(Before(x)) => Before(y) = Before(x))
    BY <2>1, <2>2, FS_Subset
  <2> QED BY <2>1, <2>2, <2>3
<1>5. \A x \in S : place[x] = 1 + Cardinality(Before(x))
  OBVIOUS
<1> HIDE DEF Before, n
<1>6. \A x \in S : place[x] \in 1..n
  BY <1>1, <1>2, <1>3, <1>5
<1>7. \A x, y \in S : <<x, y>> \in R => place[x] < place[y]
  BY <1>2, <1>4, <1>5
<1>8. \A x, y \in S : place[x] = place[y] => x = y
  <2> SUFFICES ASSUME NEW x \in S, NEW y \in S, place[x] = place[y], x # y PROVE FALSE
    OBVIOUS
  <2>1. place[x] \in Int /\ place[y] \in Int
    BY <1>6, <1>1
  <2>2. <<x, y>> \in R \/ <<y, x>> \in R
    BY DEF Total
  <2>3. place[x] < place[y] \/ place[y] < place[x]
    BY <1>7, <2>2
  <2> QED BY <2>1, <2>3
<1> DEFINE f == [x \in S |-> place[x]]
<1>9. f \in Injection(S, 1..n)
  BY <1>6, <1>8 DEF Injection, IsInjective
<1>10. IsFiniteSet(1..n) /\ Cardinality(1..n) = n
  BY <1>1, FS_Interval
<1>11. f \in Surjection(S, 1..n)
  BY <1>9, <1>10, FS_Injection DEF n
<1>12. \A i \in 1..n : \E x \in S : place[x] = i
  <2>1. \A i \in 1..n : \E x \in S : f[x] = i
    <3> HIDE DEF f
    <3> QED BY <1>11 DEF Surjection
  <2> QED BY <2>1
<1> QED BY <1>1, <1>6, <1>7, <1>8, <1>12 DEF n

(* Sorting by rank lists the members of a set, each once and in order.      *)
LEMMA SortedPlaces ==
    ASSUME NEW S, IsFiniteSet(S), NEW R,
           Total(S, R),
           NEW place, \A x \in S : place[x] = 1 + Cardinality(Earlier(S, R, x))
    PROVE  Lists(S, R, ByPlace(S, place))
<1> DEFINE s == ByPlace(S, place)
<1> DEFINE n == Cardinality(S)
<1>1. /\ n \in Nat
      /\ \A x \in S : place[x] \in 1..n
      /\ \A x, y \in S : <<x, y>> \in R => place[x] < place[y]
      /\ \A x, y \in S : place[x] = place[y] => x = y
      /\ \A i \in 1..n : \E x \in S : place[x] = i
  BY Ranks
<1>2. s = [i \in 1..n |-> CHOOSE x \in S : place[x] = i]
  BY DEF ByPlace
<1>3. \A x, y \in S : x # y => <<x, y>> \in R \/ <<y, x>> \in R
  BY DEF Total
<1> HIDE DEF n, s
<1>4. \A i \in 1..n : s[i] \in S /\ place[s[i]] = i
  <2> SUFFICES ASSUME NEW i \in 1..n PROVE s[i] \in S /\ place[s[i]] = i
    OBVIOUS
  <2>1. s[i] = CHOOSE x \in S : place[x] = i
    BY ONLY <1>2, i \in 1..n
  <2> QED BY ONLY <1>1, <2>1, i \in 1..n
<1>5. s \in [1..n -> S]
  <2>1. s = [i \in 1..n |-> s[i]]
    BY ONLY <1>2
  <2> QED BY ONLY <1>4, <2>1
<1>6. \A i, j \in 1..n : i < j => <<s[i], s[j]>> \in R /\ s[i] # s[j]
  <2> SUFFICES ASSUME NEW i \in 1..n, NEW j \in 1..n, i < j
               PROVE <<s[i], s[j]>> \in R /\ s[i] # s[j]
    OBVIOUS
  <2>1. s[i] \in S /\ s[j] \in S /\ place[s[i]] = i /\ place[s[j]] = j
    BY ONLY <1>4, i \in 1..n, j \in 1..n
  <2>2. i \in Int /\ j \in Int /\ s[i] # s[j]
    BY ONLY <1>1, <2>1, i \in 1..n, j \in 1..n, i < j
  <2>3. <<s[i], s[j]>> \in R \/ <<s[j], s[i]>> \in R
    BY ONLY <1>3, <2>1, <2>2
  <2>4. <<s[j], s[i]>> \in R => j < i
    BY ONLY <1>1, <2>1
  <2> QED BY ONLY <2>2, <2>3, <2>4, i < j
<1>7. \A x \in S : \E i \in 1..n : s[i] = x
  <2> SUFFICES ASSUME NEW x \in S PROVE \E i \in 1..n : s[i] = x
    OBVIOUS
  <2>1. place[x] \in 1..n
    BY ONLY <1>1, x \in S
  <2>2. s[place[x]] \in S /\ place[s[place[x]]] = place[x]
    BY ONLY <1>4, <2>1
  <2>3. s[place[x]] = x
    BY ONLY <1>1, <2>2, x \in S
  <2> QED BY ONLY <2>1, <2>3
<1> QED BY ONLY <1>1, <1>5, <1>6, <1>7 DEF n, s, Lists

(* A set of numbers, sorted: all of it, in ascending order.                 *)
LEMMA Ascending ==
    ASSUME NEW S \in SUBSET Int, IsFiniteSet(S)
    PROVE  LET s == SortedBy(S, <)
               n == Cardinality(S)
           IN  /\ n \in Nat
               /\ s \in [1..n -> S]
               /\ \A i, j \in 1..n : i < j => s[i] < s[j]
               /\ \A x \in S : \E i \in 1..n : s[i] = x
<1> DEFINE R == {p \in S \X S : p[1] < p[2]}
           place == [x \in S |-> 1 + Cardinality({y \in S : y < x})]
<1>1. SortedBy(S, <) = ByPlace(S, place)
  BY DEF SortedBy, ByPlace
<1>2. \A x, y \in S : <<x, y>> \in R <=> x < y
  OBVIOUS
<1>3. \A x \in S : Earlier(S, R, x) = {y \in S : y < x}
  BY DEF Earlier
<1>4. \A x \in S : place[x] = 1 + Cardinality(Earlier(S, R, x))
  BY <1>3
<1> HIDE DEF R
<1>5. Total(S, R)
  BY <1>2 DEF Total
<1> HIDE DEF place
<1>6. Lists(S, R, ByPlace(S, place))
  BY <1>4, <1>5, SortedPlaces
<1> QED BY <1>1, <1>2, <1>6 DEF Lists

(* What is kept of a sequence.                                              *)
IsKept(X, s, places, n, k) ==
    /\ n \in Nat
    /\ k \in Seq(X) /\ Len(k) = n /\ DOMAIN k = 1..n
    /\ \E order \in [1..n -> places] :
          /\ \A i, j \in 1..n : i < j => order[i] < order[j]
          /\ \A x \in places : \E i \in 1..n : order[i] = x
          /\ \A i \in 1..n : k[i] = s[order[i]]

(* What is kept of a sequence, in its order.                                *)
LEMMA KeptIs ==
    ASSUME NEW X, NEW s \in Seq(X), NEW places \in SUBSET DOMAIN s
    PROVE  IsKept(X, s, places, Cardinality(places), Kept(s, places))
<1> DEFINE n == Cardinality(places)
           order == SortedBy(places, <)
           k == [h \in 1..n |-> s[order[h]]]
<1>1. DOMAIN s = 1..Len(s) /\ Len(s) \in Nat
  OBVIOUS
<1>2. IsFiniteSet(places)
  <2>1. IsFiniteSet(1..Len(s))
    BY <1>1, FS_Interval
  <2>2. places \in SUBSET (1..Len(s))
    BY <1>1
  <2> QED BY ONLY <2>1, <2>2, FS_Subset
<1>3. places \in SUBSET Int
  BY <1>1
<1>4. /\ n \in Nat
      /\ order \in [1..n -> places]
      /\ \A i, j \in 1..n : i < j => order[i] < order[j]
      /\ \A x \in places : \E i \in 1..n : order[i] = x
  BY <1>2, <1>3, Ascending
<1>5. Kept(s, places) = k
  BY <1>4 DEF Kept
<1> HIDE DEF order, n
<1>6. k \in [1..n -> X]
  BY <1>4, <1>1
<1>7. k \in Seq(X) /\ Len(k) = n /\ DOMAIN k = 1..n
  BY <1>4, <1>6, IsASeq
<1>8. \A i \in 1..n : k[i] = s[order[i]]
  OBVIOUS
<1> HIDE DEF k
<1>9. IsKept(X, s, places, n, k)
  BY <1>4, <1>7, <1>8 DEF IsKept
<1> QED BY <1>5, <1>9 DEF n

(* Places of which some stop and the others go on to one of a lower rank.   *)
Descends(D, N, r, stop, next) ==
    /\ N \in Nat /\ r \in [D -> 0..N] /\ stop \in SUBSET D
    /\ next \in [D \ stop -> D] /\ \A p \in D \ stop : r[next[p]] < r[p]

Recursion(D, N, r, stop, next, V, b, F) ==
    /\ Descends(D, N, r, stop, next)
    /\ b \in [stop -> V] /\ F \in [V \X D -> V]

(* A recursive definition whose calls go down a rank: each place p either   *)
(* stops, with b[p], or goes on at next[p].  There is such a function.      *)
LEMMA Chain ==
    ASSUME NEW D, NEW N, NEW r, NEW stop, NEW next, NEW V, NEW b, NEW F,
           Recursion(D, N, r, stop, next, V, b, F)
    PROVE  \E g \in [D -> V] :
              /\ \A p \in stop : g[p] = b[p]
              /\ \A p \in D \ stop : g[p] = F[<<g[next[p]], p>>]
<1> USE DEF Descends, Recursion
<1> DEFINE Low(n) == {p \in D : r[p] < n}
           Good(n, g) == /\ g \in [Low(n) -> V]
                         /\ \A p \in Low(n) \cap stop : g[p] = b[p]
                         /\ \A p \in Low(n) \ stop : g[p] = F[<<g[next[p]], p>>]
           T == {n \in Nat : \E g : Good(n, g)}
<1>1. 0 \in T
  <2>1. Low(0) = {}
    OBVIOUS
  <2> DEFINE g == [p \in Low(0) |-> b[p]]
  <2>2. Good(0, g)
    BY <2>1
  <2> HIDE DEF Good, g
  <2> QED BY <2>2
<1>2. ASSUME NEW n \in Nat, n \in T PROVE n + 1 \in T
  <2>1. PICK g : Good(n, g)
    BY <1>2
  <2> DEFINE h == [p \in Low(n + 1) |-> IF p \in stop THEN b[p] ELSE F[<<g[next[p]], p>>]]
  <2>2. \A p \in Low(n + 1) \ stop : next[p] \in Low(n)
    OBVIOUS
  <2>3. \A p \in Low(n) : p \in Low(n + 1) /\ h[p] = g[p]
    <3>1. \A p \in Low(n) : p \in Low(n + 1)
      OBVIOUS
    <3> HIDE DEF Low
    <3> QED BY <2>1, <3>1
  <2>4. Good(n + 1, h)
    <3>1. \A p \in Low(n + 1) : p \in D
      OBVIOUS
    <3> HIDE DEF Low
    <3>2. \A p \in Low(n + 1) \ stop : h[p] = F[<<h[next[p]], p>>]
      BY <2>2, <2>3
    <3>3. h \in [Low(n + 1) -> V]
      BY <2>1, <2>2, <3>1
    <3> QED BY <3>2, <3>3
  <2>5. \E k : Good(n + 1, k)
    <3> HIDE DEF Good, h
    <3> QED BY <2>4
  <2> HIDE DEF Good
  <2> QED BY <2>5
<1>3. N + 1 \in T
  <2> HIDE DEF T
  <2>1. \A n \in Nat : n \in T
    BY <1>1, <1>2, AllNaturals
  <2> QED BY <2>1
<1>4. D = Low(N + 1)
  OBVIOUS
<1> QED BY <1>3, <1>4

(* What each place passes on to the one it was called from holds of all.    *)
LEMMA ChainIn ==
    ASSUME NEW D, NEW N, NEW r, NEW stop, NEW next, Descends(D, N, r, stop, next),
           NEW V, NEW c, \A p \in stop : c[p] \in V,
           \A p \in D \ stop : c[next[p]] \in V => c[p] \in V
    PROVE  \A p \in D : c[p] \in V
<1> USE DEF Descends
<1> DEFINE T == {n \in Nat : \A p \in D : r[p] < n => c[p] \in V}
<1>1. 0 \in T
  OBVIOUS
<1>2. ASSUME NEW n \in Nat, n \in T PROVE n + 1 \in T
  <2> SUFFICES ASSUME NEW p \in D, r[p] < n + 1, p \notin stop PROVE c[p] \in V
    OBVIOUS
  <2>1. next[p] \in D /\ r[next[p]] < n
    OBVIOUS
  <2>2. c[next[p]] \in V
    BY <1>2, <2>1
  <2> QED BY <2>2
<1>3. N + 1 \in T
  <2> HIDE DEF T
  <2>1. \A n \in Nat : n \in T
    BY <1>1, <1>2, AllNaturals
  <2> QED BY <2>1
<1> QED BY <1>3

(* The places up to one of them, and what is left without it.               *)
LEMMA Initial ==
    ASSUME NEW n \in Nat, NEW i \in 1..n
    PROVE  /\ 1..i \in SUBSET (1..n) /\ 1..i # {}
           /\ Max(1..i) = i /\ (1..i) \ {i} = 1..i - 1
<1>1. 1..i \in SUBSET (0..n) /\ 1..i # {} /\ i \in 1..i
  OBVIOUS
<1>2. Max(1..i) \in 1..i /\ i <= Max(1..i)
  BY <1>1, MaxIs
<1> QED BY <1>1, <1>2

Loop(n, V, b, F) == n \in Nat /\ b \in V /\ F \in [V \X (1..n) -> V]

(* g is what MapThenFoldSet computes on the sets of places.                 *)
Unfolds(n, V, b, F, g) ==
    /\ g[{}] = b
    /\ \A x \in SUBSET (1..n) : x # {} =>
          (g[x \ {Max(x)}] \in V => g[x] = F[<<g[x \ {Max(x)}], Max(x)>>])

Typed(n, V, g) ==
    /\ g \in [SUBSET (1..n) -> V]
    /\ \A x \in SUBSET (1..n) : x # {} => Max(x) \in 1..n /\ g[x \ {Max(x)}] \in V

(* h is the state of the loop after each of its turns.                      *)
Goes(n, V, b, F, h) ==
    h \in [0..n -> V] /\ h[0] = b /\ \A i \in 1..n : h[i] = F[<<h[i - 1], i>>]

(* A fold over an array.                                                    *)
LEMMA Fold ==
    ASSUME NEW n, NEW V, NEW b, NEW F, Loop(n, V, b, F)
    PROVE  \E g : Unfolds(n, V, b, F, g) /\ Typed(n, V, g)
<1>0. n \in Nat /\ b \in V /\ F \in [V \X (1..n) -> V]
  BY DEF Loop
<1> DEFINE S == 1..n
           D == SUBSET S
           next == [x \in D \ {{}} |-> x \ {Max(x)}]
           r == [x \in D |-> Cardinality(x)]
           bb == [x \in {{}} |-> b]
           stop == {{}}
           G == [p \in V \X D |-> IF p[2] = {} THEN b ELSE F[<<p[1], Max(p[2])>>]]
<1>1. IsFiniteSet(S) /\ Cardinality(S) = n
  BY <1>0, FS_Interval
<1>2. \A x \in D : IsFiniteSet(x) /\ Cardinality(x) \in 0..n
  <2> SUFFICES ASSUME NEW x \in D PROVE IsFiniteSet(x) /\ Cardinality(x) \in 0..n
    OBVIOUS
  <2>1. IsFiniteSet(x) /\ Cardinality(x) <= n
    <3>1. x \in SUBSET S
      OBVIOUS
    <3> HIDE DEF S, D
    <3> QED BY ONLY <1>1, <3>1, FS_Subset
  <2> QED BY <1>0, <2>1, FS_CardinalityType
<1>3. \A x \in D : x # {} => Max(x) \in x /\ Max(x) \in S
  <2> SUFFICES ASSUME NEW x \in D, x # {} PROVE Max(x) \in x /\ Max(x) \in S
    OBVIOUS
  <2>1. x \in SUBSET (0..n)
    BY <1>0
  <2> QED BY <1>0, <2>1, MaxIs
<1>4. \A x \in D \ stop : next[x] \in D /\ r[next[x]] < r[x]
  <2> SUFFICES ASSUME NEW x \in D, x # {} PROVE next[x] \in D /\ r[next[x]] < r[x]
    OBVIOUS
  <2>1. Cardinality(x \ {Max(x)}) = Cardinality(x) - 1
    BY <1>2, <1>3, FS_RemoveElement
  <2>2. next[x] = x \ {Max(x)} /\ next[x] \in D
    OBVIOUS
  <2> HIDE DEF next
  <2>3. r[next[x]] = Cardinality(x) - 1 /\ r[x] = Cardinality(x)
    BY <2>1, <2>2
  <2>4. r[x] \in Int
    BY <1>2
  <2> QED BY <2>2, <2>3, <2>4
<1>5. r \in [D -> 0..n]
  BY <1>2
<1>6. bb \in [stop -> V]
  BY <1>0
<1>7. G \in [V \X D -> V]
  BY <1>0, <1>3
<1>8. stop \in SUBSET D
  OBVIOUS
<1>12. next \in [D \ stop -> D]
  OBVIOUS
<1>13. \A x \in D \ stop : r[next[x]] < r[x]
  BY <1>4
<1> HIDE DEF G, r, next, bb, D, stop
<1>14. Recursion(D, n, r, stop, next, V, bb, G)
  BY ONLY <1>12, <1>13, <1>5, <1>6, <1>7, <1>8, <1>0 DEF Descends, Recursion
<1>9. PICK g \in [D -> V] :
        /\ \A x \in stop : g[x] = bb[x]
        /\ \A x \in D \ stop : g[x] = G[<<g[next[x]], x>>]
  BY ONLY <1>14, Chain
<1>10. g[{}] = b
  BY <1>9 DEF bb, stop
<1>11. ASSUME NEW x \in D, x # {}
       PROVE Max(x) \in 1..n /\ g[x \ {Max(x)}] \in V /\ g[x] = F[<<g[x \ {Max(x)}], Max(x)>>]
  <2>1. next[x] = x \ {Max(x)} /\ next[x] \in D
    BY <1>4, <1>11 DEF next, stop
  <2>2. g[next[x]] \in V
    BY <2>1
  <2>3. G[<<g[next[x]], x>>] = F[<<g[next[x]], Max(x)>>]
    BY <2>2, <1>11 DEF G
  <2> QED BY <1>3, <1>9, <1>11, <2>1, <2>2, <2>3 DEF stop
<1>15. Unfolds(n, V, b, F, g)
  BY <1>10, <1>11 DEF D, Unfolds
<1>16. Typed(n, V, g)
  <2>1. g \in [SUBSET (1..n) -> V]
    BY DEF D
  <2>2. \A x \in SUBSET (1..n) : x # {} => Max(x) \in 1..n /\ g[x \ {Max(x)}] \in V
    BY <1>11 DEF D
  <2> QED BY ONLY <2>1, <2>2 DEF Typed
<1> QED BY <1>15, <1>16

(* What such a function says of the arrays that the fold has gone through.  *)
LEMMA History ==
    ASSUME NEW n, NEW V, NEW b, NEW F, Loop(n, V, b, F), NEW c, Unfolds(n, V, b, F, c)
    PROVE  \E h : Goes(n, V, b, F, h) /\ h[n] = c[1..n]
<1> USE DEF Loop, Unfolds
<1> DEFINE h == [i \in 0..n |-> c[1..i]]
           T == {i \in 0..n : h[i] \in V}
<1>1. h[0] = b
  BY 1..0 = {}
<1>2. ASSUME NEW i \in 1..n, h[i - 1] \in V PROVE h[i] = F[<<h[i - 1], i>>]
  <2>1. /\ 1..i \in SUBSET (1..n) /\ 1..i # {}
        /\ Max(1..i) = i /\ (1..i) \ {i} = 1..i - 1
    BY Initial
  <2>2. i - 1 \in 0..n /\ i \in 0..n
    OBVIOUS
  <2>3. c[(1..i) \ {Max(1..i)}] = h[i - 1]
    BY <2>1, <2>2
  <2>4. c[1..i] = F[<<h[i - 1], Max(1..i)>>]
    BY <1>2, <2>1, <2>3
  <2> QED BY <2>1, <2>2, <2>4
<1>3. 0 \in T
  BY <1>1
<1>4. ASSUME NEW i \in 0..n - 1, i \in T PROVE i + 1 \in T
  <2>1. i + 1 \in 1..n /\ (i + 1) - 1 = i /\ h[i] \in V
    BY <1>4
  <2>2. h[i + 1] = F[<<h[i], i + 1>>]
    BY <1>2, <2>1
  <2> QED BY <2>1, <2>2
<1>5. \A i \in 0..n : i \in T
  <2> HIDE DEF T
  <2> QED BY <1>3, <1>4, UpTo
<1>6. h \in [0..n -> V]
  BY <1>5
<1>7. ASSUME NEW i \in 1..n PROVE h[i] = F[<<h[i - 1], i>>]
  <2>1. i - 1 \in 0..n
    OBVIOUS
  <2>2. h[i - 1] \in V
    BY <1>5, <2>1
  <2> QED BY <1>2, <2>2
<1>8. h[n] = c[1..n]
  OBVIOUS
<1>9. Goes(n, V, b, F, h)
  <2> HIDE DEF h
  <2> QED BY <1>1, <1>6, <1>7 DEF Goes
<1> HIDE DEF h
<1> QED BY <1>8, <1>9

(* A loop that knows only its state and which turn it is at.                *)
LEMMA Turns ==
    ASSUME NEW n, NEW V, NEW b, NEW F, Loop(n, V, b, F)
    PROVE  \E h : Goes(n, V, b, F, h)
BY Fold, History

(* Joining texts.                                                           *)
JoiningReady(n, s, V, char) ==
    /\ n \in Nat /\ DOMAIN s = 1..n /\ <<>> \in V
    /\ \A v \in V, i \in 1..n : (IF v = <<>> THEN s[i] ELSE v \o <<char>> \o s[i]) \in V

JoiningRun(n, s, V, char, h) ==
    /\ h \in [0..n -> V] /\ h[0] = <<>> /\ h[n] = Joined(s, char)
    /\ \A i \in 1..n : h[i] = (IF h[i - 1] = <<>> THEN s[i] ELSE h[i - 1] \o <<char>> \o s[i])

(* The texts that joining the chunks of a memento goes through.             *)
LEMMA Joining ==
    ASSUME NEW n, NEW s, NEW V, NEW char, JoiningReady(n, s, V, char)
    PROVE  \E h : JoiningRun(n, s, V, char, h)
<1> USE DEF JoiningReady
<1> DEFINE F == [p \in V \X (1..n) |-> (IF p[1] = <<>> THEN s[p[2]] ELSE p[1] \o <<char>> \o s[p[2]])]
<1>1. \A v \in V, i \in 1..n : F[<<v, i>>] = (IF v = <<>> THEN s[i] ELSE v \o <<char>> \o s[i])
  OBVIOUS
<1>2. Loop(n, V, <<>>, F)
  <2>1. F \in [V \X (1..n) -> V]
    OBVIOUS
  <2> HIDE DEF F
  <2> QED BY <2>1 DEF Loop
<1> HIDE DEF F
<1>3. PICK g : Unfolds(n, V, <<>>, F, g) /\ Typed(n, V, g)
  BY <1>2, Fold
<1> DEFINE Same(f) == f = [x \in SUBSET (1..n) |->
                       IF x = {} THEN <<>> ELSE (IF f[x \ {Max(x)}] = <<>> THEN s[Max(x)] ELSE f[x \ {Max(x)}] \o <<char>> \o s[Max(x)])]
           c == CHOOSE f : Same(f)
<1>4. Same(g)
  <2>1. \A x \in SUBSET (1..n) : x # {} => g[x] = (IF g[x \ {Max(x)}] = <<>> THEN s[Max(x)] ELSE g[x \ {Max(x)}] \o <<char>> \o s[Max(x)])
    BY <1>1, <1>3 DEF Unfolds, Typed
  <2>2. g[{}] = <<>> /\ g = [x \in SUBSET (1..n) |-> g[x]]
    BY <1>3 DEF Unfolds, Typed
  <2> QED BY <2>1, <2>2
<1>5. c[1..n] = Joined(s, char)
  BY DEF Joined, FoldLeft, MapThenFoldSet
<1>6. \E f : Same(f)
  <2> HIDE DEF Same
  <2> QED BY <1>4
<1>7. Same(c)
  <2> HIDE DEF Same
  <2> QED BY <1>6
<1> HIDE DEF c
<1>8. Unfolds(n, V, <<>>, F, c)
  <2>1. c[{}] = <<>>
    BY <1>7
  <2>2. ASSUME NEW x \in SUBSET (1..n), x # {}, c[x \ {Max(x)}] \in V
        PROVE c[x] = F[<<c[x \ {Max(x)}], Max(x)>>]
    <3>1. c[x] = (IF c[x \ {Max(x)}] = <<>> THEN s[Max(x)] ELSE c[x \ {Max(x)}] \o <<char>> \o s[Max(x)])
      BY <1>7, <2>2
    <3>2. Max(x) \in 1..n
      BY <1>3, <2>2 DEF Typed
    <3> HIDE DEF Same
    <3> QED BY <1>1, <2>2, <3>1, <3>2
  <2> HIDE DEF Same
  <2> QED BY <2>1, <2>2 DEF Unfolds
<1>9. PICK h : Goes(n, V, <<>>, F, h) /\ h[n] = c[1..n]
  BY <1>2, <1>8, History
<1>10. h \in [0..n -> V] /\ h[0] = <<>> /\ \A i \in 1..n : h[i] = F[<<h[i - 1], i>>]
  BY <1>9 DEF Goes
<1>11. ASSUME NEW i \in 1..n PROVE h[i] = (IF h[i - 1] = <<>> THEN s[i] ELSE h[i - 1] \o <<char>> \o s[i])
  <2>1. i - 1 \in 0..n
    OBVIOUS
  <2>2. h[i - 1] \in V
    BY <1>10, <2>1
  <2> QED BY <1>1, <1>10, <2>2
<1>12. JoiningRun(n, s, V, char, h)
  BY <1>5, <1>9, <1>10, <1>11 DEF JoiningRun
<1> QED BY <1>12

(* Filling chunks.                                                          *)
FillingReady(n, s, V) ==
    /\ n \in Nat /\ DOMAIN s = 1..n /\ [chunks |-> <<>>, current |-> <<>>] \in V
    /\ \A v \in V, i \in 1..n : TakeSentence(v, s[i]) \in V

FillingRun(n, s, V, h) ==
    /\ h \in [0..n -> V] /\ h[0] = [chunks |-> <<>>, current |-> <<>>] /\ h[n] = FoldLeft(TakeSentence, [chunks |-> <<>>, current |-> <<>>], s)
    /\ \A i \in 1..n : h[i] = TakeSentence(h[i - 1], s[i])

(* The chunks so far while the sentences of a text are taken one by one.    *)
LEMMA Filling ==
    ASSUME NEW n, NEW s, NEW V, FillingReady(n, s, V)
    PROVE  \E h : FillingRun(n, s, V, h)
<1> USE DEF FillingReady
<1> DEFINE F == [p \in V \X (1..n) |-> TakeSentence(p[1], s[p[2]])]
<1>1. \A v \in V, i \in 1..n : F[<<v, i>>] = TakeSentence(v, s[i])
  OBVIOUS
<1>2. Loop(n, V, [chunks |-> <<>>, current |-> <<>>], F)
  <2>1. F \in [V \X (1..n) -> V]
    OBVIOUS
  <2> HIDE DEF F
  <2> QED BY <2>1 DEF Loop
<1> HIDE DEF F
<1>3. PICK g : Unfolds(n, V, [chunks |-> <<>>, current |-> <<>>], F, g) /\ Typed(n, V, g)
  BY <1>2, Fold
<1> DEFINE Same(f) == f = [x \in SUBSET (1..n) |->
                       IF x = {} THEN [chunks |-> <<>>, current |-> <<>>] ELSE TakeSentence(f[x \ {Max(x)}], s[Max(x)])]
           c == CHOOSE f : Same(f)
<1>4. Same(g)
  <2>1. \A x \in SUBSET (1..n) : x # {} => g[x] = TakeSentence(g[x \ {Max(x)}], s[Max(x)])
    BY <1>1, <1>3 DEF Unfolds, Typed
  <2>2. g[{}] = [chunks |-> <<>>, current |-> <<>>] /\ g = [x \in SUBSET (1..n) |-> g[x]]
    BY <1>3 DEF Unfolds, Typed
  <2> QED BY <2>1, <2>2
<1>5. c[1..n] = FoldLeft(TakeSentence, [chunks |-> <<>>, current |-> <<>>], s)
  BY DEF FoldLeft, MapThenFoldSet
<1>6. \E f : Same(f)
  <2> HIDE DEF Same
  <2> QED BY <1>4
<1>7. Same(c)
  <2> HIDE DEF Same
  <2> QED BY <1>6
<1> HIDE DEF c
<1>8. Unfolds(n, V, [chunks |-> <<>>, current |-> <<>>], F, c)
  <2>1. c[{}] = [chunks |-> <<>>, current |-> <<>>]
    BY <1>7
  <2>2. ASSUME NEW x \in SUBSET (1..n), x # {}, c[x \ {Max(x)}] \in V
        PROVE c[x] = F[<<c[x \ {Max(x)}], Max(x)>>]
    <3>1. c[x] = TakeSentence(c[x \ {Max(x)}], s[Max(x)])
      BY <1>7, <2>2
    <3>2. Max(x) \in 1..n
      BY <1>3, <2>2 DEF Typed
    <3> HIDE DEF Same
    <3> QED BY <1>1, <2>2, <3>1, <3>2
  <2> HIDE DEF Same
  <2> QED BY <2>1, <2>2 DEF Unfolds
<1>9. PICK h : Goes(n, V, [chunks |-> <<>>, current |-> <<>>], F, h) /\ h[n] = c[1..n]
  BY <1>2, <1>8, History
<1>10. h \in [0..n -> V] /\ h[0] = [chunks |-> <<>>, current |-> <<>>] /\ \A i \in 1..n : h[i] = F[<<h[i - 1], i>>]
  BY <1>9 DEF Goes
<1>11. ASSUME NEW i \in 1..n PROVE h[i] = TakeSentence(h[i - 1], s[i])
  <2>1. i - 1 \in 0..n
    OBVIOUS
  <2>2. h[i - 1] \in V
    BY <1>10, <2>1
  <2> QED BY <1>1, <1>10, <2>2
<1>12. FillingRun(n, s, V, h)
  BY <1>5, <1>9, <1>10, <1>11 DEF FillingRun
<1> QED BY <1>12

(* Lists put together are a list of what they hold.                         *)
LEMMA FlattenType ==
    ASSUME NEW Y, NEW s \in Seq(Seq(Y))
    PROVE  FlattenSeq(s) \in Seq(Y)
<1> DEFINE n == Len(s)
           F == [p \in Seq(Y) \X (1..n) |-> p[1] \o s[p[2]]]
<1>1. n \in Nat /\ \A i \in 1..n : s[i] \in Seq(Y)
  OBVIOUS
<1>2. \A v \in Seq(Y), i \in 1..n : v \o s[i] \in Seq(Y)
  BY <1>1, ConcatProperties
<1>3. CASE n = 0
  <2>1. FlattenSeq(s) = <<>>
    BY <1>3, EmptySeq DEF FlattenSeq
  <2> QED BY <2>1
<1>4. CASE n # 0
  <2>1. Loop(n, Seq(Y), <<>>, F)
    <3>1. F \in [Seq(Y) \X (1..n) -> Seq(Y)] /\ <<>> \in Seq(Y)
      BY <1>2
    <3> HIDE DEF F
    <3> QED BY <1>1, <3>1 DEF Loop
  <2>2. PICK h : Goes(n, Seq(Y), <<>>, F, h)
    <3> HIDE DEF F, n
    <3> QED BY <2>1, Turns
  <2>3. h \in [0..n -> Seq(Y)] /\ h[0] = <<>> /\ \A i \in 1..n : h[i] = F[<<h[i - 1], i>>]
    <3> HIDE DEF F
    <3> QED BY <2>2 DEF Goes
  <2>4. ASSUME NEW i \in 1..n PROVE h[i] = h[i - 1] \o s[i] /\ h[i - 1] \in Seq(Y) /\ h[i] \in Seq(Y)
    <3>1. i - 1 \in 0..n /\ i \in 0..n
      OBVIOUS
    <3>2. h[i - 1] \in Seq(Y) /\ h[i] \in Seq(Y)
      BY <2>3, <3>1
    <3>3. F[<<h[i - 1], i>>] = h[i - 1] \o s[i]
      BY <3>2
    <3> HIDE DEF F
    <3> QED BY <2>3, <3>2, <3>3
  <2> HIDE DEF F
  <2> DEFINE Flat(f) == f = [i \in 1..n |-> IF i = 1 THEN s[i] ELSE f[i - 1] \o s[i]]
             g == [i \in 1..n |-> h[i]]
             c == CHOOSE f : Flat(f)
  <2>5. Flat(g)
    <3>1. h[0] \o s[1] = s[1]
      BY <1>1, <1>4, <2>3, ConcatEmptySeq
    <3>2. 1 \in 1..n => h[1] = s[1]
      <4> SUFFICES ASSUME 1 \in 1..n PROVE h[1] = s[1]
        OBVIOUS
      <4>1. h[1] = h[1 - 1] \o s[1]
        BY <2>4
      <4>2. 1 - 1 = 0
        OBVIOUS
      <4>3. h[1] = h[0] \o s[1]
        BY <4>1, <4>2
      <4> QED BY <3>1, <4>3
    <3>3. \A i \in 1..n : i # 1 => i - 1 \in 1..n /\ g[i - 1] = h[i - 1]
      OBVIOUS
    <3>4. \A i \in 1..n : i # 1 => h[i] = g[i - 1] \o s[i]
      BY <2>4, <3>3
    <3> QED BY <3>2, <3>4
  <2>6. FlattenSeq(s) = c[n]
    BY <1>1, <1>4 DEF FlattenSeq
  <2>7. \E f : Flat(f)
    <3> HIDE DEF Flat, g
    <3> QED BY <2>5
  <2>8. Flat(c)
    <3> HIDE DEF Flat
    <3> QED BY <2>7
  <2> DEFINE T == {i \in Nat : i = 0 \/ c[i] \in Seq(Y)}
  <2> HIDE DEF c, n
  <2>9. 0 \in T
    OBVIOUS
  <2>10. ASSUME NEW i \in 0..n - 1, i \in T PROVE i + 1 \in T
    <3>1. i + 1 \in 1..n /\ (i + 1) - 1 = i /\ i + 1 \in Nat
      BY <1>1
    <3>2. c[i + 1] = IF i + 1 = 1 THEN s[i + 1] ELSE c[i] \o s[i + 1]
      BY <2>8, <3>1
    <3>3. i + 1 # 1 => i # 0 /\ c[i] \in Seq(Y)
      BY <2>10
    <3>4. c[i + 1] \in Seq(Y)
      BY <1>1, <1>2, <3>1, <3>2, <3>3
    <3> QED BY <3>1, <3>4
  <2>11. n \in T
    <3> HIDE DEF T
    <3>1. \A i \in 0..n : i \in T
      BY <1>1, <2>9, <2>10, UpTo
    <3> QED BY <1>1, <3>1
  <2> QED BY <1>4, <2>6, <2>11
<1> QED BY <1>3, <1>4

(* A text without its outer blanks is no longer than before.                *)
LEMMA TrimType ==
    ASSUME NEW X, NEW t \in Seq(X)
    PROVE  Trim(t) \in Seq(X) /\ Len(Trim(t)) <= Len(t)
<1> DEFINE solid == {i \in 1..Len(t) : t[i] \notin Blanks}
<1>1. Trim(t) = IF solid = {} THEN <<>> ELSE SubSeq(t, Min(solid), Max(solid))
  BY DEF Trim, Places
<1>2. Len(t) \in Nat
  OBVIOUS
<1>3. CASE solid # {}
  <2>1. solid \in SUBSET Nat /\ solid \in SUBSET (0..Len(t)) /\ solid \in SUBSET (1..Len(t))
    OBVIOUS
  <2> HIDE DEF solid
  <2>2. Min(solid) \in 1..Len(t) /\ Max(solid) \in 1..Len(t) /\ Min(solid) <= Max(solid)
    BY <1>2, <1>3, <2>1, MinIs, MaxIs
  <2> DEFINE a == Min(solid)
             b == Max(solid)
  <2> HIDE DEF a, b
  <2>3. a \in 1..Len(t) /\ b \in 1..Len(t) /\ a <= b
    BY <2>2 DEF a, b
  <2>4. SubSeq(t, a, b) \in Seq(X) /\ Len(SubSeq(t, a, b)) <= Len(t)
    <3>1. \A i \in a..b : t[i] \in X
      BY <2>3
    <3>2. SubSeq(t, a, b) \in Seq(X) /\ Len(SubSeq(t, a, b)) = IF a <= b THEN b - a + 1 ELSE 0
      BY <2>3, <3>1, SubSeqProperties
    <3>3. b - a + 1 <= Len(t)
      BY <1>2, <2>3
    <3> QED BY <2>3, <3>2, <3>3
  <2> QED BY <1>1, <1>3, <2>4 DEF a, b
<1>4. CASE solid = {}
  BY <1>1, <1>2, <1>4
<1> QED BY <1>3, <1>4

(* The parts of a text are texts, and none is empty.                        *)
LEMMA PartsType ==
    ASSUME NEW X, NEW t \in Seq(X), NEW gaps
    PROVE  /\ Parts(t, gaps) \in Seq(Seq(X))
           /\ \A h \in 1..Len(Parts(t, gaps)) : Parts(t, gaps)[h] # <<>>
<1> DEFINE n == Len(t)
           gone == UNION {g[1]..g[2] : g \in gaps}
           starts == {i \in 1..n : i \notin gone /\ (i = 1 \/ i - 1 \in gone)}
           End(i) == CHOOSE j \in i..n : i..j \cap gone = {} /\ (j = n \/ j + 1 \in gone)
           order == SortedBy(starts, <)
           parts == [h \in DOMAIN order |-> SubSeq(t, order[h], End(order[h]))]
<1>1. Parts(t, gaps) = parts
  BY DEF Parts, Places
<1>2. n \in Nat /\ \A i \in 1..n : t[i] \in X
  OBVIOUS
<1>3. starts \in SUBSET (1..n) /\ \A i \in starts : i \notin gone
  OBVIOUS
<1> HIDE DEF gone, starts, n
<1>4. ASSUME NEW i \in starts PROVE End(i) \in i..n
  <2> DEFINE E == {j \in i..n : j = n \/ j + 1 \in gone}
  <2>1. i \in 1..n
    BY <1>3
  <2>2. E \in SUBSET Nat /\ n \in E
    BY <1>2, <2>1
  <2> HIDE DEF E
  <2>3. PICK j \in E : \A m \in E : j <= m
    BY <2>2, LeastNatural
  <2>4. j \in i..n /\ (j = n \/ j + 1 \in gone)
    BY <2>3 DEF E
  <2>5. ASSUME NEW m \in i..j, m \in gone PROVE FALSE
    <3>1. m # i
      BY <1>3, <2>5
    <3>2. m - 1 \in i..n /\ (m - 1) + 1 = m /\ ~(j <= m - 1)
      BY <1>2, <2>1, <2>4, <3>1
    <3>3. m - 1 \in E
      BY <2>5, <3>2 DEF E
    <3> QED BY <2>3, <3>2, <3>3
  <2>6. i..j \cap gone = {}
    BY <2>5
  <2> QED BY <2>4, <2>6
<1>5. IsFiniteSet(starts)
  <2>1. IsFiniteSet(1..n)
    BY <1>2, FS_Interval
  <2> QED BY ONLY <1>3, <2>1, FS_Subset
<1>6. /\ Cardinality(starts) \in Nat
      /\ order \in [1..Cardinality(starts) -> starts]
  <2>1. starts \in SUBSET Int
    BY <1>3
  <2> QED BY <1>5, <2>1, Ascending
<1> DEFINE m == Cardinality(starts)
<1> HIDE DEF order, m, End
<1>7. m \in Nat /\ order \in [1..m -> starts] /\ DOMAIN order = 1..m
  BY <1>6 DEF m
<1>8. ASSUME NEW h \in 1..m PROVE parts[h] \in Seq(X) /\ parts[h] # <<>>
  <2> DEFINE i == order[h]
             j == End(order[h])
  <2>1. i \in starts
    BY <1>7
  <2>2. i \in 1..n /\ j \in i..n
    BY <1>3, <1>4, <2>1
  <2>3. parts[h] = SubSeq(t, i, j)
    BY <1>7
  <2> HIDE DEF i, j, parts
  <2>4. \A k \in i..j : t[k] \in X
    BY <1>2, <2>2
  <2>5. SubSeq(t, i, j) \in Seq(X) /\ Len(SubSeq(t, i, j)) = IF i <= j THEN j - i + 1 ELSE 0
    BY <1>2, <2>2, <2>4, SubSeqProperties
  <2>6. Len(SubSeq(t, i, j)) # 0
    BY <1>2, <2>2, <2>5
  <2>7. Len(<<>>) = 0
    OBVIOUS
  <2> QED BY <2>3, <2>5, <2>6, <2>7
<1>9. parts \in [1..m -> Seq(X)]
  <2>1. parts = [h \in 1..m |-> parts[h]]
    BY <1>7
  <2> HIDE DEF parts
  <2> QED BY <1>8, <2>1
<1>10. parts \in Seq(Seq(X)) /\ Len(parts) = m
  <2> HIDE DEF parts
  <2> QED BY <1>7, <1>9
<1> HIDE DEF parts
<1> QED BY <1>1, <1>8, <1>10

(* What the embedder takes.                                                 *)
Small == {c \in Seq(Characters) : Len(c) <= CharLimit}

(* A small text is one that fits into a chunk.                              *)
LEMMA SmallIs ==
    \A c : c \in Small <=> c \in Seq(Characters) /\ Len(c) <= CharLimit
BY DEF Small

(* What is solid is not empty.                                              *)
LEMMA SolidType ==
    ASSUME NEW X, NEW Y \in SUBSET Seq(X), NEW texts \in Seq(Y)
    PROVE  Solid(texts) \in Seq({y \in Y : y # <<>>})
<1> DEFINE places == {h \in DOMAIN texts : Trim(texts[h]) # <<>>}
           k == Kept(texts, places)
           n == Cardinality(places)
<1>1. Solid(texts) = k
  BY DEF Solid
<1>2. places \in SUBSET DOMAIN texts
  OBVIOUS
<1>3. \A h \in places : texts[h] # <<>> /\ texts[h] \in Y
  <2>1. ASSUME NEW t, Trim(t) # <<>> PROVE t # <<>>
    <3>1. Trim(<<>>) = <<>>
      BY DEF Trim, Places
    <3> QED BY <2>1, <3>1
  <2> QED BY <2>1
<1> HIDE DEF places, k, n
<1>4. /\ n \in Nat
      /\ k \in Seq(Y) /\ Len(k) = n /\ DOMAIN k = 1..n
      /\ \E order \in [1..n -> places] :
            /\ \A i, j \in 1..n : i < j => order[i] < order[j]
            /\ \A x \in places : \E i \in 1..n : order[i] = x
            /\ \A i \in 1..n : k[i] = texts[order[i]]
  <2>1. IsKept(Y, texts, places, n, k)
    BY ONLY texts \in Seq(Y), <1>2, KeptIs DEF k, n
  <2> QED BY ONLY <2>1 DEF IsKept
<1>5. \A i \in 1..n : k[i] \in Y /\ k[i] # <<>>
  <2> SUFFICES ASSUME NEW i \in 1..n PROVE k[i] \in Y /\ k[i] # <<>>
    OBVIOUS
  <2>1. PICK order \in [1..n -> places] : \A j \in 1..n : k[j] = texts[order[j]]
    BY ONLY <1>4
  <2>2. order[i] \in places /\ k[i] = texts[order[i]]
    BY ONLY <2>1, i \in 1..n
  <2>3. k[i] \in Y
    BY ONLY <1>4, i \in 1..n
  <2> QED BY ONLY <1>3, <2>2, <2>3
<1>6. k \in [1..n -> {y \in Y : y # <<>>}]
  BY <1>4, <1>5
<1>7. k \in Seq({y \in Y : y # <<>>})
  BY <1>4, <1>6
<1> QED BY <1>1, <1>7

(* The sentences of a text are texts.                                       *)
LEMMA AllSentencesType ==
    ASSUME NEW t \in Seq(Characters)
    PROVE  AllSentences(t) \in Seq(Seq(Characters))
<1> DEFINE X == Characters
           paragraphs == Solid(Paragraphs(t))
           s == [h \in DOMAIN paragraphs |-> Sentences(Trim(paragraphs[h]))]
<1>1. Paragraphs(t) \in Seq(Seq(X))
  BY PartsType DEF Paragraphs
<1>2. paragraphs \in Seq({y \in Seq(X) : y # <<>>})
  BY <1>1, SolidType
<1> HIDE DEF paragraphs, X
<1>3. \A h \in 1..Len(paragraphs) : paragraphs[h] \in Seq(X)
  BY <1>2
<1>4. \A h \in 1..Len(paragraphs) : Sentences(Trim(paragraphs[h])) \in Seq(Seq(X))
  <2> SUFFICES ASSUME NEW h \in 1..Len(paragraphs) PROVE Sentences(Trim(paragraphs[h])) \in Seq(Seq(X))
    OBVIOUS
  <2>1. Trim(paragraphs[h]) \in Seq(X)
    BY <1>3, TrimType
  <2> QED BY <2>1, PartsType DEF Sentences
<1>5. DOMAIN paragraphs = 1..Len(paragraphs) /\ Len(paragraphs) \in Nat
  BY <1>2
<1>6. s \in [1..Len(paragraphs) -> Seq(Seq(X))]
  BY <1>4, <1>5
<1> HIDE DEF s
<1>7. s \in Seq(Seq(Seq(X)))
  BY <1>5, <1>6
<1>8. FlattenSeq(s) \in Seq(Seq(X))
  BY <1>7, FlattenType
<1>9. AllSentences(t) = FlattenSeq(s)
  BY DEF AllSentences, s, paragraphs
<1> QED BY <1>8, <1>9 DEF X

(* A cut takes at least one character and at most a chunk full, so what is  *)
(* cut comes to an end.                                                     *)
LEMMA CutBounds ==
    ASSUME NEW rest
    PROVE  Cut(rest) \in 1..CharLimit
<1> DEFINE spaces == {i \in 2..CharLimit + 1 : rest[i] = Space}
<1>1. CharLimit \in Nat /\ CharLimit # 0
  BY CharLimitAssumption
<1>2. CASE spaces # {}
  <2>1. spaces \in SUBSET (0..CharLimit + 1) /\ \A i \in spaces : i \in 2..CharLimit + 1
    BY <1>1
  <2>2. Max(spaces) \in spaces
    BY <1>1, <1>2, <2>1, MaxIs
  <2> QED BY <1>1, <1>2, <2>1, <2>2 DEF Cut
<1>3. CASE spaces = {}
  BY <1>1, <1>3 DEF Cut
<1> QED BY <1>2, <1>3

(* A sentence too long for a chunk is cut into pieces that fit.             *)
LEMMA WordBoundaryType ==
    ASSUME NEW t \in Seq(Characters)
    PROVE  splitAtWordBoundary(t) \in Seq(Small)
<1> DEFINE n == Len(t)
           D == 1..n + 1
           Rest(p) == SubSeq(t, p, n)
           More(p) == {i \in p + Cut(Rest(p))..n : t[i] \notin Blanks}
           Piece(p) == <<Trim(SubSeq(Rest(p), 1, Cut(Rest(p))))>>
           stop == {p \in D : Rest(p) = <<>> \/ Len(Rest(p)) <= CharLimit \/ More(p) = {}}
           b == [p \in stop |-> IF Rest(p) = <<>> THEN <<>>
                                ELSE IF Len(Rest(p)) <= CharLimit THEN <<Rest(p)>>
                                ELSE Piece(p) \o <<>>]
           next == [p \in D \ stop |-> Min(More(p))]
           r == [p \in D |-> n + 1 - p]
           V == Seq(Small)
           F == [q \in V \X D |-> Piece(q[2]) \o q[1]]
<1>1. n \in Nat /\ \A i \in 1..n : t[i] \in Characters
  OBVIOUS
<1>2. CharLimit \in Nat /\ CharLimit # 0
  BY CharLimitAssumption
<1> HIDE DEF n
<1>3. ASSUME NEW p \in D PROVE Rest(p) \in Seq(Characters) /\ Len(Rest(p)) = n + 1 - p
  <2>1. p \in Int /\ n \in Int /\ \A i \in p..n : t[i] \in Characters
    BY <1>1
  <2>2. /\ SubSeq(t, p, n) \in Seq(Characters)
        /\ Len(SubSeq(t, p, n)) = IF p <= n THEN n - p + 1 ELSE 0
    BY <2>1, SubSeqProperties
  <2> QED BY <1>1, <2>2
<1> HIDE DEF Rest
<1>4. ASSUME NEW p \in D, ~(Len(Rest(p)) <= CharLimit) PROVE Piece(p) \in V
  <2> DEFINE rest == Rest(p)
             cut == Cut(Rest(p))
             q == SubSeq(rest, 1, cut)
  <2>1. cut \in 1..CharLimit
    BY CutBounds
  <2>2. rest \in Seq(Characters) /\ Len(rest) \in Nat /\ CharLimit < Len(rest)
    BY <1>2, <1>3, <1>4
  <2> HIDE DEF rest, cut
  <2>3. cut \in Int /\ cut >= 1 /\ cut <= CharLimit /\ \A i \in 1..cut : rest[i] \in Characters
    BY <1>2, <2>1, <2>2
  <2>4. q \in Seq(Characters) /\ Len(q) = cut
    BY <2>3, SubSeqProperties
  <2> HIDE DEF q
  <2>5. Trim(q) \in Seq(Characters) /\ Len(Trim(q)) <= cut
    BY <2>4, TrimType
  <2>6. Len(Trim(q)) \in Nat
    BY <2>5
  <2>7. Trim(q) \in Small
    BY <1>2, <2>3, <2>5, <2>6, SmallIs
  <2> QED BY <2>7 DEF q, rest, cut
<1>5. ASSUME NEW p \in D, More(p) # {} PROVE Min(More(p)) \in p + 1..n
  <2>1. Cut(Rest(p)) \in 1..CharLimit
    BY CutBounds
  <2>2. More(p) \in SUBSET Nat /\ \A i \in More(p) : i \in p + 1..n
    BY <1>1, <1>2, <2>1
  <2> HIDE DEF More
  <2> QED BY <1>5, <2>2, MinIs
<1> HIDE DEF More, Piece
<1>6. b \in [stop -> V]
  <2> SUFFICES ASSUME NEW p \in stop PROVE b[p] \in V
    OBVIOUS
  <2>1. CASE Rest(p) = <<>>
    BY <2>1
  <2>2. CASE Rest(p) # <<>> /\ Len(Rest(p)) <= CharLimit
    <3>1. Rest(p) \in Small
      BY <1>3, <2>2, SmallIs
    <3> QED BY <2>2, <3>1
  <2>3. CASE Rest(p) # <<>> /\ ~(Len(Rest(p)) <= CharLimit)
    <3>1. Piece(p) \in V
      BY <1>4, <2>3
    <3>2. Piece(p) \o <<>> \in V
      BY <3>1, ConcatEmptySeq
    <3> QED BY <2>3, <3>2
  <2> QED BY <2>1, <2>2, <2>3
<1>7. next \in [D \ stop -> D]
  <2>1. \A p \in D \ stop : Min(More(p)) \in D
    <3> SUFFICES ASSUME NEW p \in D \ stop PROVE Min(More(p)) \in D
      OBVIOUS
    <3>1. Min(More(p)) \in p + 1..n
      BY <1>5
    <3> QED BY <1>1, <3>1
  <2> QED BY <2>1
<1>8. \A p \in D \ stop : r[next[p]] < r[p]
  <2> SUFFICES ASSUME NEW p \in D \ stop PROVE r[next[p]] < r[p]
    OBVIOUS
  <2>1. next[p] = Min(More(p)) /\ Min(More(p)) \in p + 1..n
    BY <1>5
  <2> QED BY <1>1, <2>1
<1>9. r \in [D -> 0..n]
  BY <1>1
<1>10. Descends(D, n, r, stop, next)
  <2>1. stop \in SUBSET D
    OBVIOUS
  <2> HIDE DEF D, r, stop, next
  <2> QED BY <1>1, <1>7, <1>8, <1>9, <2>1 DEF Descends
<1>11. \A v \in V, p \in D : ~(Len(Rest(p)) <= CharLimit) => Piece(p) \o v \in V
  BY <1>4, ConcatProperties
<1> DEFINE W == {v \in V : TRUE}
           G == [q \in V \X D |-> IF q[2] \in stop THEN q[1] ELSE Piece(q[2]) \o q[1]]
<1>12. G \in [V \X D -> V]
  BY <1>11
<1>13. \E g : g \in [D -> V] /\ (\A p \in stop : g[p] = b[p])
                  /\ \A p \in D \ stop : g[p] = G[<<g[next[p]], p>>]
  <2>1. Recursion(D, n, r, stop, next, V, b, G)
    <3> HIDE DEF D, r, stop, next, V, b, G
    <3> QED BY <1>6, <1>10, <1>12 DEF Recursion
  <2> HIDE DEF D, r, stop, next, V, b, G
  <2> QED BY <2>1, Chain
<1>14. PICK g : g \in [D -> V] /\ (\A p \in stop : g[p] = b[p])
                  /\ \A p \in D \ stop : g[p] = G[<<g[next[p]], p>>]
  BY <1>13
<1> DEFINE Same(f) == f = [p \in D |-> IF Rest(p) = <<>> THEN <<>>
                                       ELSE IF Len(Rest(p)) <= CharLimit THEN <<Rest(p)>>
                                       ELSE Piece(p) \o (IF More(p) = {} THEN <<>> ELSE f[Min(More(p))])]
           c == CHOOSE f : Same(f)
<1>15. \A p \in D \ stop : next[p] \in D /\ next[p] = Min(More(p)) /\ g[next[p]] \in V
  BY <1>7, <1>14
<1>16. \A p \in D \ stop : g[p] = Piece(p) \o g[Min(More(p))]
  <2> SUFFICES ASSUME NEW p \in D \ stop PROVE g[p] = Piece(p) \o g[Min(More(p))]
    OBVIOUS
  <2>1. <<g[next[p]], p>> \in V \X D
    BY <1>15
  <2>2. G[<<g[next[p]], p>>] = Piece(p) \o g[next[p]]
    BY <2>1
  <2> QED BY <1>14, <1>15, <2>2
<1>17. Same(g)
  <2>1. g = [p \in D |-> g[p]]
    BY <1>14
  <2>2. \A p \in stop : g[p] = b[p]
    BY <1>14
  <2> HIDE DEF next, G, F, r
  <2> QED BY <1>16, <2>1, <2>2
<1>18. \E f : Same(f)
  <2> HIDE DEF Same
  <2> QED BY <1>17
<1>19. Same(c)
  <2> HIDE DEF Same
  <2> QED BY <1>18
<1>20. splitAtWordBoundary(t) = c[1]
  BY DEF splitAtWordBoundary, n, Rest, More, Piece
<1> HIDE DEF c
<1>21. \A p \in stop : c[p] \in V
  <2>1. \A p \in stop : c[p] = b[p]
    BY <1>19
  <2> HIDE DEF b, Same
  <2> QED BY <1>6, <2>1
<1>22. \A p \in D \ stop : c[next[p]] \in V => c[p] \in V
  <2> SUFFICES ASSUME NEW p \in D \ stop, c[next[p]] \in V PROVE c[p] \in V
    OBVIOUS
  <2>1. c[p] = Piece(p) \o c[next[p]]
    BY <1>19
  <2> QED BY <1>11, <2>1
<1>23. \A p \in D : c[p] \in V
  <2> HIDE DEF D, r, stop, next, V, b, Same
  <2> QED BY <1>10, <1>21, <1>22, ChainIn
<1>24. 1 \in D
  BY <1>1
<1> QED BY <1>20, <1>23, <1>24

(* A chunk of a text is one the embedder takes, and is not empty.           *)
Chunk1 == {c \in Small : c # <<>>}

(* The empty text is small.                                                 *)
LEMMA EmptySmall == <<>> \in Small
<1>1. CharLimit \in Nat
  BY CharLimitAssumption
<1>2. <<>> \in Seq(Characters) /\ Len(<<>>) = 0
  OBVIOUS
<1> DEFINE e == <<>>
<1>3. e \in Seq(Characters) /\ Len(e) <= CharLimit
  BY <1>1, <1>2
<1> HIDE DEF e
<1>4. e \in Small
  BY <1>3, SmallIs
<1> QED BY <1>4 DEF e

(* What fits still fits without its outer blanks.                           *)
LEMMA TrimSmall ==
    ASSUME NEW t \in Small
    PROVE  Trim(t) \in Small /\ NonEmpty(Trim(t)) \in Seq(Small)
<1>1. t \in Seq(Characters) /\ Len(t) <= CharLimit /\ Len(t) \in Nat
  BY SmallIs
<1>2. Trim(t) \in Seq(Characters) /\ Len(Trim(t)) <= Len(t)
  BY <1>1, TrimType
<1>3. Len(Trim(t)) \in Nat
  BY <1>2
<1>4. CharLimit \in Nat
  BY CharLimitAssumption
<1>5. Trim(t) \in Small
  BY <1>1, <1>2, <1>3, <1>4, SmallIs
<1> QED BY <1>5 DEF NonEmpty

(* With every sentence, the chunks and the text that is being filled fit.   *)
LEMMA TakeSentenceType ==
    ASSUME NEW acc, acc \in [chunks : Seq(Small), current : Small],
           NEW sentence, sentence \in Seq(Characters)
    PROVE  TakeSentence(acc, sentence) \in [chunks : Seq(Small), current : Small]
<1> DEFINE V == [chunks : Seq(Small), current : Small]
           A == acc.chunks
           B == acc.current
           candidate == IF B = <<>> THEN sentence ELSE B \o <<Space>> \o sentence
<1>1. A \in Seq(Small) /\ B \in Small /\ acc = [chunks |-> A, current |-> B]
  OBVIOUS
<1>2. Trim(B) \in Small /\ NonEmpty(Trim(B)) \in Seq(Small)
  BY <1>1, TrimSmall
<1>3. <<>> \in Small
  BY EmptySmall
<1>4. Len(sentence) \in Nat /\ CharLimit \in Nat
  BY CharLimitAssumption
<1>5. candidate \in Seq(Characters)
  <2>1. B \in Seq(Characters)
    BY <1>1, SmallIs
  <2>2. Space \in Characters
    BY DEF Characters, Blanks
  <2>3. <<Space>> \in Seq(Characters)
    BY <2>2
  <2>4. B \o <<Space>> \in Seq(Characters)
    BY <2>1, <2>3, ConcatProperties
  <2>5. (B \o <<Space>>) \o sentence \in Seq(Characters)
    BY <2>4, ConcatProperties
  <2> QED BY <2>5
<1>6. Len(candidate) \in Nat
  BY <1>5
<1> HIDE DEF A, B
<1>7. CASE Len(sentence) > CharLimit
  <2> DEFINE new == A \o NonEmpty(Trim(B)) \o splitAtWordBoundary(sentence)
  <2>1. TakeSentence(acc, sentence) = [chunks |-> new, current |-> <<>>]
    BY <1>7 DEF TakeSentence, A, B
  <2>2. splitAtWordBoundary(sentence) \in Seq(Small)
    BY WordBoundaryType
  <2>3. A \o NonEmpty(Trim(B)) \in Seq(Small)
    BY <1>1, <1>2, ConcatProperties
  <2>4. new \in Seq(Small)
    BY <2>2, <2>3, ConcatProperties
  <2> HIDE DEF new
  <2> QED BY <1>3, <2>1, <2>4
<1>8. CASE ~(Len(sentence) > CharLimit) /\ Len(candidate) > CharLimit
  <2>1. TakeSentence(acc, sentence) = [chunks |-> Append(A, Trim(B)), current |-> sentence]
    BY <1>8 DEF TakeSentence, A, B
  <2>2. Append(A, Trim(B)) \in Seq(Small)
    BY <1>1, <1>2, AppendProperties
  <2>3. sentence \in Small
    BY <1>4, <1>8, SmallIs
  <2> QED BY <2>1, <2>2, <2>3
<1>9. CASE ~(Len(sentence) > CharLimit) /\ ~(Len(candidate) > CharLimit)
  <2>1. TakeSentence(acc, sentence) = [chunks |-> A, current |-> candidate]
    BY <1>1, <1>9 DEF TakeSentence, A, B
  <2>2. candidate \in Small
    <3> HIDE DEF candidate
    <3> QED BY <1>4, <1>5, <1>6, <1>9, SmallIs
  <2> HIDE DEF candidate
  <2> QED BY <1>1, <2>1, <2>2
<1> QED BY <1>7, <1>8, <1>9

(* The chunks of a long text fit, and none is empty.                        *)
LEMMA ChunkTextType ==
    ASSUME NEW t \in Seq(Characters)
    PROVE  chunkText(t) \in Seq(Chunk1)
<1> DEFINE s == AllSentences(t)
           n == Len(s)
           V == [chunks : Seq(Small), current : Small]
           b == [chunks |-> <<>>, current |-> <<>>]
           end == FoldLeft(TakeSentence, b, s)
           all == end.chunks \o NonEmpty(Trim(end.current))
<1>1. s \in Seq(Seq(Characters))
  BY AllSentencesType
<1> HIDE DEF s
<1>2. n \in Nat /\ DOMAIN s = 1..n /\ \A i \in 1..n : s[i] \in Seq(Characters)
  BY <1>1
<1>3. b \in V
  <2>1. <<>> \in Small
    BY EmptySmall
  <2> QED BY <2>1
<1>4. \A v \in V, i \in 1..n : TakeSentence(v, s[i]) \in V
  BY <1>2, TakeSentenceType
<1>5. end \in V
  <2> HIDE DEF V, n
  <2>1. FillingReady(n, s, V)
    BY <1>2, <1>3, <1>4 DEF FillingReady
  <2>2. PICK h : FillingRun(n, s, V, h)
    BY <2>1, Filling
  <2> QED BY <1>2, <2>2 DEF FillingRun
<1> HIDE DEF end
<1>6. end.chunks \in Seq(Small) /\ end.current \in Small
  BY <1>5
<1>7. all \in Seq(Small)
  <2>1. NonEmpty(Trim(end.current)) \in Seq(Small)
    BY <1>6, TrimSmall
  <2> QED BY <1>6, <2>1, ConcatProperties
<1>8. chunkText(t) = Solid(all)
  BY DEF chunkText, end, s
<1> HIDE DEF all
<1>9. Small \in SUBSET Seq(Characters)
  BY SmallIs
<1>10. Solid(all) \in Seq({y \in Small : y # <<>>})
  BY <1>7, <1>9, SolidType
<1> QED BY <1>8, <1>10 DEF Chunk1

(* So do those of any text.                                                 *)
LEMMA SplitChunksType ==
    ASSUME NEW t \in Seq(Characters)
    PROVE  splitChunks(t) \in Seq(Chunk1)
<1> DEFINE u == IF needsChunking(t) THEN chunkText(t) ELSE <<t>>
<1>1. u \in Seq(Small)
  <2>1. CASE needsChunking(t)
    <3>1. Chunk1 \in SUBSET Small
      BY DEF Chunk1
    <3>2. chunkText(t) \in Seq(Chunk1)
      BY ChunkTextType
    <3>3. chunkText(t) \in Seq(Small)
      BY <3>1, <3>2, SeqMonotonic
    <3> QED BY <2>1, <3>3
  <2>2. CASE ~needsChunking(t)
    <3>1. Len(t) \in Nat /\ CharLimit \in Nat
      BY CharLimitAssumption
    <3>2. t \in Small
      BY <2>2, <3>1, SmallIs DEF needsChunking
    <3> QED BY <2>2, <3>2
  <2> QED BY <2>1, <2>2
<1>2. Small \in SUBSET Seq(Characters)
  BY SmallIs
<1>3. splitChunks(t) = Solid(u)
  BY DEF splitChunks
<1> HIDE DEF u
<1>4. Solid(u) \in Seq({y \in Small : y # <<>>})
  BY <1>1, <1>2, SolidType
<1> QED BY <1>3, <1>4 DEF Chunk1

(* Chunks joined by a character are a text.                                 *)
LEMMA JoinedType ==
    ASSUME NEW s \in Seq(Seq(Characters)), NEW char \in Characters
    PROVE  Joined(s, char) \in Seq(Characters)
<1> DEFINE n == Len(s)
           V == Seq(Characters)
<1>1. n \in Nat /\ DOMAIN s = 1..n /\ <<>> \in V /\ \A i \in 1..n : s[i] \in V
  OBVIOUS
<1>2. \A v \in V, i \in 1..n : (IF v = <<>> THEN s[i] ELSE v \o <<char>> \o s[i]) \in V
  <2> SUFFICES ASSUME NEW v \in V, NEW i \in 1..n PROVE v \o <<char>> \o s[i] \in V
    BY <1>1
  <2>1. <<char>> \in V
    OBVIOUS
  <2>2. v \o <<char>> \in V
    BY <2>1, ConcatProperties
  <2> QED BY <1>1, <2>2, ConcatProperties
<1> HIDE DEF n, V
<1>3. JoiningReady(n, s, V, char)
  BY <1>1, <1>2 DEF JoiningReady
<1>5. PICK h : JoiningRun(n, s, V, char, h)
  BY <1>3, Joining
<1>4. Joined(s, char) \in V
  BY <1>1, <1>5 DEF JoiningRun
<1> QED BY <1>4 DEF V

(* The words of a text are an array.                                        *)
LEMMA TokenizeType ==
    ASSUME NEW t \in Seq(Characters)
    PROVE  tokenize(t) \in Seq(Seq(Characters))
<1> DEFINE lower == [i \in Places(t) |-> IF t[i] = "B" THEN "b" ELSE t[i]]
           words == Parts(lower, {<<i, i>> : i \in {h \in Places(t) : t[h] \notin Letters}})
           places == {h \in DOMAIN words : Len(words[h]) >= MinTokenLen}
<1>1. lower \in Seq(Characters)
  <2>1. Len(t) \in Nat /\ Places(t) = 1..Len(t) /\ \A i \in 1..Len(t) : t[i] \in Characters
    BY DEF Places
  <2>2. "b" \in Characters
    BY DEF Characters, Letters
  <2>3. lower \in [1..Len(t) -> Characters]
    BY <2>1, <2>2
  <2> HIDE DEF lower
  <2> QED BY <2>1, <2>3
<1> HIDE DEF lower
<1>2. words \in Seq(Seq(Characters))
  BY <1>1, PartsType
<1>3. tokenize(t) = Kept(words, places)
  BY DEF tokenize, lower
<1>4. places \in SUBSET DOMAIN words
  OBVIOUS
<1> HIDE DEF words, places
<1>5. Kept(words, places) \in Seq(Seq(Characters))
  <2>1. IsKept(Seq(Characters), words, places, Cardinality(places), Kept(words, places))
    BY ONLY <1>2, <1>4, KeptIs
  <2> QED BY ONLY <2>1 DEF IsKept
<1> QED BY <1>3, <1>5

(* The words of some chunks, one by one.                                    *)
Words(C, S) == {p \in S \X Nat : p[2] \in 1..Len(tokenize(C[p[1]]))}

(* No chunks have no words.                                                 *)
LEMMA WordsOfNone == \A C : IsFiniteSet(Words(C, {})) /\ Cardinality(Words(C, {})) = 0
<1> SUFFICES ASSUME NEW C PROVE IsFiniteSet(Words(C, {})) /\ Cardinality(Words(C, {})) = 0
  OBVIOUS
<1>1. Words(C, {}) = {}
  BY DEF Words
<1> QED BY <1>1, FS_EmptySet

(* One more chunk has so many more words.                                   *)
LEMMA WordsOfOneMore ==
    ASSUME NEW C, NEW S, NEW x \in S, Len(tokenize(C[x])) \in Nat, IsFiniteSet(Words(C, S \ {x}))
    PROVE  /\ IsFiniteSet(Words(C, S))
           /\ Cardinality(Words(C, S)) = Cardinality(Words(C, S \ {x})) + Len(tokenize(C[x]))
<1> DEFINE n == Len(tokenize(C[x]))
           A == Words(C, S \ {x})
           B == {x} \X (1..n)
<1>1. Words(C, S) = A \cup B
  BY DEF Words
<1>2. A \cap B = {}
  BY DEF Words
<1>3. IsFiniteSet(1..n) /\ Cardinality(1..n) = n
  <2>1. n \in Nat
    OBVIOUS
  <2> HIDE DEF n
  <2>2. 1 \in Int /\ n \in Int /\ (1 > n => n = 0) /\ (1 <= n => n - 1 + 1 = n)
    BY <2>1
  <2>3. IsFiniteSet(1..n) /\ Cardinality(1..n) = IF 1 > n THEN 0 ELSE n - 1 + 1
    BY ONLY <2>2, FS_Interval
  <2> QED BY <2>2, <2>3
<1>4. IsFiniteSet({x}) /\ Cardinality({x}) = 1
  BY FS_Singleton
<1>5. IsFiniteSet(B) /\ Cardinality(B) = 1 * n
  BY ONLY <1>3, <1>4, FS_Product
<1>6. IsFiniteSet(A) /\ Cardinality(A) \in Nat
  BY FS_CardinalityType
<1> HIDE DEF A, B, n
<1>7. IsFiniteSet(A \cup B) /\ Cardinality(A \cup B) = Cardinality(A) + Cardinality(B) - Cardinality(A \cap B)
  BY <1>5, <1>6, FS_Union
<1>8. Cardinality(A \cap B) = 0
  BY <1>2, FS_EmptySet
<1>9. n \in Nat
  BY DEF n
<1> QED BY <1>1, <1>5, <1>6, <1>7, <1>8, <1>9 DEF A, n

(* The sum that FoldSet computes is the number of words.                    *)
LEMMA LengthIs ==
    ASSUME NEW C, NEW S, IsFiniteSet(S), \A x \in S : Len(tokenize(C[x])) \in Nat
    PROVE  /\ IsFiniteSet(Words(C, S)) /\ Cardinality(Words(C, S)) \in Nat
           /\ Length(C, S) = Cardinality(Words(C, S))
<1> DEFINE D == SUBSET S
           c(s) == CHOOSE x \in s : TRUE
           Same(f) == f = [s \in D |-> IF s = {} THEN 0 ELSE f[s \ {c(s)}] + Len(tokenize(C[c(s)]))]
           g == [s \in D |-> Cardinality(Words(C, s))]
           T == {s \in D : IsFiniteSet(Words(C, s))}
           N == Cardinality(S)
           r == [s \in D |-> Cardinality(s)]
           next == [s \in D \ {{}} |-> s \ {c(s)}]
<1>1. N \in Nat /\ \A s \in D : IsFiniteSet(s) /\ Cardinality(s) \in 0..N
  <2>1. N \in Nat
    BY FS_CardinalityType
  <2> SUFFICES ASSUME NEW s \in D PROVE IsFiniteSet(s) /\ Cardinality(s) \in 0..N
    BY <2>1
  <2>2. IsFiniteSet(s) /\ Cardinality(s) <= N
    BY FS_Subset
  <2>3. Cardinality(s) \in Nat
    BY <2>2, FS_CardinalityType
  <2> HIDE DEF N
  <2> QED BY <2>1, <2>2, <2>3
<1>2. \A s \in D : s # {} => c(s) \in s /\ c(s) \in S /\ s \ {c(s)} \in D
  OBVIOUS
<1> HIDE DEF c
<1>3. Descends(D, N, r, {{}}, next)
  <2>1. r \in [D -> 0..N] /\ {{}} \in SUBSET D /\ next \in [D \ {{}} -> D]
    BY <1>1, <1>2
  <2>2. ASSUME NEW s \in D \ {{}} PROVE r[next[s]] < r[s]
    <3>1. Cardinality(s \ {c(s)}) = Cardinality(s) - 1
      BY <1>1, <1>2, FS_RemoveElement
    <3>2. r[next[s]] = Cardinality(s \ {c(s)}) /\ r[s] = Cardinality(s)
      BY <1>2
    <3>3. Cardinality(s) \in Int
      BY <1>1
    <3> QED BY <3>1, <3>2, <3>3
  <2> HIDE DEF r, next, D, N
  <2> QED BY <1>1, <2>1, <2>2 DEF Descends
<1>4. ASSUME NEW s \in D, s # {}, IsFiniteSet(Words(C, s \ {c(s)}))
      PROVE /\ IsFiniteSet(Words(C, s))
            /\ Cardinality(Words(C, s)) = Cardinality(Words(C, s \ {c(s)})) + Len(tokenize(C[c(s)]))
  BY <1>2, <1>4, WordsOfOneMore
<1>5. \A s \in D : IsFiniteSet(Words(C, s))
  <2> DEFINE f == [s \in D |-> IsFiniteSet(Words(C, s))]
  <2>1. \A s \in {{}} : f[s] \in {TRUE}
    BY WordsOfNone
  <2>2. \A s \in D \ {{}} : f[next[s]] \in {TRUE} => f[s] \in {TRUE}
    BY <1>2, <1>4
  <2>3. \A s \in D : f[s] \in {TRUE}
    <3> DEFINE stop == {{}}
               V == {TRUE}
    <3> HIDE DEF f, D, r, next, N, stop, V
    <3>1. /\ Descends(D, N, r, stop, next) /\ \A s \in stop : f[s] \in V
          /\ \A s \in D \ stop : f[next[s]] \in V => f[s] \in V
      BY <1>3, <2>1, <2>2 DEF stop, V
    <3>2. \A s \in D : f[s] \in V
      BY ONLY <3>1, ChainIn
    <3> QED BY <3>2 DEF V
  <2> QED BY <2>3
<1>6. \A s \in D : s # {} =>
         Cardinality(Words(C, s)) = Cardinality(Words(C, s \ {c(s)})) + Len(tokenize(C[c(s)]))
  BY <1>2, <1>4, <1>5
<1>7. Same(g)
  <2>1. g[{}] = 0
    BY WordsOfNone
  <2>2. \A s \in D : s # {} => g[s] = g[s \ {c(s)}] + Len(tokenize(C[c(s)]))
    BY <1>2, <1>6
  <2>3. g = [s \in D |-> g[s]]
    OBVIOUS
  <2> HIDE DEF g
  <2> QED BY <2>1, <2>2, <2>3
<1> DEFINE h == CHOOSE f : Same(f)
<1>8. Length(C, S) = h[S]
  BY DEF Length, FoldSet, MapThenFoldSet, c
<1>9. \E f : Same(f)
  <2> HIDE DEF Same, g
  <2> QED BY <1>7
<1>10. Same(h)
  <2> HIDE DEF Same
  <2> QED BY <1>9
<1> HIDE DEF h
<1>11. \A s \in D : h[s] = Cardinality(Words(C, s))
  <2> DEFINE f == [s \in D |-> h[s] = Cardinality(Words(C, s))]
  <2>1. \A s \in {{}} : f[s] \in {TRUE}
    BY <1>10, WordsOfNone
  <2>2. \A s \in D \ {{}} : f[next[s]] \in {TRUE} => f[s] \in {TRUE}
    <3> SUFFICES ASSUME NEW s \in D \ {{}}, f[next[s]] \in {TRUE} PROVE f[s] \in {TRUE}
      OBVIOUS
    <3>1. next[s] = s \ {c(s)} /\ next[s] \in D
      BY <1>2
    <3>2. h[s \ {c(s)}] = Cardinality(Words(C, s \ {c(s)}))
      BY <3>1
    <3>3. h[s] = h[s \ {c(s)}] + Len(tokenize(C[c(s)]))
      BY <1>10
    <3>4. h[s] = Cardinality(Words(C, s))
      BY ONLY <1>6, <3>2, <3>3, s \in D \ {{}}
    <3> QED BY <3>4
  <2>3. \A s \in D : f[s] \in {TRUE}
    <3> DEFINE stop == {{}}
               V == {TRUE}
    <3> HIDE DEF f, D, r, next, N, stop, V
    <3>1. /\ Descends(D, N, r, stop, next) /\ \A s \in stop : f[s] \in V
          /\ \A s \in D \ stop : f[next[s]] \in V => f[s] \in V
      BY <1>3, <2>1, <2>2 DEF stop, V
    <3>2. \A s \in D : f[s] \in V
      BY ONLY <3>1, ChainIn
    <3> QED BY <3>2 DEF V
  <2> QED BY <2>3
<1>12. S \in D
  OBVIOUS
<1>13. IsFiniteSet(Words(C, S)) /\ Cardinality(Words(C, S)) \in Nat
  BY <1>5, <1>12, FS_CardinalityType
<1> QED BY <1>8, <1>11, <1>12, <1>13

(* Maps: functions on some of A, with values in B.                          *)
Maps(A, B) == UNION {[K -> B] : K \in SUBSET A}

(* A map of some keys to some values.                                       *)
LEMMA MapsIs ==
    \A A, B, f : f \in Maps(A, B) <=> DOMAIN f \in SUBSET A /\ f \in [DOMAIN f -> B]
BY DEF Maps

Key      == Ids \X Nat
Posting  == [doc : Key, tf : Nat]
Contents == {C \in Maps(Key, Seq(Characters)) : IsFiniteSet(DOMAIN C)}
Hybrids  == [postings    : Maps(Seq(Characters), Seq(Posting)),
             docs        : Maps(Key, [terms : SUBSET Seq(Characters), length : Nat]),
             totalLength : Int]

Less(C, c) == Restrict(C, DOMAIN C \ {c})

Count(C, c, w) == Cardinality({h \in DOMAIN tokenize(C[c]) : tokenize(C[c])[h] = w})

(* A posting list of word w, over chunks C.                                 *)
Listed(list, w, C) ==
    /\ list \in Seq(Posting)
    /\ \A i, j \in 1..Len(list) : list[i].doc = list[j].doc => i = j
    /\ \A i \in 1..Len(list) : /\ list[i].doc \in DOMAIN C
                               /\ w \in Range(tokenize(C[list[i].doc]))
                               /\ list[i].tf = Count(C, list[i].doc, w)

(* The words of C, turned round.                                            *)
Inverted(H, C) ==
    /\ DOMAIN H.docs = DOMAIN C
    /\ \A c \in DOMAIN C : H.docs[c] = [terms |-> Range(tokenize(C[c])), length |-> Len(tokenize(C[c]))]
    /\ \A w \in DOMAIN H.postings : Listed(H.postings[w], w, C) /\ H.postings[w] # <<>>
    /\ \A c \in DOMAIN C : \A w \in Range(tokenize(C[c])) :
          w \in DOMAIN H.postings /\ \E i \in 1..Len(H.postings[w]) : H.postings[w][i].doc = c
    /\ H.totalLength = Cardinality(Words(C, DOMAIN C))

(* The vector index without a chunk.                                        *)
LEMMA LessIs ==
    ASSUME NEW C \in Contents, NEW c
    PROVE  /\ Less(C, c) \in Contents /\ DOMAIN Less(C, c) = DOMAIN C \ {c}
           /\ \A d \in DOMAIN C \ {c} : Less(C, c)[d] = C[d]
           /\ c \notin DOMAIN C => Less(C, c) = C
<1>1. DOMAIN C \in SUBSET Key /\ C \in [DOMAIN C -> Seq(Characters)] /\ IsFiniteSet(DOMAIN C)
  BY MapsIs DEF Contents
<1>2. DOMAIN Less(C, c) = DOMAIN C \ {c} /\ \A d \in DOMAIN C \ {c} : Less(C, c)[d] = C[d]
  BY DEF Less, Restrict
<1>3. Less(C, c) = [d \in DOMAIN C \ {c} |-> C[d]]
  BY DEF Less, Restrict
<1>4. Less(C, c) \in [DOMAIN C \ {c} -> Seq(Characters)]
  BY <1>1, <1>3
<1>5. Less(C, c) \in Maps(Key, Seq(Characters))
  BY <1>1, <1>2, <1>4, MapsIs
<1>6. IsFiniteSet(DOMAIN C \ {c})
  BY <1>1, FS_RemoveElement
<1>7. c \notin DOMAIN C => Less(C, c) = C
  BY <1>1, <1>3
<1> QED BY <1>2, <1>5, <1>6, <1>7 DEF Contents

(* The words of an indexed chunk.                                           *)
LEMMA TextOf ==
    ASSUME NEW C \in Contents, NEW c \in DOMAIN C
    PROVE  /\ C[c] \in Seq(Characters) /\ c \in Key
           /\ tokenize(C[c]) \in Seq(Seq(Characters)) /\ Len(tokenize(C[c])) \in Nat
           /\ DOMAIN tokenize(C[c]) = 1..Len(tokenize(C[c]))
           /\ Range(tokenize(C[c])) \in SUBSET Seq(Characters)
<1>1. C[c] \in Seq(Characters) /\ c \in Key
  BY MapsIs DEF Contents
<1>2. tokenize(C[c]) \in Seq(Seq(Characters))
  BY <1>1, TokenizeType
<1> DEFINE s == tokenize(C[c])
<1> HIDE DEF s
<1>3. s \in Seq(Seq(Characters))
  BY <1>2 DEF s
<1>4. Len(s) \in Nat /\ DOMAIN s = 1..Len(s) /\ Range(s) \in SUBSET Seq(Characters)
  BY <1>3 DEF Range
<1> QED BY <1>1, <1>3, <1>4 DEF s

(* How often a word of a chunk occurs.                                      *)
LEMMA CountIs ==
    ASSUME NEW C \in Contents, NEW c \in DOMAIN C, NEW w
    PROVE  Count(C, c, w) \in Nat /\ (w \in Range(tokenize(C[c])) => Count(C, c, w) > 0)
<1> DEFINE s == tokenize(C[c])
           T == {h \in DOMAIN s : s[h] = w}
<1>1. Len(s) \in Nat /\ DOMAIN s = 1..Len(s)
  BY TextOf
<1> HIDE DEF s
<1>2. IsFiniteSet(1..Len(s)) /\ T \in SUBSET (1..Len(s))
  BY <1>1, FS_Interval
<1>3. IsFiniteSet(T)
  BY ONLY <1>2, FS_Subset
<1>4. Cardinality(T) \in Nat /\ (T # {} => Cardinality(T) # 0)
  BY <1>3, FS_CardinalityType, FS_EmptySet
<1>5. w \in Range(s) => T # {}
  BY DEF Range
<1>6. Count(C, c, w) = Cardinality(T)
  BY DEF Count, s
<1> HIDE DEF T
<1> QED BY <1>4, <1>5, <1>6 DEF s

(* Without one document a posting list lists the others.                    *)
LEMMA WithoutIs ==
    ASSUME NEW C \in Contents, NEW w, NEW list, Listed(list, w, C), NEW c
    PROVE  /\ Listed(Without(list, c), w, Less(C, c))
           /\ \A i \in 1..Len(list) : list[i].doc # c =>
                 /\ Without(list, c) # <<>>
                 /\ \E j \in 1..Len(Without(list, c)) : Without(list, c)[j].doc = list[i].doc
<1> DEFINE places == {h \in DOMAIN list : list[h].doc # c}
           n == Cardinality(places)
           k == Kept(list, places)
<1>1. /\ list \in Seq(Posting)
      /\ \A i, j \in 1..Len(list) : list[i].doc = list[j].doc => i = j
      /\ \A i \in 1..Len(list) : /\ list[i].doc \in DOMAIN C
                                 /\ w \in Range(tokenize(C[list[i].doc]))
                                 /\ list[i].tf = Count(C, list[i].doc, w)
  BY DEF Listed
<1>2. places \in SUBSET DOMAIN list /\ DOMAIN list = 1..Len(list)
  BY <1>1
<1>3. \A h \in places : list[h].doc # c
  OBVIOUS
<1>4. \A h \in 1..Len(list) : list[h].doc # c => h \in places
  BY <1>2
<1>5. Without(list, c) = k
  BY DEF Without
<1> HIDE DEF places, n, k
<1>6. /\ n \in Nat
      /\ k \in Seq(Posting) /\ Len(k) = n /\ DOMAIN k = 1..n
      /\ \E order \in [1..n -> places] :
            /\ \A i, j \in 1..n : i < j => order[i] < order[j]
            /\ \A x \in places : \E i \in 1..n : order[i] = x
            /\ \A i \in 1..n : k[i] = list[order[i]]
  <2>1. list \in Seq(Posting)
    BY <1>1
  <2>2. places \in SUBSET DOMAIN list
    BY <1>2
  <2>3. IsKept(Posting, list, places, n, k)
    BY ONLY <2>1, <2>2, KeptIs DEF n, k
  <2> QED BY ONLY <2>3 DEF IsKept
<1>7. PICK order \in [1..n -> places] :
            /\ \A i, j \in 1..n : i < j => order[i] < order[j]
            /\ \A x \in places : \E i \in 1..n : order[i] = x
            /\ \A i \in 1..n : k[i] = list[order[i]]
  BY <1>6
<1>8. \A i \in 1..n : order[i] \in 1..Len(list) /\ order[i] \in places
  BY <1>2, <1>7
<1>9. ASSUME NEW i \in 1..n, NEW j \in 1..n, k[i].doc = k[j].doc PROVE i = j
  <2>1. order[i] = order[j]
    BY <1>1, <1>7, <1>8, <1>9
  <2>2. order[i] \in Int /\ order[j] \in Int
    BY <1>8
  <2>3. ~(i < j) /\ ~(j < i)
    BY <1>7, <2>1, <2>2
  <2> QED BY <1>6, <2>3
<1>10. DOMAIN Less(C, c) = DOMAIN C \ {c} /\ \A d \in DOMAIN C \ {c} : Less(C, c)[d] = C[d]
  BY LessIs
<1>11. ASSUME NEW i \in 1..n
       PROVE /\ k[i].doc \in DOMAIN Less(C, c)
             /\ w \in Range(tokenize(Less(C, c)[k[i].doc]))
             /\ k[i].tf = Count(Less(C, c), k[i].doc, w)
  <2>1. k[i] = list[order[i]] /\ order[i] \in 1..Len(list) /\ list[order[i]].doc # c
    BY <1>3, <1>7, <1>8
  <2>2. k[i].doc \in DOMAIN C \ {c} /\ w \in Range(tokenize(C[k[i].doc])) /\ k[i].tf = Count(C, k[i].doc, w)
    BY <1>1, <2>1
  <2>3. Less(C, c)[k[i].doc] = C[k[i].doc]
    BY <1>10, <2>2
  <2>4. Count(Less(C, c), k[i].doc, w) = Count(C, k[i].doc, w)
    BY <2>3 DEF Count
  <2> QED BY <1>10, <2>2, <2>3, <2>4
<1>12. Listed(k, w, Less(C, c))
  BY <1>6, <1>9, <1>11 DEF Listed
<1>13. ASSUME NEW i \in 1..Len(list), list[i].doc # c
       PROVE k # <<>> /\ \E j \in 1..Len(k) : k[j].doc = list[i].doc
  <2>1. PICK j \in 1..n : order[j] = i
    BY <1>4, <1>7, <1>13
  <2>2. k[j].doc = list[i].doc
    BY <1>7, <2>1
  <2>3. k # <<>>
    BY <1>6, <2>1
  <2> QED BY <1>6, <2>2, <2>3
<1> QED BY <1>5, <1>12, <1>13

(* A posting list that does not name a chunk is right without the chunk.    *)
LEMMA ListedSame ==
    ASSUME NEW C \in Contents, NEW w, NEW list, Listed(list, w, C), NEW c,
           \A i \in 1..Len(list) : list[i].doc # c
    PROVE  Listed(list, w, Less(C, c))
<1>1. DOMAIN Less(C, c) = DOMAIN C \ {c} /\ \A d \in DOMAIN C \ {c} : Less(C, c)[d] = C[d]
  BY LessIs
<1>2. ASSUME NEW i \in 1..Len(list)
      PROVE /\ list[i].doc \in DOMAIN Less(C, c)
            /\ w \in Range(tokenize(Less(C, c)[list[i].doc]))
            /\ list[i].tf = Count(Less(C, c), list[i].doc, w)
  <2>1. list[i].doc \in DOMAIN C \ {c}
    BY DEF Listed
  <2>2. Less(C, c)[list[i].doc] = C[list[i].doc]
    BY <1>1, <2>1
  <2>3. Count(Less(C, c), list[i].doc, w) = Count(C, list[i].doc, w)
    BY <2>2 DEF Count
  <2> QED BY <1>1, <2>1, <2>2, <2>3 DEF Listed
<1> QED BY <1>2 DEF Listed

(* What the hybrid retriever holds.                                         *)
LEMMA HybridParts ==
    ASSUME NEW H, H \in Hybrids
    PROVE  /\ H.postings \in [DOMAIN H.postings -> Seq(Posting)] /\ DOMAIN H.postings \in SUBSET Seq(Characters)
           /\ H.docs \in [DOMAIN H.docs -> [terms : SUBSET Seq(Characters), length : Nat]]
           /\ DOMAIN H.docs \in SUBSET Key
           /\ H.totalLength \in Int
<1>1. /\ H.postings \in Maps(Seq(Characters), Seq(Posting))
      /\ H.docs \in Maps(Key, [terms : SUBSET Seq(Characters), length : Nat])
      /\ H.totalLength \in Int
  BY DEF Hybrids
<1> DEFINE P == H.postings
           D == H.docs
<1> HIDE DEF P, D
<1>2. P \in Maps(Seq(Characters), Seq(Posting)) /\ D \in Maps(Key, [terms : SUBSET Seq(Characters), length : Nat])
  BY <1>1 DEF P, D
<1>3. P \in [DOMAIN P -> Seq(Posting)] /\ DOMAIN P \in SUBSET Seq(Characters)
  BY ONLY <1>2, MapsIs
<1>4. D \in [DOMAIN D -> [terms : SUBSET Seq(Characters), length : Nat]] /\ DOMAIN D \in SUBSET Key
  BY ONLY <1>2, MapsIs
<1> QED BY ONLY <1>1, <1>3, <1>4 DEF P, D

(* The inverted index stays the inverse of the chunks when one is removed   *)
(* from both (hybrid/index.ts, remove).                                     *)
LEMMA RemoveInverse ==
    ASSUME NEW H, H \in Hybrids, NEW C \in Contents, Inverted(H, C), NEW c
    PROVE  hybridRemove(H, c) \in Hybrids /\ Inverted(hybridRemove(H, c), Less(C, c))
<1> DEFINE P == H.postings
           L == Less(C, c)
<1>1. CASE c \notin DOMAIN H.docs
  <2>1. hybridRemove(H, c) = H
    BY <1>1 DEF hybridRemove
  <2>2. L = C
    BY <1>1, LessIs DEF Inverted
  <2> QED BY <2>1, <2>2
<1>2. CASE c \in DOMAIN H.docs
  <2> DEFINE left == [term \in DOMAIN P |->
                        IF term \in H.docs[c].terms THEN Without(P[term], c) ELSE P[term]]
             post == Restrict(left, {term \in DOMAIN left : left[term] # <<>>})
             docs == Restrict(H.docs, DOMAIN H.docs \ {c})
             total == H.totalLength - H.docs[c].length
  <2>1. hybridRemove(H, c) = [postings |-> post, docs |-> docs, totalLength |-> total]
    BY <1>2 DEF hybridRemove
  <2>2. /\ DOMAIN H.docs = DOMAIN C /\ c \in DOMAIN C
        /\ \A d \in DOMAIN C : H.docs[d] = [terms |-> Range(tokenize(C[d])), length |-> Len(tokenize(C[d]))]
        /\ \A w \in DOMAIN P : Listed(P[w], w, C) /\ P[w] # <<>>
        /\ \A d \in DOMAIN C : \A w \in Range(tokenize(C[d])) :
              w \in DOMAIN P /\ \E i \in 1..Len(P[w]) : P[w][i].doc = d
        /\ H.totalLength = Cardinality(Words(C, DOMAIN C))
    BY <1>2 DEF Inverted
  <2>14. H.docs[c].terms = Range(tokenize(C[c])) /\ H.docs[c].length = Len(tokenize(C[c]))
    <3>1. H.docs[c] = [terms |-> Range(tokenize(C[c])), length |-> Len(tokenize(C[c]))]
      BY ONLY <2>2
    <3> QED BY ONLY <3>1
  <2>3. L \in Contents /\ DOMAIN L = DOMAIN C \ {c} /\ \A d \in DOMAIN L : L[d] = C[d]
    BY LessIs
  <2>4. DOMAIN left = DOMAIN P /\ DOMAIN post = {w \in DOMAIN P : left[w] # <<>>}
        /\ \A w \in DOMAIN post : w \in DOMAIN P /\ post[w] = left[w] /\ left[w] # <<>>
    BY DEF Restrict
  <2>5. DOMAIN docs = DOMAIN L /\ \A d \in DOMAIN L : docs[d] = H.docs[d]
    BY <2>2, <2>3 DEF Restrict
  <2>6. ASSUME NEW w \in DOMAIN P PROVE Listed(left[w], w, L)
    <3>1. CASE w \in H.docs[c].terms
      <4>1. left[w] = Without(P[w], c)
        BY <3>1
      <4> QED BY <2>2, <4>1, WithoutIs
    <3>2. CASE w \notin H.docs[c].terms
      <4>1. left[w] = P[w]
        BY <3>2
      <4>2. w \notin Range(tokenize(C[c]))
        BY <2>14, <3>2
      <4>3. \A i \in 1..Len(P[w]) : P[w][i].doc # c
        BY <2>2, <4>2 DEF Listed
      <4> QED BY <2>2, <4>1, <4>3, ListedSame
    <3> QED BY <3>1, <3>2
  <2>7. ASSUME NEW d \in DOMAIN L, NEW w \in Range(tokenize(L[d]))
        PROVE w \in DOMAIN post /\ \E i \in 1..Len(post[w]) : post[w][i].doc = d
    <3>1. d \in DOMAIN C /\ d # c /\ w \in Range(tokenize(C[d]))
      BY <2>3, <2>7
    <3>2. w \in DOMAIN P
      BY <2>2, <3>1
    <3>3. PICK i \in 1..Len(P[w]) : P[w][i].doc = d
      BY <2>2, <3>1
    <3>4. left[w] # <<>> /\ \E j \in 1..Len(left[w]) : left[w][j].doc = d
      <4>1. CASE w \in H.docs[c].terms
        <5>1. left[w] = Without(P[w], c)
          BY <3>2, <4>1
        <5>2. Listed(P[w], w, C)
          BY <2>2, <3>2
        <5> HIDE DEF P, left
        <5> QED BY <3>1, <3>3, <5>1, <5>2, WithoutIs
      <4>2. CASE w \notin H.docs[c].terms
        <5>1. left[w] = P[w]
          BY <3>2, <4>2
        <5> QED BY <2>2, <3>2, <3>3, <5>1
      <4> QED BY <4>1, <4>2
    <3>5. w \in DOMAIN post /\ post[w] = left[w]
      BY <2>4, <3>2, <3>4 DEF Restrict
    <3> HIDE DEF left, post
    <3> QED BY <3>4, <3>5
  <2>8. total = Cardinality(Words(L, DOMAIN L))
    <3>1. IsFiniteSet(DOMAIN L)
      BY <2>3 DEF Contents
    <3>2. \A d \in DOMAIN L : Len(tokenize(L[d])) \in Nat
      BY <2>3, TextOf
    <3>3. IsFiniteSet(Words(L, DOMAIN L)) /\ Cardinality(Words(L, DOMAIN L)) \in Nat
      BY <3>1, <3>2, LengthIs
    <3>4. Words(C, DOMAIN C \ {c}) = Words(L, DOMAIN L)
      BY <2>3 DEF Words
    <3>5. Len(tokenize(C[c])) \in Nat
      BY <2>2, TextOf
    <3>6. Cardinality(Words(C, DOMAIN C)) = Cardinality(Words(C, DOMAIN C \ {c})) + Len(tokenize(C[c]))
      BY <2>2, <3>3, <3>4, <3>5, WordsOfOneMore
    <3>7. total = Cardinality(Words(C, DOMAIN C)) - Len(tokenize(C[c]))
      BY <2>2, <2>14
    <3> HIDE DEF total, L
    <3> QED BY <3>3, <3>4, <3>5, <3>6, <3>7
  <2>9. post \in Maps(Seq(Characters), Seq(Posting))
    <3>1. \A w \in DOMAIN post : post[w] \in Seq(Posting)
      BY <2>4, <2>6 DEF Listed
    <3>2. DOMAIN post \in SUBSET Seq(Characters)
      BY <2>4, HybridParts
    <3>3. post = [w \in DOMAIN post |-> post[w]]
      BY DEF Restrict
    <3> HIDE DEF post
    <3>4. post \in [DOMAIN post -> Seq(Posting)]
      BY <3>1, <3>3
    <3> QED BY <3>2, <3>4, MapsIs
  <2>10. docs \in Maps(Key, [terms : SUBSET Seq(Characters), length : Nat])
    <3>1. H.docs \in [DOMAIN H.docs -> [terms : SUBSET Seq(Characters), length : Nat]] /\ DOMAIN H.docs \in SUBSET Key
      BY HybridParts
    <3>2. docs = [d \in DOMAIN H.docs \ {c} |-> H.docs[d]]
      BY DEF Restrict
    <3>3. docs \in [DOMAIN H.docs \ {c} -> [terms : SUBSET Seq(Characters), length : Nat]]
      BY <3>1, <3>2
    <3>4. DOMAIN docs \in SUBSET Key /\ docs \in [DOMAIN docs -> [terms : SUBSET Seq(Characters), length : Nat]]
      BY <3>1, <3>3
    <3> HIDE DEF docs
    <3> QED BY <3>4, MapsIs
  <2>11. total \in Int
    <3>1. H.totalLength \in Int
      BY DEF Hybrids
    <3>2. H.docs[c].length \in Nat
      BY <2>2, <2>14, TextOf
    <3> QED BY <3>1, <3>2
  <2> HIDE DEF left, post, docs, total, L, P
  <2>12. hybridRemove(H, c) \in Hybrids
    BY <2>1, <2>9, <2>10, <2>11 DEF Hybrids
  <2>13. Inverted(hybridRemove(H, c), L)
    <3>1. \A w \in DOMAIN post : Listed(post[w], w, L) /\ post[w] # <<>>
      BY <2>4, <2>6
    <3>2. \A d \in DOMAIN L : docs[d] = [terms |-> Range(tokenize(L[d])), length |-> Len(tokenize(L[d]))]
      BY <2>2, <2>3, <2>5
    <3> QED BY <2>1, <2>5, <2>7, <2>8, <3>1, <3>2 DEF Inverted
  <2> QED BY <2>12, <2>13 DEF L
<1> QED BY <1>1, <1>2

(* M has the chunks of C, and more.                                         *)
Extends(M, C) == DOMAIN C \in SUBSET DOMAIN M /\ \A d \in DOMAIN C : M[d] = C[d]

(* A right posting list stays right when chunks are added that do not have  *)
(* its word.                                                                *)
LEMMA ListedMore ==
    ASSUME NEW C, NEW M, Extends(M, C), NEW w, NEW list, Listed(list, w, C)
    PROVE  Listed(list, w, M)
<1>1. ASSUME NEW i \in 1..Len(list)
      PROVE /\ list[i].doc \in DOMAIN M
            /\ w \in Range(tokenize(M[list[i].doc]))
            /\ list[i].tf = Count(M, list[i].doc, w)
  <2>1. list[i].doc \in DOMAIN C /\ w \in Range(tokenize(C[list[i].doc])) /\ list[i].tf = Count(C, list[i].doc, w)
    BY DEF Listed
  <2>2. M[list[i].doc] = C[list[i].doc] /\ list[i].doc \in DOMAIN M
    BY <2>1 DEF Extends
  <2>3. Count(M, list[i].doc, w) = Count(C, list[i].doc, w)
    BY <2>2 DEF Count
  <2> QED BY <2>1, <2>2, <2>3
<1> QED BY <1>1 DEF Listed

(* A right posting list to which the count of a new chunk is appended is    *)
(* right.                                                                   *)
LEMMA AppendListed ==
    ASSUME NEW M \in Contents, NEW w, NEW list, Listed(list, w, M),
           NEW c \in DOMAIN M, w \in Range(tokenize(M[c])),
           \A i \in 1..Len(list) : list[i].doc # c,
           NEW p, p = [doc |-> c, tf |-> Count(M, c, w)]
    PROVE  Listed(Append(list, p), w, M)
<1>1. list \in Seq(Posting) /\ Len(list) \in Nat
  BY DEF Listed
<1>2. p \in Posting /\ p.doc = c /\ p.tf = Count(M, c, w)
  <2>1. c \in Key /\ Count(M, c, w) \in Nat
    BY CountIs, TextOf
  <2> QED BY <2>1 DEF Posting
<1> DEFINE new == Append(list, p)
           n == Len(list)
<1>3. new \in Seq(Posting) /\ Len(new) = n + 1
      /\ (\A i \in 1..n : new[i] = list[i]) /\ new[n + 1] = p
  BY <1>1, <1>2, AppendProperties
<1>4. n \in Nat
  BY <1>1
<1>5. \A i, j \in 1..n : list[i].doc = list[j].doc => i = j
  BY DEF Listed
<1>6. \A i \in 1..n : /\ list[i].doc \in DOMAIN M
                      /\ w \in Range(tokenize(M[list[i].doc]))
                      /\ list[i].tf = Count(M, list[i].doc, w)
  BY DEF Listed
<1>7. \A i \in 1..n : list[i].doc # c
  OBVIOUS
<1> HIDE DEF new, n
<1>8. \A i \in 1..n + 1 : i \in 1..n \/ i = n + 1
  BY <1>4
<1>9. ASSUME NEW i \in 1..n + 1, NEW j \in 1..n + 1, new[i].doc = new[j].doc PROVE i = j
  BY <1>2, <1>3, <1>5, <1>7, <1>8, <1>9
<1>10. ASSUME NEW i \in 1..n + 1
       PROVE /\ new[i].doc \in DOMAIN M
             /\ w \in Range(tokenize(M[new[i].doc]))
             /\ new[i].tf = Count(M, new[i].doc, w)
  <2>1. CASE i \in 1..n
    BY <1>3, <1>6, <2>1
  <2>2. CASE i = n + 1
    BY <1>2, <1>3, <2>2
  <2> QED BY <1>8, <2>1, <2>2
<1> QED BY <1>3, <1>9, <1>10 DEF Listed, new

(* The vector index with a chunk more, or with another text for it.         *)
LEMMA PutIs ==
    ASSUME NEW C \in Contents, NEW c \in Key, NEW text \in Seq(Characters)
    PROVE  /\ Put(C, c, text) \in Contents
           /\ DOMAIN Put(C, c, text) = DOMAIN C \cup {c}
           /\ Put(C, c, text)[c] = text
           /\ \A d \in DOMAIN C : d # c => Put(C, c, text)[d] = C[d]
<1> DEFINE M == Put(C, c, text)
<1>1. DOMAIN C \in SUBSET Key /\ C \in [DOMAIN C -> Seq(Characters)] /\ IsFiniteSet(DOMAIN C)
  BY MapsIs DEF Contents
<1>2. M = [x \in DOMAIN C \cup {c} |-> IF x = c THEN text ELSE C[x]]
  BY DEF Put
<1>3. DOMAIN M = DOMAIN C \cup {c} /\ M[c] = text /\ \A d \in DOMAIN C : d # c => M[d] = C[d]
  BY <1>2
<1>4. M \in [DOMAIN C \cup {c} -> Seq(Characters)]
  BY <1>1, <1>2
<1>5. IsFiniteSet(DOMAIN C \cup {c})
  BY <1>1, FS_AddElement
<1> HIDE DEF M
<1>6. M \in Maps(Key, Seq(Characters))
  BY <1>1, <1>3, <1>4, MapsIs
<1>7. M \in Contents
  BY <1>3, <1>5, <1>6 DEF Contents
<1> QED BY <1>3, <1>7 DEF M

(* The inverted index stays the inverse of the chunks when one is added to  *)
(* both, be it there already or not (hybrid/index.ts, add).                 *)
LEMMA AddInverse ==
    ASSUME NEW H, H \in Hybrids, NEW C \in Contents, Inverted(H, C),
           NEW c \in Key, NEW text \in Seq(Characters)
    PROVE  hybridAdd(H, c, text) \in Hybrids /\ Inverted(hybridAdd(H, c, text), Put(C, c, text))
<1> DEFINE G == hybridRemove(H, c)
           L == Less(C, c)
           M == Put(C, c, text)
           tokens == tokenize(text)
           terms == Range(tokens)
           Tf(term) == Cardinality({h \in DOMAIN tokens : tokens[h] = term})
           Old(term) == IF term \in DOMAIN G.postings THEN G.postings[term] ELSE <<>>
           new == [term \in terms |-> Append(Old(term), [doc |-> c, tf |-> Tf(term)])]
           post == Over(new, G.postings)
           docs == Put(G.docs, c, [terms |-> terms, length |-> Len(tokens)])
           total == G.totalLength + Len(tokens)
<1>1. hybridAdd(H, c, text) = [docs |-> docs, totalLength |-> total, postings |-> post]
  BY DEF hybridAdd
<1>2. G \in Hybrids /\ Inverted(G, L)
  BY RemoveInverse
<1>3. L \in Contents /\ DOMAIN L = DOMAIN C \ {c} /\ \A d \in DOMAIN C \ {c} : L[d] = C[d]
  BY LessIs
<1>4. M \in Contents /\ DOMAIN M = DOMAIN C \cup {c} /\ M[c] = text
      /\ \A d \in DOMAIN C : d # c => M[d] = C[d]
  BY PutIs
<1>5. \A d \in DOMAIN L : d \in DOMAIN C /\ d # c
  BY <1>3
<1> HIDE DEF G, L, M
<1>6. DOMAIN M = DOMAIN L \cup {c} /\ c \notin DOMAIN L /\ \A d \in DOMAIN L : M[d] = L[d]
  BY <1>3, <1>4, <1>5
<1>7. Extends(M, L)
  BY <1>6 DEF Extends
<1>8. c \in DOMAIN M /\ tokenize(M[c]) = tokens
  BY <1>4
<1>9. Len(tokens) \in Nat /\ terms \in SUBSET Seq(Characters)
  BY <1>4, <1>8, TextOf
<1>10. \A w : Tf(w) = Count(M, c, w)
  BY <1>8 DEF Count
<1>11. /\ DOMAIN G.docs = DOMAIN L
       /\ \A d \in DOMAIN L : G.docs[d] = [terms |-> Range(tokenize(L[d])), length |-> Len(tokenize(L[d]))]
       /\ \A w \in DOMAIN G.postings : Listed(G.postings[w], w, L) /\ G.postings[w] # <<>>
       /\ \A d \in DOMAIN L : \A w \in Range(tokenize(L[d])) :
             w \in DOMAIN G.postings /\ \E i \in 1..Len(G.postings[w]) : G.postings[w][i].doc = d
       /\ G.totalLength = Cardinality(Words(L, DOMAIN L))
  BY <1>2 DEF Inverted
<1>12. \A w : Listed(Old(w), w, L)
  <2>1. \A w : Listed(<<>>, w, L)
    <3>1. <<>> \in Seq(Posting) /\ 1..Len(<<>>) = {}
      OBVIOUS
    <3> QED BY <3>1 DEF Listed
  <2> QED BY <1>11, <2>1
<1>13. /\ DOMAIN post = terms \cup DOMAIN G.postings
       /\ \A w \in terms : post[w] = Append(Old(w), [doc |-> c, tf |-> Tf(w)])
       /\ \A w \in DOMAIN G.postings : w \notin terms => post[w] = G.postings[w]
  BY DEF Over
<1> HIDE DEF new, post, tokens, Tf
<1>14. ASSUME NEW w \in terms PROVE Listed(post[w], w, M) /\ post[w] # <<>>
  <2> DEFINE p == [doc |-> c, tf |-> Tf(w)]
             list == Old(w)
  <2>1. Listed(list, w, L)
    BY <1>12
  <2>2. post[w] = Append(list, p)
    BY <1>13
  <2>3. p = [doc |-> c, tf |-> Count(M, c, w)]
    BY <1>10
  <2>4. w \in Range(tokenize(M[c]))
    BY <1>8
  <2> HIDE DEF list, p, terms
  <2>5. Listed(list, w, M)
    BY <1>7, <2>1, ListedMore
  <2>6. \A i \in 1..Len(list) : list[i].doc # c
    BY <1>6, <2>1 DEF Listed
  <2>7. Listed(Append(list, p), w, M)
    BY <1>4, <1>8, <2>3, <2>4, <2>5, <2>6, AppendListed
  <2>8. Append(list, p) # <<>>
    <3>1. list \in Seq(Posting)
      BY <2>1 DEF Listed
    <3>2. c \in Key /\ Count(M, c, w) \in Nat
      BY <1>4, <1>8, CountIs
    <3>3. p \in Posting
      BY <2>3, <3>2 DEF Posting
    <3> QED BY <3>1, <3>3, AppendProperties
  <2> QED BY <2>2, <2>7, <2>8
<1>15. ASSUME NEW w \in DOMAIN post PROVE Listed(post[w], w, M) /\ post[w] # <<>>
  <2>1. CASE w \in terms
    BY <1>14, <2>1
  <2>2. CASE w \notin terms
    <3>1. w \in DOMAIN G.postings /\ post[w] = G.postings[w]
      BY <1>13, <2>2
    <3>2. Listed(post[w], w, L) /\ post[w] # <<>>
      BY <1>11, <3>1
    <3> QED BY <1>7, <3>2, ListedMore
  <2> QED BY <2>1, <2>2
<1>16. ASSUME NEW d \in DOMAIN M, NEW w \in Range(tokenize(M[d]))
       PROVE w \in DOMAIN post /\ \E i \in 1..Len(post[w]) : post[w][i].doc = d
  <2> DEFINE p == [doc |-> c, tf |-> Tf(w)]
             list == Old(w)
  <2>1. list \in Seq(Posting) /\ Len(list) \in Nat
    <3>1. Listed(list, w, L)
      BY <1>12
    <3> HIDE DEF list
    <3> QED BY <3>1 DEF Listed
  <2>2. p \in Posting
    <3>1. Tf(w) \in Nat
      BY <1>4, <1>8, <1>10, CountIs
    <3> QED BY <3>1 DEF Posting
  <2>3. /\ Len(Append(list, p)) = Len(list) + 1
        /\ \A i \in 1..Len(list) : Append(list, p)[i] = list[i]
        /\ Append(list, p)[Len(list) + 1] = p
    <3> HIDE DEF list, p
    <3> QED BY <2>1, <2>2, AppendProperties
  <2>4. CASE d = c
    <3>1. w \in terms
      BY <1>8, <1>16, <2>4 DEF tokens
    <3>2. post[w] = Append(list, p) /\ w \in DOMAIN post
      BY <1>13, <3>1
    <3>3. Len(list) + 1 \in 1..Len(post[w]) /\ post[w][Len(list) + 1].doc = d
      <4>1. p.doc = c
        OBVIOUS
      <4> HIDE DEF list, p
      <4> QED BY <2>1, <2>3, <2>4, <3>2, <4>1
    <3> HIDE DEF list, p
    <3> QED BY <3>2, <3>3
  <2>5. CASE d # c
    <3>1. d \in DOMAIN L /\ w \in Range(tokenize(L[d]))
      BY <1>6, <1>16, <2>5
    <3>2. w \in DOMAIN G.postings /\ \E i \in 1..Len(G.postings[w]) : G.postings[w][i].doc = d
      BY <1>11, <3>1
    <3>3. CASE w \notin terms
      BY <1>13, <3>2, <3>3
    <3>4. CASE w \in terms
      <4>1. list = G.postings[w]
        BY <3>2
      <4>2. post[w] = Append(list, p) /\ w \in DOMAIN post
        BY <1>13, <3>4
      <4>3. PICK i \in 1..Len(list) : list[i].doc = d
        BY <3>2, <4>1
      <4> HIDE DEF list, p
      <4>4. i \in 1..Len(post[w]) /\ post[w][i].doc = d
        BY <2>1, <2>3, <4>2, <4>3
      <4> QED BY <4>2, <4>4
    <3> QED BY <3>3, <3>4
  <2> QED BY <2>4, <2>5
<1>17. total = Cardinality(Words(M, DOMAIN M))
  <2>1. IsFiniteSet(DOMAIN L) /\ \A d \in DOMAIN L : Len(tokenize(L[d])) \in Nat
    <3>1. IsFiniteSet(DOMAIN L)
      BY <1>3 DEF Contents
    <3> QED BY <1>3, <3>1, TextOf
  <2>2. IsFiniteSet(Words(L, DOMAIN L)) /\ Cardinality(Words(L, DOMAIN L)) \in Nat
    BY <2>1, LengthIs
  <2>3. DOMAIN M \ {c} = DOMAIN L
    BY <1>6
  <2>4. Words(M, DOMAIN L) = Words(L, DOMAIN L)
    BY <1>6 DEF Words
  <2>5. IsFiniteSet(Words(M, DOMAIN M \ {c})) /\ Len(tokenize(M[c])) \in Nat
    BY <1>8, <1>9, <2>2, <2>3, <2>4
  <2>6. Cardinality(Words(M, DOMAIN M)) = Cardinality(Words(M, DOMAIN M \ {c})) + Len(tokenize(M[c]))
    BY <1>8, <2>5, WordsOfOneMore
  <2> QED BY <1>8, <1>11, <2>3, <2>4, <2>6
<1>18. /\ DOMAIN docs = DOMAIN M
       /\ \A d \in DOMAIN M : docs[d] = [terms |-> Range(tokenize(M[d])), length |-> Len(tokenize(M[d]))]
  <2>1. DOMAIN docs = DOMAIN L \cup {c}
    BY <1>11 DEF Put
  <2>2. docs[c] = [terms |-> terms, length |-> Len(tokens)]
    BY DEF Put
  <2>3. \A d \in DOMAIN L : docs[d] = G.docs[d]
    BY <1>6, <1>11 DEF Put
  <2> HIDE DEF docs
  <2>4. \A d \in DOMAIN L : docs[d] = [terms |-> Range(tokenize(M[d])), length |-> Len(tokenize(M[d]))]
    BY <1>6, <1>11, <2>3
  <2> QED BY <1>6, <1>8, <2>1, <2>2, <2>4
<1>19. /\ G.postings \in [DOMAIN G.postings -> Seq(Posting)] /\ DOMAIN G.postings \in SUBSET Seq(Characters)
       /\ G.docs \in [DOMAIN G.docs -> [terms : SUBSET Seq(Characters), length : Nat]]
       /\ DOMAIN G.docs \in SUBSET Key
       /\ G.totalLength \in Int
  BY <1>2, HybridParts
<1>20. post \in Maps(Seq(Characters), Seq(Posting))
  <2>1. DOMAIN post \in SUBSET Seq(Characters)
    BY <1>9, <1>13, <1>19
  <2>2. \A w \in DOMAIN post : post[w] \in Seq(Posting)
    BY <1>15 DEF Listed
  <2>3. post = [w \in DOMAIN post |-> post[w]]
    BY DEF post, Over
  <2>4. post \in [DOMAIN post -> Seq(Posting)]
    BY <2>2, <2>3
  <2> QED BY <2>1, <2>4, MapsIs
<1>21. docs \in Maps(Key, [terms : SUBSET Seq(Characters), length : Nat])
  <2>1. docs = [d \in DOMAIN docs |-> docs[d]]
    BY DEF Put
  <2>2. \A d \in DOMAIN M : docs[d] \in [terms : SUBSET Seq(Characters), length : Nat] /\ d \in Key
    <3> SUFFICES ASSUME NEW d \in DOMAIN M
                 PROVE docs[d] \in [terms : SUBSET Seq(Characters), length : Nat] /\ d \in Key
      OBVIOUS
    <3>1. docs[d] = [terms |-> Range(tokenize(M[d])), length |-> Len(tokenize(M[d]))]
      BY <1>18
    <3>2. d \in Key /\ Len(tokenize(M[d])) \in Nat /\ Range(tokenize(M[d])) \in SUBSET Seq(Characters)
      BY <1>4, TextOf
    <3> HIDE DEF docs
    <3> QED BY ONLY <3>1, <3>2
  <2> HIDE DEF docs
  <2>3. docs \in [DOMAIN docs -> [terms : SUBSET Seq(Characters), length : Nat]] /\ DOMAIN docs \in SUBSET Key
    BY <1>18, <2>1, <2>2
  <2> QED BY <2>3, MapsIs
<1>22. total \in Int
  BY <1>9, <1>19
<1> HIDE DEF docs, total
<1>23. hybridAdd(H, c, text) \in Hybrids
  BY <1>1, <1>20, <1>21, <1>22 DEF Hybrids
<1>24. Inverted(hybridAdd(H, c, text), M)
  BY <1>1, <1>15, <1>16, <1>17, <1>18 DEF Inverted
<1> QED BY <1>23, <1>24 DEF M

(* Adding chunks.                                                           *)
AddingReady(n, s, V, b, chunks) ==
    /\ n \in Nat /\ DOMAIN s = 1..n /\ b \in V
    /\ \A v \in V, i \in 1..n : (IF mode = "hybrid" THEN hybridAdd(v, s[i], chunks[(s[i])[2] + 1]) ELSE v) \in V

AddingRun(n, s, V, b, chunks, h) ==
    /\ h \in [0..n -> V] /\ h[0] = b /\ h[n] = FoldLeft(LAMBDA G, c : IF mode = "hybrid" THEN hybridAdd(G, c, chunks[c[2] + 1]) ELSE G, b, s)
    /\ \A i \in 1..n : h[i] = (IF mode = "hybrid" THEN hybridAdd(h[i - 1], s[i], chunks[(s[i])[2] + 1]) ELSE h[i - 1])

(* The states of the retriever while the chunks of a memento are added.     *)
LEMMA Adding ==
    ASSUME NEW n, NEW s, NEW V, NEW b, NEW chunks, AddingReady(n, s, V, b, chunks)
    PROVE  \E h : AddingRun(n, s, V, b, chunks, h)
<1> USE DEF AddingReady
<1> DEFINE F == [p \in V \X (1..n) |-> (IF mode = "hybrid" THEN hybridAdd(p[1], s[p[2]], chunks[(s[p[2]])[2] + 1]) ELSE p[1])]
<1>1. \A v \in V, i \in 1..n : F[<<v, i>>] = (IF mode = "hybrid" THEN hybridAdd(v, s[i], chunks[(s[i])[2] + 1]) ELSE v)
  OBVIOUS
<1>2. Loop(n, V, b, F)
  <2>1. F \in [V \X (1..n) -> V]
    OBVIOUS
  <2> HIDE DEF F
  <2> QED BY <2>1 DEF Loop
<1> HIDE DEF F
<1>3. PICK g : Unfolds(n, V, b, F, g) /\ Typed(n, V, g)
  BY <1>2, Fold
<1> DEFINE Same(f) == f = [x \in SUBSET (1..n) |->
                       IF x = {} THEN b ELSE (IF mode = "hybrid" THEN hybridAdd(f[x \ {Max(x)}], s[Max(x)], chunks[(s[Max(x)])[2] + 1]) ELSE f[x \ {Max(x)}])]
           c == CHOOSE f : Same(f)
<1>4. Same(g)
  <2>1. \A x \in SUBSET (1..n) : x # {} => g[x] = (IF mode = "hybrid" THEN hybridAdd(g[x \ {Max(x)}], s[Max(x)], chunks[(s[Max(x)])[2] + 1]) ELSE g[x \ {Max(x)}])
    BY <1>1, <1>3 DEF Unfolds, Typed
  <2>2. g[{}] = b /\ g = [x \in SUBSET (1..n) |-> g[x]]
    BY <1>3 DEF Unfolds, Typed
  <2> QED BY <2>1, <2>2
<1>5. c[1..n] = FoldLeft(LAMBDA G, d : IF mode = "hybrid" THEN hybridAdd(G, d, chunks[d[2] + 1]) ELSE G, b, s)
  BY DEF FoldLeft, MapThenFoldSet
<1>6. \E f : Same(f)
  <2> HIDE DEF Same
  <2> QED BY <1>4
<1>7. Same(c)
  <2> HIDE DEF Same
  <2> QED BY <1>6
<1> HIDE DEF c
<1>8. Unfolds(n, V, b, F, c)
  <2>1. c[{}] = b
    BY <1>7
  <2>2. ASSUME NEW x \in SUBSET (1..n), x # {}, c[x \ {Max(x)}] \in V
        PROVE c[x] = F[<<c[x \ {Max(x)}], Max(x)>>]
    <3>1. c[x] = (IF mode = "hybrid" THEN hybridAdd(c[x \ {Max(x)}], s[Max(x)], chunks[(s[Max(x)])[2] + 1]) ELSE c[x \ {Max(x)}])
      BY <1>7, <2>2
    <3>2. Max(x) \in 1..n
      BY <1>3, <2>2 DEF Typed
    <3> HIDE DEF Same
    <3> QED BY <1>1, <2>2, <3>1, <3>2
  <2> HIDE DEF Same
  <2> QED BY <2>1, <2>2 DEF Unfolds
<1>9. PICK h : Goes(n, V, b, F, h) /\ h[n] = c[1..n]
  BY <1>2, <1>8, History
<1>10. h \in [0..n -> V] /\ h[0] = b /\ \A i \in 1..n : h[i] = F[<<h[i - 1], i>>]
  BY <1>9 DEF Goes
<1>11. ASSUME NEW i \in 1..n PROVE h[i] = (IF mode = "hybrid" THEN hybridAdd(h[i - 1], s[i], chunks[(s[i])[2] + 1]) ELSE h[i - 1])
  <2>1. i - 1 \in 0..n
    OBVIOUS
  <2>2. h[i - 1] \in V
    BY <1>10, <2>1
  <2> QED BY <1>1, <1>10, <2>2
<1>12. AddingRun(n, s, V, b, chunks, h)
  BY <1>5, <1>9, <1>10, <1>11 DEF AddingRun
<1> QED BY <1>12

(* Removing chunks.                                                         *)
RemovingReady(n, s, V, b) ==
    /\ n \in Nat /\ DOMAIN s = 1..n /\ b \in V
    /\ \A v \in V, i \in 1..n : hybridRemove(v, s[i]) \in V

RemovingRun(n, s, V, b, h) ==
    /\ h \in [0..n -> V] /\ h[0] = b /\ h[n] = FoldLeft(hybridRemove, b, s)
    /\ \A i \in 1..n : h[i] = hybridRemove(h[i - 1], s[i])

(* The states of the retriever while the chunks of a memento are removed.   *)
LEMMA Removing ==
    ASSUME NEW n, NEW s, NEW V, NEW b, RemovingReady(n, s, V, b)
    PROVE  \E h : RemovingRun(n, s, V, b, h)
<1> USE DEF RemovingReady
<1> DEFINE F == [p \in V \X (1..n) |-> hybridRemove(p[1], s[p[2]])]
<1>1. \A v \in V, i \in 1..n : F[<<v, i>>] = hybridRemove(v, s[i])
  OBVIOUS
<1>2. Loop(n, V, b, F)
  <2>1. F \in [V \X (1..n) -> V]
    OBVIOUS
  <2> HIDE DEF F
  <2> QED BY <2>1 DEF Loop
<1> HIDE DEF F
<1>3. PICK g : Unfolds(n, V, b, F, g) /\ Typed(n, V, g)
  BY <1>2, Fold
<1> DEFINE Same(f) == f = [x \in SUBSET (1..n) |->
                       IF x = {} THEN b ELSE hybridRemove(f[x \ {Max(x)}], s[Max(x)])]
           c == CHOOSE f : Same(f)
<1>4. Same(g)
  <2>1. \A x \in SUBSET (1..n) : x # {} => g[x] = hybridRemove(g[x \ {Max(x)}], s[Max(x)])
    BY <1>1, <1>3 DEF Unfolds, Typed
  <2>2. g[{}] = b /\ g = [x \in SUBSET (1..n) |-> g[x]]
    BY <1>3 DEF Unfolds, Typed
  <2> QED BY <2>1, <2>2
<1>5. c[1..n] = FoldLeft(hybridRemove, b, s)
  BY DEF FoldLeft, MapThenFoldSet
<1>6. \E f : Same(f)
  <2> HIDE DEF Same
  <2> QED BY <1>4
<1>7. Same(c)
  <2> HIDE DEF Same
  <2> QED BY <1>6
<1> HIDE DEF c
<1>8. Unfolds(n, V, b, F, c)
  <2>1. c[{}] = b
    BY <1>7
  <2>2. ASSUME NEW x \in SUBSET (1..n), x # {}, c[x \ {Max(x)}] \in V
        PROVE c[x] = F[<<c[x \ {Max(x)}], Max(x)>>]
    <3>1. c[x] = hybridRemove(c[x \ {Max(x)}], s[Max(x)])
      BY <1>7, <2>2
    <3>2. Max(x) \in 1..n
      BY <1>3, <2>2 DEF Typed
    <3> HIDE DEF Same
    <3> QED BY <1>1, <2>2, <3>1, <3>2
  <2> HIDE DEF Same
  <2> QED BY <2>1, <2>2 DEF Unfolds
<1>9. PICK h : Goes(n, V, b, F, h) /\ h[n] = c[1..n]
  BY <1>2, <1>8, History
<1>10. h \in [0..n -> V] /\ h[0] = b /\ \A i \in 1..n : h[i] = F[<<h[i - 1], i>>]
  BY <1>9 DEF Goes
<1>11. ASSUME NEW i \in 1..n PROVE h[i] = hybridRemove(h[i - 1], s[i])
  <2>1. i - 1 \in 0..n
    OBVIOUS
  <2>2. h[i - 1] \in V
    BY <1>10, <2>1
  <2> QED BY <1>1, <1>10, <2>2
<1>12. RemovingRun(n, s, V, b, h)
  BY <1>5, <1>9, <1>10, <1>11 DEF RemovingRun
<1> QED BY <1>12

(* The keys of the chunks of a memento.                                     *)
LEMMA KeysAre ==
    ASSUME NEW id \in Ids, NEW n \in Nat
    PROVE  /\ KeysOf(id, n) \in SUBSET Key /\ IsFiniteSet(KeysOf(id, n))
           /\ KeysOf(id, 0) = {} /\ KeysOf(id, n + 1) = KeysOf(id, n) \cup {<<id, n>>}
           /\ \A c : c \in KeysOf(id, n) <=> c \in Key /\ c[1] = id /\ c[2] < n
           /\ \A c \in KeysOf(id, n) : c[2] \in 0..n - 1 /\ c = <<id, c[2]>>
<1>1. \A c : c \in KeysOf(id, n) <=> \E i \in 0..n - 1 : c = <<id, i>>
  BY DEF KeysOf
<1>2. \A c \in KeysOf(id, n) : c[1] = id /\ c[2] \in 0..n - 1 /\ c = <<id, c[2]>> /\ c \in Key
  BY <1>1 DEF Key
<1>3. \A c : c \in Key /\ c[1] = id /\ c[2] < n => c \in KeysOf(id, n)
  <2> SUFFICES ASSUME NEW c \in Key, c[1] = id, c[2] < n PROVE c \in KeysOf(id, n)
    OBVIOUS
  <2>1. c = <<c[1], c[2]>> /\ c[2] \in Nat
    BY DEF Key
  <2> QED BY <1>1, <2>1
<1>4. KeysOf(id, 0) = {} /\ KeysOf(id, n + 1) = KeysOf(id, n) \cup {<<id, n>>}
  <2>1. 0..0 - 1 = {} /\ 0..(n + 1) - 1 = (0..n - 1) \cup {n}
    OBVIOUS
  <2> QED BY <2>1 DEF KeysOf
<1>5. IsFiniteSet(KeysOf(id, n))
  <2>1. IsFiniteSet(0..n - 1)
    BY FS_Interval
  <2>2. IsFiniteSet({id})
    BY FS_Singleton
  <2>3. IsFiniteSet({id} \X (0..n - 1))
    BY ONLY <2>1, <2>2, FS_Product
  <2>4. KeysOf(id, n) \in SUBSET ({id} \X (0..n - 1))
    BY DEF KeysOf
  <2> QED BY ONLY <2>3, <2>4, FS_Subset
<1> QED BY <1>1, <1>2, <1>3, <1>4, <1>5

(* The inverted index stays an inverse when a memento is registered.        *)
LEMMA AddChunks ==
    ASSUME NEW H, H \in Hybrids, NEW C \in Contents, mode = "hybrid" => Inverted(H, C),
           NEW id \in Ids, NEW chunks \in Seq(Seq(Characters))
    PROVE  LET M == Over([c \in KeysOf(id, Len(chunks)) |-> chunks[c[2] + 1]], C) IN
             /\ addChunks(H, id, chunks) \in Hybrids /\ M \in Contents
             /\ mode = "hybrid" => Inverted(addChunks(H, id, chunks), M)
             /\ mode # "hybrid" => addChunks(H, id, chunks) = H
<1> DEFINE n == Len(chunks)
           s == [i \in 1..n |-> <<id, i - 1>>]
           At(i) == Over([c \in KeysOf(id, i) |-> chunks[c[2] + 1]], C)
<1>1. n \in Nat /\ \A i \in 1..n : chunks[i] \in Seq(Characters)
  OBVIOUS
<1>2. addChunks(H, id, chunks) =
        FoldLeft(LAMBDA G, c : IF mode = "hybrid" THEN hybridAdd(G, c, chunks[c[2] + 1]) ELSE G, H, s)
  BY DEF addChunks
<1>3. \A i \in 1..n : s[i] = <<id, i - 1>> /\ s[i] \in Key /\ s[i][2] + 1 = i
  BY DEF Key
<1>4. DOMAIN s = 1..n
  OBVIOUS
<1> HIDE DEF n, s
<1> DEFINE V == IF mode = "hybrid" THEN {G \in Hybrids : \E D \in Contents : Inverted(G, D)} ELSE Hybrids
<1>5. \A v \in V, i \in 1..n :
        (IF mode = "hybrid" THEN hybridAdd(v, s[i], chunks[(s[i])[2] + 1]) ELSE v) \in V
  <2> SUFFICES ASSUME NEW v \in V, NEW i \in 1..n, mode = "hybrid"
               PROVE  hybridAdd(v, s[i], chunks[(s[i])[2] + 1]) \in V
    OBVIOUS
  <2>1. v \in Hybrids
    OBVIOUS
  <2>2. PICK D \in Contents : Inverted(v, D)
    OBVIOUS
  <2>3. s[i] \in Key /\ chunks[s[i][2] + 1] \in Seq(Characters)
    BY <1>1, <1>3
  <2>4. /\ hybridAdd(v, s[i], chunks[(s[i])[2] + 1]) \in Hybrids
        /\ Inverted(hybridAdd(v, s[i], chunks[(s[i])[2] + 1]), Put(D, s[i], chunks[(s[i])[2] + 1]))
    BY <2>1, <2>2, <2>3, AddInverse
  <2>5. Put(D, s[i], chunks[(s[i])[2] + 1]) \in Contents
    BY <2>2, <2>3, PutIs
  <2> QED BY <2>4, <2>5
<1>6. H \in V
  OBVIOUS
<1>7. V \in SUBSET Hybrids
  OBVIOUS
<1> HIDE DEF V
<1>8. AddingReady(n, s, V, H, chunks)
  BY <1>1, <1>4, <1>5, <1>6 DEF AddingReady
<1>9. PICK h : AddingRun(n, s, V, H, chunks, h)
  BY <1>8, Adding
<1>10. /\ h \in [0..n -> V] /\ h[0] = H /\ h[n] = addChunks(H, id, chunks)
       /\ \A i \in 1..n : h[i] = (IF mode = "hybrid" THEN hybridAdd(h[i - 1], s[i], chunks[(s[i])[2] + 1]) ELSE h[i - 1])
  BY <1>2, <1>9 DEF AddingRun
<1> DEFINE T == {i \in Nat : At(i) \in Contents /\ (mode = "hybrid" => Inverted(h[i], At(i)))
                               /\ (mode # "hybrid" => h[i] = H)}
<1>11. 0 \in T
  <2>1. At(0) = C
    <3>1. C = [x \in DOMAIN C |-> C[x]]
      BY MapsIs DEF Contents
    <3>2. KeysOf(id, 0) = {}
      BY KeysAre
    <3> QED BY <3>1, <3>2 DEF Over
  <2> HIDE DEF At
  <2> QED BY <1>10, <2>1
<1>12. ASSUME NEW i \in 0..n - 1, i \in T PROVE i + 1 \in T
  <2>1. i + 1 \in 1..n /\ (i + 1) - 1 = i /\ i \in 0..n /\ i \in Nat /\ i + 1 \in Nat
    BY <1>1
  <2>2. s[i + 1] = <<id, i>> /\ (s[i + 1])[2] + 1 = i + 1 /\ s[i + 1] \in Key
    BY <1>3, <2>1
  <2>3. chunks[i + 1] \in Seq(Characters)
    BY <1>1, <2>1
  <2>4. h[i] \in Hybrids
    BY <1>7, <1>10, <2>1
  <2>5. At(i + 1) = Put(At(i), <<id, i>>, chunks[i + 1])
    <3> DEFINE K == KeysOf(id, i)
               A == [c \in K |-> chunks[c[2] + 1]]
               B == [c \in K \cup {<<id, i>>} |-> chunks[c[2] + 1]]
    <3>1. KeysOf(id, i + 1) = K \cup {<<id, i>>}
      BY <2>1, KeysAre
    <3> HIDE DEF K
    <3>2. At(i + 1) = Over(B, C) /\ At(i) = Over(A, C)
      BY <3>1 DEF K
    <3>3. DOMAIN Over(A, C) = K \cup DOMAIN C
      BY DEF Over
    <3>4. Over(B, C) = [x \in (K \cup {<<id, i>>}) \cup DOMAIN C |-> IF x \in K \cup {<<id, i>>} THEN chunks[x[2] + 1] ELSE C[x]]
      BY DEF Over
    <3>5. \A x \in K \cup DOMAIN C : Over(A, C)[x] = IF x \in K THEN chunks[x[2] + 1] ELSE C[x]
      BY DEF Over
    <3>6. Put(Over(A, C), <<id, i>>, chunks[i + 1]) =
            [x \in (K \cup DOMAIN C) \cup {<<id, i>>} |-> IF x = <<id, i>> THEN chunks[i + 1] ELSE Over(A, C)[x]]
      BY <3>3 DEF Put
    <3> HIDE DEF A, B
    <3>7. (K \cup {<<id, i>>}) \cup DOMAIN C = (K \cup DOMAIN C) \cup {<<id, i>>}
      OBVIOUS
    <3> QED BY ONLY <3>2, <3>4, <3>5, <3>6, <3>7
  <2> HIDE DEF At
  <2>6. At(i) \in Contents /\ (mode = "hybrid" => Inverted(h[i], At(i))) /\ (mode # "hybrid" => h[i] = H)
    BY <1>12
  <2>7. <<id, i>> \in Key
    BY <2>2
  <2>8. At(i + 1) \in Contents
    <3>1. Put(At(i), <<id, i>>, chunks[i + 1]) \in Contents
      <4> DEFINE a == At(i)
                 k == <<id, i>>
                 t == chunks[i + 1]
      <4>1. a \in Contents /\ k \in Key /\ t \in Seq(Characters)
        BY <2>3, <2>6, <2>7
      <4> HIDE DEF a, k, t
      <4>2. Put(a, k, t) \in Contents
        BY ONLY <4>1, PutIs
      <4> QED BY <4>2 DEF a, k, t
    <3> QED BY ONLY <2>5, <3>1
  <2>9. ASSUME mode = "hybrid" PROVE Inverted(h[i + 1], At(i + 1))
    <3>1. h[i + 1] = hybridAdd(h[i], <<id, i>>, chunks[i + 1])
      BY <1>10, <2>1, <2>2, <2>9
    <3>2. Inverted(hybridAdd(h[i], <<id, i>>, chunks[i + 1]), Put(At(i), <<id, i>>, chunks[i + 1]))
      <4> DEFINE a == At(i)
                 k == <<id, i>>
                 t == chunks[i + 1]
                 g == h[i]
      <4>1. a \in Contents /\ k \in Key /\ t \in Seq(Characters) /\ g \in Hybrids /\ Inverted(g, a)
        BY <2>3, <2>4, <2>6, <2>7, <2>9
      <4> HIDE DEF a, k, t, g
      <4>2. Inverted(hybridAdd(g, k, t), Put(a, k, t))
        BY ONLY <4>1, AddInverse
      <4> QED BY <4>2 DEF a, k, t, g
    <3> QED BY ONLY <2>5, <3>1, <3>2
  <2>10. mode # "hybrid" => h[i + 1] = H
    BY <1>10, <2>1, <2>6
  <2> QED BY <2>1, <2>8, <2>9, <2>10
<1>13. n \in T
  <2> HIDE DEF T
  <2>1. \A i \in 0..n : i \in T
    BY <1>1, <1>11, <1>12, UpTo
  <2> QED BY <1>1, <2>1
<1>14. h[n] \in Hybrids
  BY <1>1, <1>7, <1>10
<1> QED BY <1>10, <1>13, <1>14 DEF n

(* The keys of a memento, in the order of their numbers.                    *)
LEMMA KeysInOrder ==
    ASSUME NEW id \in Ids, NEW n \in Nat
    PROVE  LET K == KeysOf(id, n)
               s == SortedBy(K, LAMBDA c, d : c[2] < d[2])
           IN  /\ Cardinality(K) \in Nat
               /\ s \in [1..Cardinality(K) -> K]
               /\ \A x \in K : \E i \in 1..Cardinality(K) : s[i] = x
<1> DEFINE K == KeysOf(id, n)
           R == {p \in K \X K : p[1][2] < p[2][2]}
           place == [x \in K |-> 1 + Cardinality({y \in K : y[2] < x[2]})]
<1>1. SortedBy(K, LAMBDA c, d : c[2] < d[2]) = ByPlace(K, place)
  BY DEF SortedBy, ByPlace
<1>2. \A x, y \in K : <<x, y>> \in R <=> x[2] < y[2]
  OBVIOUS
<1>3. \A x \in K : Earlier(K, R, x) = {y \in K : y[2] < x[2]}
  BY DEF Earlier
<1>4. \A x \in K : place[x] = 1 + Cardinality(Earlier(K, R, x))
  BY <1>3
<1>5. IsFiniteSet(K) /\ \A c \in K : c[2] \in 0..n - 1 /\ c = <<id, c[2]>>
  BY KeysAre
<1>6. \A c, d \in K : c[2] = d[2] => c = d
  BY <1>5
<1>7. \A c \in K : c[2] \in Int
  BY <1>5
<1> HIDE DEF R, K
<1>8. Total(K, R)
  <2>1. \A x \in K : <<x, x>> \notin R
    BY <1>2, <1>7
  <2>2. \A x, y \in K : x # y => <<x, y>> \in R \/ <<y, x>> \in R
    BY <1>2, <1>6, <1>7
  <2>3. \A x, y, z \in K : <<x, y>> \in R /\ <<y, z>> \in R => <<x, z>> \in R
    BY <1>2, <1>7
  <2> QED BY <2>1, <2>2, <2>3 DEF Total
<1> HIDE DEF place
<1>9. Lists(K, R, ByPlace(K, place))
  BY <1>4, <1>5, <1>8, SortedPlaces
<1> QED BY <1>1, <1>9 DEF Lists, K

(* What is left of the chunks without some of them.                         *)
Rest(C, keys) == Restrict(C, DOMAIN C \ keys)

(* The vector index without some chunks.                                    *)
LEMMA RestIs ==
    ASSUME NEW C \in Contents, NEW keys
    PROVE  /\ Rest(C, keys) \in Contents /\ DOMAIN Rest(C, keys) = DOMAIN C \ keys
           /\ \A d \in DOMAIN C \ keys : Rest(C, keys)[d] = C[d]
<1>1. DOMAIN C \in SUBSET Key /\ C \in [DOMAIN C -> Seq(Characters)] /\ IsFiniteSet(DOMAIN C)
  BY MapsIs DEF Contents
<1>2. DOMAIN Rest(C, keys) = DOMAIN C \ keys /\ \A d \in DOMAIN C \ keys : Rest(C, keys)[d] = C[d]
  BY DEF Rest, Restrict
<1>3. Rest(C, keys) = [d \in DOMAIN C \ keys |-> C[d]]
  BY DEF Rest, Restrict
<1>4. Rest(C, keys) \in [DOMAIN C \ keys -> Seq(Characters)]
  BY <1>1, <1>3
<1>5. Rest(C, keys) \in Maps(Key, Seq(Characters))
  BY <1>1, <1>2, <1>4, MapsIs
<1>6. IsFiniteSet(DOMAIN C \ keys)
  <2>1. DOMAIN C \ keys \in SUBSET DOMAIN C
    OBVIOUS
  <2> QED BY ONLY <1>1, <2>1, FS_Subset
<1> QED BY <1>2, <1>5, <1>6 DEF Contents

(* One chunk fewer.                                                         *)
LEMMA RestOneMore ==
    ASSUME NEW C \in Contents, NEW keys, NEW c
    PROVE  Less(Rest(C, keys), c) = Rest(C, keys \cup {c})
<1>1. DOMAIN Rest(C, keys) = DOMAIN C \ keys /\ \A d \in DOMAIN C \ keys : Rest(C, keys)[d] = C[d]
  BY RestIs
<1>2. Less(Rest(C, keys), c) = [d \in (DOMAIN C \ keys) \ {c} |-> Rest(C, keys)[d]]
  BY <1>1 DEF Less, Restrict
<1>3. Rest(C, keys \cup {c}) = [d \in DOMAIN C \ (keys \cup {c}) |-> C[d]]
  BY DEF Rest, Restrict
<1>4. (DOMAIN C \ keys) \ {c} = DOMAIN C \ (keys \cup {c})
  OBVIOUS
<1> QED BY <1>1, <1>2, <1>3, <1>4

(* The inverted index stays an inverse when a memento is unregistered.      *)
LEMMA RemoveChunks ==
    ASSUME NEW H, H \in Hybrids, NEW C \in Contents, mode = "hybrid" => Inverted(H, C),
           mode # "hybrid" => DOMAIN H.docs = {},
           NEW id \in Ids, NEW count \in Nat
    PROVE  LET keys == KeysOf(id, count) IN
             /\ removeChunks(H, keys) \in Hybrids /\ Rest(C, keys) \in Contents
             /\ mode = "hybrid" => Inverted(removeChunks(H, keys), Rest(C, keys))
             /\ mode # "hybrid" => removeChunks(H, keys) = H
<1> DEFINE keys == KeysOf(id, count)
           n == Cardinality(keys)
           s == SortedBy(keys, LAMBDA c, d : c[2] < d[2])
           At(i) == Rest(C, {s[j] : j \in 1..i})
<1>1. /\ n \in Nat
      /\ s \in [1..n -> keys]
      /\ \A x \in keys : \E i \in 1..n : s[i] = x
  BY KeysInOrder
<1>2. removeChunks(H, keys) = FoldLeft(hybridRemove, H, s)
  BY DEF removeChunks
<1> HIDE DEF keys, n, s
<1>3. DOMAIN s = 1..n
  BY <1>1
<1> DEFINE V == IF mode = "hybrid" THEN {G \in Hybrids : \E D \in Contents : Inverted(G, D)} ELSE {H}
<1>4. \A v \in V, i \in 1..n : hybridRemove(v, s[i]) \in V
  <2> SUFFICES ASSUME NEW v \in V, NEW i \in 1..n PROVE hybridRemove(v, s[i]) \in V
    OBVIOUS
  <2>1. CASE mode = "hybrid"
    <3>1. v \in Hybrids
      BY <2>1
    <3>2. PICK D \in Contents : Inverted(v, D)
      BY <2>1
    <3>3. hybridRemove(v, s[i]) \in Hybrids /\ Inverted(hybridRemove(v, s[i]), Less(D, s[i]))
      BY <3>1, <3>2, RemoveInverse
    <3>4. Less(D, s[i]) \in Contents
      BY <3>2, LessIs
    <3> QED BY <2>1, <3>3, <3>4
  <2>2. CASE mode # "hybrid"
    <3>1. v = H
      BY <2>2
    <3>2. hybridRemove(H, s[i]) = H
      BY <2>2 DEF hybridRemove
    <3> QED BY <2>2, <3>1, <3>2
  <2> QED BY <2>1, <2>2
<1>5. H \in V
  OBVIOUS
<1>6. V \in SUBSET Hybrids /\ (mode # "hybrid" => V = {H})
  OBVIOUS
<1> HIDE DEF V
<1>7. RemovingReady(n, s, V, H)
  BY <1>1, <1>3, <1>4, <1>5 DEF RemovingReady
<1>8. PICK h : RemovingRun(n, s, V, H, h)
  BY <1>7, Removing
<1>9. /\ h \in [0..n -> V] /\ h[0] = H /\ h[n] = removeChunks(H, keys)
      /\ \A i \in 1..n : h[i] = hybridRemove(h[i - 1], s[i])
  BY <1>2, <1>8 DEF RemovingRun
<1> DEFINE T == {i \in Nat : mode = "hybrid" => Inverted(h[i], At(i))}
<1>10. 0 \in T
  <2>1. At(0) = C
    <3>1. C = [x \in DOMAIN C |-> C[x]]
      BY MapsIs DEF Contents
    <3>2. {s[j] : j \in 1..0} = {}
      OBVIOUS
    <3> QED BY <3>1, <3>2 DEF Rest, Restrict
  <2> HIDE DEF At
  <2> QED BY <1>9, <2>1
<1>11. ASSUME NEW i \in 0..n - 1, i \in T PROVE i + 1 \in T
  <2>1. i + 1 \in 1..n /\ (i + 1) - 1 = i /\ i \in 0..n /\ i \in Nat /\ i + 1 \in Nat
    BY <1>1
  <2>2. {s[j] : j \in 1..i + 1} = {s[j] : j \in 1..i} \cup {s[i + 1]}
    <3>1. 1..i + 1 = (1..i) \cup {i + 1}
      BY <2>1
    <3> QED BY <3>1
  <2>3. At(i + 1) = Less(At(i), s[i + 1])
    <3> DEFINE K == {s[j] : j \in 1..i}
    <3>1. At(i + 1) = Rest(C, K \cup {s[i + 1]})
      BY <2>2
    <3>2. At(i) = Rest(C, K)
      OBVIOUS
    <3> HIDE DEF K, At
    <3> QED BY <3>1, <3>2, RestOneMore
  <2>4. At(i) \in Contents
    BY RestIs
  <2> HIDE DEF At
  <2>5. ASSUME mode = "hybrid" PROVE Inverted(h[i + 1], At(i + 1))
    <3>1. h[i] \in Hybrids /\ Inverted(h[i], At(i))
      BY <1>6, <1>9, <1>11, <2>1, <2>5
    <3>2. h[i + 1] = hybridRemove(h[i], s[i + 1])
      BY <1>9, <2>1
    <3>3. Inverted(hybridRemove(h[i], s[i + 1]), Less(At(i), s[i + 1]))
      <4> DEFINE a == At(i)
                 k == s[i + 1]
                 g == h[i]
      <4>1. a \in Contents /\ g \in Hybrids /\ Inverted(g, a)
        BY <2>4, <3>1
      <4> HIDE DEF a, k, g
      <4>2. Inverted(hybridRemove(g, k), Less(a, k))
        BY ONLY <4>1, RemoveInverse
      <4> QED BY <4>2 DEF a, k, g
    <3> QED BY ONLY <2>3, <3>2, <3>3
  <2> QED BY <2>1, <2>5
<1>12. n \in T
  <2> HIDE DEF T
  <2>1. \A i \in 0..n : i \in T
    BY <1>1, <1>10, <1>11, UpTo
  <2> QED BY <1>1, <2>1
<1>13. {s[j] : j \in 1..n} = keys
  BY <1>1
<1>14. h[n] \in Hybrids /\ (mode # "hybrid" => h[n] = H)
  BY <1>1, <1>6, <1>9
<1>15. Rest(C, keys) \in Contents
  BY RestIs
<1> QED BY <1>9, <1>12, <1>13, <1>14, <1>15 DEF keys

Trigrams == [ids : Seq(Ids \cup {Gone}), idIndex : Maps(Ids, Nat),
             postings : Maps(Seq(Characters), Seq(Nat)), store : Maps(Ids, Seq(Characters))]

(* A list of slots, in order.                                               *)
Rising(list, n) ==
    /\ list \in Seq(Nat)
    /\ \A i, j \in 1..Len(list) : i < j => list[i] < list[j]
    /\ \A i \in 1..Len(list) : list[i] <= n

Names(list, n) == \E i \in 1..Len(list) : list[i] = n

(* Every text that is held is named by the lists of all its trigrams.       *)
Searchable(T) ==
    /\ DOMAIN T.idIndex = DOMAIN T.store
    /\ \A id \in DOMAIN T.store : T.idIndex[id] \in 1..Len(T.ids) /\ T.ids[T.idIndex[id]] = id
    /\ \A tri \in DOMAIN T.postings : Rising(T.postings[tri], Len(T.ids))
    /\ \A id \in DOMAIN T.store : \A tri \in trigramsOf(T.store[id]) :
          tri \in DOMAIN T.postings /\ Names(T.postings[tri], T.idIndex[id])

(* What the trigram searcher holds.                                         *)
LEMMA TrigramParts ==
    ASSUME NEW T, T \in Trigrams
    PROVE  /\ T.ids \in Seq(Ids \cup {Gone}) /\ Len(T.ids) \in Nat
           /\ T.idIndex \in [DOMAIN T.idIndex -> Nat] /\ DOMAIN T.idIndex \in SUBSET Ids
           /\ T.postings \in [DOMAIN T.postings -> Seq(Nat)] /\ DOMAIN T.postings \in SUBSET Seq(Characters)
           /\ T.store \in [DOMAIN T.store -> Seq(Characters)] /\ DOMAIN T.store \in SUBSET Ids
<1>1. /\ T.ids \in Seq(Ids \cup {Gone}) /\ T.idIndex \in Maps(Ids, Nat)
      /\ T.postings \in Maps(Seq(Characters), Seq(Nat)) /\ T.store \in Maps(Ids, Seq(Characters))
  BY DEF Trigrams
<1> DEFINE A == T.idIndex
           B == T.postings
           C == T.store
           D == T.ids
<1>2. A \in Maps(Ids, Nat) /\ B \in Maps(Seq(Characters), Seq(Nat)) /\ C \in Maps(Ids, Seq(Characters))
  BY <1>1
<1>3. D \in Seq(Ids \cup {Gone})
  BY <1>1
<1> HIDE DEF A, B, C, D
<1>4. A \in [DOMAIN A -> Nat] /\ DOMAIN A \in SUBSET Ids
  BY ONLY <1>2, MapsIs
<1>5. B \in [DOMAIN B -> Seq(Nat)] /\ DOMAIN B \in SUBSET Seq(Characters)
  BY ONLY <1>2, MapsIs
<1>6. C \in [DOMAIN C -> Seq(Characters)] /\ DOMAIN C \in SUBSET Ids
  BY ONLY <1>2, MapsIs
<1>7. Len(D) \in Nat
  BY <1>3
<1> QED BY ONLY <1>3, <1>4, <1>5, <1>6, <1>7 DEF A, B, C, D

(* A map from which a key is deleted.                                       *)
LEMMA RestrictMaps ==
    ASSUME NEW A, NEW B, NEW f \in Maps(A, B), NEW x
    PROVE  LET g == Restrict(f, DOMAIN f \ {x}) IN
             /\ g \in Maps(A, B) /\ DOMAIN g = DOMAIN f \ {x}
             /\ \A y \in DOMAIN f \ {x} : g[y] = f[y]
             /\ x \notin DOMAIN f => g = f
<1> DEFINE g == Restrict(f, DOMAIN f \ {x})
<1>1. f \in [DOMAIN f -> B] /\ DOMAIN f \in SUBSET A
  BY MapsIs
<1>2. g = [y \in DOMAIN f \ {x} |-> f[y]]
  BY DEF Restrict
<1> HIDE DEF g
<1>3. DOMAIN g = DOMAIN f \ {x} /\ \A y \in DOMAIN f \ {x} : g[y] = f[y]
  BY <1>2
<1>4. g \in [DOMAIN f \ {x} -> B] /\ DOMAIN g \in SUBSET A
  BY <1>1, <1>2
<1>5. g \in Maps(A, B)
  BY <1>3, <1>4, MapsIs
<1>6. x \notin DOMAIN f => g = f
  BY <1>1, <1>2
<1> QED BY <1>3, <1>5, <1>6 DEF g

IsPut(A, B, f, x, v) ==
    /\ Put(f, x, v) \in Maps(A, B) /\ DOMAIN Put(f, x, v) = DOMAIN f \cup {x}
    /\ Put(f, x, v)[x] = v
    /\ \A y \in DOMAIN f : y # x => Put(f, x, v)[y] = f[y]

(* A map in which a key is set.                                             *)
LEMMA PutMaps ==
    ASSUME NEW A, NEW B, NEW f, f \in Maps(A, B), NEW x, x \in A, NEW v, v \in B
    PROVE  IsPut(A, B, f, x, v)
<1> DEFINE g == Put(f, x, v)
<1>1. f \in [DOMAIN f -> B] /\ DOMAIN f \in SUBSET A
  BY MapsIs
<1>2. g = [y \in DOMAIN f \cup {x} |-> IF y = x THEN v ELSE f[y]]
  BY DEF Put
<1> HIDE DEF g
<1>3. DOMAIN g = DOMAIN f \cup {x} /\ g[x] = v /\ \A y \in DOMAIN f : y # x => g[y] = f[y]
  BY <1>2
<1>4. g \in [DOMAIN f \cup {x} -> B] /\ DOMAIN g \in SUBSET A
  BY <1>1, <1>2
<1>5. g \in Maps(A, B)
  BY <1>3, <1>4, MapsIs
<1> QED BY <1>3, <1>5 DEF g, IsPut

(* The trigram index finds what it should after a memento was removed: its  *)
(* slot is given up and named for ever.                                     *)
LEMMA TrigramRemove ==
    ASSUME NEW T, T \in Trigrams, Searchable(T), NEW id \in Ids
    PROVE  LET R == trigramRemove(T, id) IN
             /\ R \in Trigrams /\ Searchable(R)
             /\ R.store = Restrict(T.store, DOMAIN T.store \ {id})
             /\ DOMAIN R.store = DOMAIN T.store \ {id}
<1>1. /\ T.ids \in Seq(Ids \cup {Gone}) /\ Len(T.ids) \in Nat
      /\ T.idIndex \in Maps(Ids, Nat) /\ T.postings \in Maps(Seq(Characters), Seq(Nat))
      /\ T.store \in Maps(Ids, Seq(Characters))
  BY TrigramParts DEF Trigrams
<1>2. CASE id \notin DOMAIN T.idIndex
  <2>1. trigramRemove(T, id) = T
    BY <1>2 DEF trigramRemove
  <2>2. id \notin DOMAIN T.store
    BY <1>2 DEF Searchable
  <2>3. Restrict(T.store, DOMAIN T.store \ {id}) = T.store
    BY <1>1, <2>2, RestrictMaps
  <2> QED BY <2>1, <2>2, <2>3
<1>3. CASE id \in DOMAIN T.idIndex
  <2> DEFINE ids == [T.ids EXCEPT ![T.idIndex[id]] = Gone]
             index == Restrict(T.idIndex, DOMAIN T.idIndex \ {id})
             store == Restrict(T.store, DOMAIN T.store \ {id})
             R == [ids |-> ids, idIndex |-> index, postings |-> T.postings, store |-> store]
  <2>1. trigramRemove(T, id) = R
    BY <1>3 DEF trigramRemove
  <2>2. index \in Maps(Ids, Nat) /\ DOMAIN index = DOMAIN T.idIndex \ {id}
        /\ \A y \in DOMAIN T.idIndex \ {id} : index[y] = T.idIndex[y]
    <3> DEFINE f == T.idIndex
    <3>1. f \in Maps(Ids, Nat)
      BY <1>1
    <3> HIDE DEF f
    <3>2. LET g == Restrict(f, DOMAIN f \ {id}) IN
            g \in Maps(Ids, Nat) /\ DOMAIN g = DOMAIN f \ {id} /\ \A y \in DOMAIN f \ {id} : g[y] = f[y]
      BY ONLY <3>1, RestrictMaps
    <3> QED BY <3>2 DEF f
  <2>3. store \in Maps(Ids, Seq(Characters)) /\ DOMAIN store = DOMAIN T.store \ {id}
        /\ \A y \in DOMAIN T.store \ {id} : store[y] = T.store[y]
    <3> DEFINE f == T.store
    <3>1. f \in Maps(Ids, Seq(Characters))
      BY <1>1
    <3> HIDE DEF f
    <3>2. LET g == Restrict(f, DOMAIN f \ {id}) IN
            g \in Maps(Ids, Seq(Characters)) /\ DOMAIN g = DOMAIN f \ {id}
            /\ \A y \in DOMAIN f \ {id} : g[y] = f[y]
      BY ONLY <3>1, RestrictMaps
    <3> QED BY <3>2 DEF f
  <2>4. /\ DOMAIN T.idIndex = DOMAIN T.store
        /\ \A d \in DOMAIN T.store : T.idIndex[d] \in 1..Len(T.ids) /\ T.ids[T.idIndex[d]] = d
        /\ \A tri \in DOMAIN T.postings : Rising(T.postings[tri], Len(T.ids))
        /\ \A d \in DOMAIN T.store : \A tri \in trigramsOf(T.store[d]) :
              tri \in DOMAIN T.postings /\ Names(T.postings[tri], T.idIndex[d])
    BY DEF Searchable
  <2>5. T.idIndex[id] \in 1..Len(T.ids)
    BY <1>3, <2>4
  <2>6. /\ ids \in Seq(Ids \cup {Gone}) /\ Len(ids) = Len(T.ids)
        /\ \A j \in 1..Len(T.ids) : j # T.idIndex[id] => ids[j] = T.ids[j]
    <3> DEFINE s == T.ids
               i == T.idIndex[id]
    <3>1. s \in Seq(Ids \cup {Gone}) /\ i \in 1..Len(s) /\ Gone \in Ids \cup {Gone}
      BY <1>1, <2>5
    <3> HIDE DEF s, i
    <3>2. /\ [s EXCEPT ![i] = Gone] \in Seq(Ids \cup {Gone})
          /\ Len([s EXCEPT ![i] = Gone]) = Len(s)
          /\ \A j \in 1 .. Len(s) : [s EXCEPT ![i] = Gone][j] = IF j=i THEN Gone ELSE s[j]
      BY ONLY <3>1, ExceptSeq
    <3> QED BY <3>2 DEF s, i
  <2> HIDE DEF ids, index, store
  <2>7. R \in Trigrams
    BY <1>1, <2>2, <2>3, <2>6 DEF Trigrams
  <2>8. \A d \in DOMAIN store : d \in DOMAIN T.store /\ d # id /\ index[d] = T.idIndex[d] /\ store[d] = T.store[d]
    BY <2>2, <2>3, <2>4
  <2>9. \A d \in DOMAIN store : index[d] \in 1..Len(ids) /\ ids[index[d]] = d
    <3> SUFFICES ASSUME NEW d \in DOMAIN store PROVE index[d] \in 1..Len(ids) /\ ids[index[d]] = d
      OBVIOUS
    <3>1. T.ids[T.idIndex[d]] = d /\ T.ids[T.idIndex[id]] = id /\ d # id /\ T.idIndex[d] \in 1..Len(T.ids)
      BY <1>3, <2>4, <2>8
    <3> QED BY <2>6, <2>8, <3>1
  <2>10. \A tri \in DOMAIN T.postings : Rising(T.postings[tri], Len(ids))
    BY <2>4, <2>6
  <2>11. \A d \in DOMAIN store : \A tri \in trigramsOf(store[d]) :
              tri \in DOMAIN T.postings /\ Names(T.postings[tri], index[d])
    BY <2>4, <2>8
  <2>12. DOMAIN index = DOMAIN store
    BY <2>2, <2>3, <2>4
  <2>13. Searchable(R)
    BY <2>9, <2>10, <2>11, <2>12 DEF Searchable
  <2> QED BY <2>1, <2>3, <2>7, <2>13 DEF store
<1> QED BY <1>2, <1>3

(* Trigrams are texts.                                                      *)
LEMMA TrigramsType ==
    ASSUME NEW t \in Seq(Characters)
    PROVE  /\ asciiLower(t) \in Seq(Characters) /\ Len(asciiLower(t)) = Len(t)
           /\ \A i \in 1..Len(t) : asciiLower(t)[i] = IF t[i] = "B" THEN "b" ELSE t[i]
           /\ trigramsOf(t) \in SUBSET Seq(Characters)
<1> DEFINE lower == [i \in 1..Len(t) |-> IF t[i] = "B" THEN "b" ELSE t[i]]
<1>1. Len(t) \in Nat /\ (\A i \in 1..Len(t) : t[i] \in Characters) /\ "b" \in Characters
  BY DEF Characters, Letters
<1>2. asciiLower(t) = lower
  BY DEF asciiLower, Places
<1>3. lower \in Seq(Characters) /\ Len(lower) = Len(t)
  <2>1. lower \in [1..Len(t) -> Characters]
    BY <1>1
  <2> HIDE DEF lower
  <2>2. lower \in Seq(Characters) /\ DOMAIN lower = 1..Len(t)
    BY <1>1, <2>1
  <2> QED BY <1>1, <2>2
<1>4. \A i \in 1..Len(t) : lower[i] = IF t[i] = "B" THEN "b" ELSE t[i]
  OBVIOUS
<1> HIDE DEF lower
<1>5. ASSUME NEW i \in 1..Len(lower) - Size + 1 PROVE SubSeq(lower, i, i + Size - 1) \in Seq(Characters)
  <2>1. Len(lower) \in Nat /\ Size = 3
    BY <1>1, <1>3 DEF Size
  <2>2. i \in Int /\ i + Size - 1 \in Int /\ \A j \in i..i + Size - 1 : lower[j] \in Characters
    BY <1>3, <2>1
  <2> QED BY <2>2, SubSeqProperties
<1>6. trigramsOf(t) = {SubSeq(lower, i, i + Size - 1) : i \in 1..Len(lower) - Size + 1}
  BY <1>2 DEF trigramsOf
<1> QED BY <1>2, <1>3, <1>4, <1>5, <1>6

(* So it does after a memento was added, be it there already or not         *)
(* (trigram/index.ts, add).                                                 *)
LEMMA TrigramAdd ==
    ASSUME NEW T0, T0 \in Trigrams, Searchable(T0), NEW id \in Ids, NEW text \in Seq(Characters)
    PROVE  LET R == trigramAdd(T0, id, text) IN
             /\ R \in Trigrams /\ Searchable(R)
             /\ R.store = Put(Restrict(T0.store, DOMAIN T0.store \ {id}), id, text)
             /\ DOMAIN R.store = DOMAIN T0.store \cup {id}
<1> DEFINE T == trigramRemove(T0, id)
           n == Len(T.ids) + 1
           new == trigramsOf(text)
           Old(tri) == IF tri \in DOMAIN T.postings THEN T.postings[tri] ELSE <<>>
           add == [tri \in new |-> Append(Old(tri), n)]
           ids == Append(T.ids, id)
           index == Put(T.idIndex, id, n)
           post == Over(add, T.postings)
           store == Put(T.store, id, text)
           R == [ids |-> ids, idIndex |-> index, postings |-> post, store |-> store]
<1>1. trigramAdd(T0, id, text) = R
  BY DEF trigramAdd
<1>2. /\ T \in Trigrams /\ Searchable(T)
      /\ T.store = Restrict(T0.store, DOMAIN T0.store \ {id})
      /\ DOMAIN T.store = DOMAIN T0.store \ {id}
  BY TrigramRemove
<1> HIDE DEF T
<1>3. /\ DOMAIN T.idIndex = DOMAIN T.store
      /\ \A d \in DOMAIN T.store : T.idIndex[d] \in 1..Len(T.ids) /\ T.ids[T.idIndex[d]] = d
      /\ \A tri \in DOMAIN T.postings : Rising(T.postings[tri], Len(T.ids))
      /\ \A d \in DOMAIN T.store : \A tri \in trigramsOf(T.store[d]) :
            tri \in DOMAIN T.postings /\ Names(T.postings[tri], T.idIndex[d])
  BY <1>2 DEF Searchable
<1>4. /\ T.ids \in Seq(Ids \cup {Gone}) /\ Len(T.ids) \in Nat
      /\ T.idIndex \in Maps(Ids, Nat) /\ T.postings \in Maps(Seq(Characters), Seq(Nat))
      /\ T.store \in Maps(Ids, Seq(Characters)) /\ DOMAIN T.postings \in SUBSET Seq(Characters)
  BY <1>2, TrigramParts DEF Trigrams
<1>5. n \in Nat /\ n = Len(T.ids) + 1 /\ ~(n <= Len(T.ids))
  BY <1>4
<1>6. /\ ids \in Seq(Ids \cup {Gone}) /\ Len(ids) = n /\ ids[n] = id
      /\ \A i \in 1..Len(T.ids) : ids[i] = T.ids[i]
  <2> DEFINE s == T.ids
  <2>1. s \in Seq(Ids \cup {Gone}) /\ id \in Ids \cup {Gone}
    BY <1>4
  <2> HIDE DEF s
  <2>2. /\ Append(s, id) \in Seq(Ids \cup {Gone}) /\ Len(Append(s, id)) = Len(s) + 1
        /\ Append(s, id)[Len(s) + 1] = id
        /\ \A i \in 1..Len(s) : Append(s, id)[i] = s[i]
    BY ONLY <2>1, AppendProperties
  <2> QED BY <2>2 DEF s
<1>7. /\ index \in Maps(Ids, Nat) /\ DOMAIN index = DOMAIN T.idIndex \cup {id} /\ index[id] = n
      /\ \A d \in DOMAIN T.idIndex : d # id => index[d] = T.idIndex[d]
  <2> DEFINE f == T.idIndex
  <2>1. f \in Maps(Ids, Nat) /\ n \in Nat /\ id \in Ids
    BY <1>4, <1>5
  <2> HIDE DEF f, n
  <2>2. IsPut(Ids, Nat, f, id, n)
    BY ONLY <2>1, PutMaps
  <2> QED BY <2>2 DEF f, IsPut
<1>8. /\ store \in Maps(Ids, Seq(Characters)) /\ DOMAIN store = DOMAIN T.store \cup {id} /\ store[id] = text
      /\ \A d \in DOMAIN T.store : d # id => store[d] = T.store[d]
  <2> DEFINE f == T.store
             C == Seq(Characters)
  <2>1. f \in Maps(Ids, C) /\ text \in C /\ id \in Ids
    BY <1>4
  <2> HIDE DEF f, C
  <2>2. IsPut(Ids, C, f, id, text)
    BY ONLY <2>1, PutMaps
  <2> QED BY <2>2 DEF f, C, IsPut
<1>9. /\ DOMAIN post = new \cup DOMAIN T.postings
      /\ \A tri \in new : post[tri] = Append(Old(tri), n)
      /\ \A tri \in DOMAIN T.postings : tri \notin new => post[tri] = T.postings[tri]
      /\ post = [tri \in DOMAIN post |-> post[tri]]
  BY DEF Over
<1>10. new \in SUBSET Seq(Characters)
  BY TrigramsType
<1> DEFINE m == Len(T.ids)
<1>11. \A tri : Rising(Old(tri), m)
  <2>1. Rising(<<>>, m)
    <3>1. <<>> \in Seq(Nat) /\ 1..Len(<<>>) = {}
      OBVIOUS
    <3> QED BY <3>1 DEF Rising
  <2> QED BY <1>3, <2>1
<1>12. m \in Nat /\ n = m + 1
  BY <1>4
<1>13. DOMAIN T.store \in SUBSET Ids /\ id \notin DOMAIN T.store
  BY <1>2, <1>4, MapsIs
<1> HIDE DEF n, m, new, add, ids, index, post, store, Old
<1>14. ASSUME NEW list, Rising(list, m)
       PROVE /\ Rising(Append(list, n), n) /\ Names(Append(list, n), n) /\ Rising(list, n)
             /\ \A x : Names(list, x) => Names(Append(list, n), x)
  <2> DEFINE k == Len(list)
             b == Append(list, n)
  <2>1. /\ list \in Seq(Nat) /\ k \in Nat
        /\ \A i, j \in 1..k : i < j => list[i] < list[j]
        /\ \A i \in 1..k : list[i] <= m /\ list[i] \in Nat
    BY <1>14 DEF Rising
  <2>2. /\ b \in Seq(Nat) /\ Len(b) = k + 1 /\ b[k + 1] = n
        /\ \A i \in 1..k : b[i] = list[i]
    BY <1>5, <2>1, AppendProperties
  <2> HIDE DEF b, k
  <2>3. \A i \in 1..k + 1 : i \in 1..k \/ i = k + 1
    BY <2>1
  <2>4. k + 1 \in 1..k + 1 /\ \A i \in 1..k : i \in 1..k + 1
    BY <2>1
  <2>5. \A i \in 1..k : list[i] < n /\ list[i] <= n
    BY <1>12, <2>1
  <2>6. ASSUME NEW i \in 1..k + 1, NEW j \in 1..k + 1, i < j PROVE b[i] < b[j]
    <3>1. i \in 1..k
      BY <2>1, <2>6
    <3>2. CASE j \in 1..k
      BY <2>1, <2>2, <2>6, <3>1, <3>2
    <3>3. CASE j = k + 1
      BY <2>2, <2>5, <3>1, <3>3
    <3> QED BY <2>3, <3>2, <3>3
  <2>7. \A i \in 1..k + 1 : b[i] <= n
    BY <1>5, <2>2, <2>3, <2>5
  <2>8. Rising(b, n)
    BY <2>2, <2>6, <2>7 DEF Rising
  <2>9. Names(b, n)
    BY <2>2, <2>4 DEF Names
  <2>10. \A x : Names(list, x) => Names(b, x)
    BY <2>2, <2>4 DEF Names, k
  <2>11. Rising(list, n)
    BY <2>1, <2>5 DEF Rising, k
  <2> QED BY <2>8, <2>9, <2>10, <2>11 DEF b
<1>15. ASSUME NEW tri \in DOMAIN post PROVE Rising(post[tri], n)
  <2>1. CASE tri \in new
    BY <1>9, <1>11, <1>14, <2>1
  <2>2. CASE tri \notin new
    <3>1. tri \in DOMAIN T.postings /\ post[tri] = T.postings[tri]
      BY <1>9, <2>2
    <3>2. Rising(T.postings[tri], m)
      BY <1>3, <3>1 DEF m
    <3> QED BY <1>14, <3>1, <3>2
  <2> QED BY <2>1, <2>2
<1>16. post \in Maps(Seq(Characters), Seq(Nat))
  <2>1. \A tri \in DOMAIN post : post[tri] \in Seq(Nat)
    BY <1>15 DEF Rising
  <2>2. post \in [DOMAIN post -> Seq(Nat)] /\ DOMAIN post \in SUBSET Seq(Characters)
    BY <1>4, <1>9, <1>10, <2>1
  <2> QED BY <2>2, MapsIs
<1>17. R \in Trigrams
  BY <1>6, <1>7, <1>8, <1>16 DEF Trigrams
<1>18. DOMAIN index = DOMAIN store
  BY <1>3, <1>7, <1>8
<1>19. ASSUME NEW d \in DOMAIN store PROVE index[d] \in 1..Len(ids) /\ ids[index[d]] = d
  <2>1. CASE d = id
    BY <1>5, <1>6, <1>7, <1>12, <2>1
  <2>2. CASE d # id
    <3>1. d \in DOMAIN T.store /\ index[d] = T.idIndex[d]
      BY <1>3, <1>7, <1>8, <2>2
    <3>2. T.idIndex[d] \in 1..m /\ T.ids[T.idIndex[d]] = d
      BY <1>3, <3>1 DEF m
    <3>3. \A i \in 1..m : i \in 1..n
      BY <1>12
    <3> QED BY <1>6, <3>1, <3>2, <3>3 DEF m
  <2> QED BY <2>1, <2>2
<1>20. ASSUME NEW d \in DOMAIN store, NEW tri \in trigramsOf(store[d])
       PROVE tri \in DOMAIN post /\ Names(post[tri], index[d])
  <2>1. CASE d = id
    <3>1. tri \in new /\ index[d] = n
      BY <1>7, <1>8, <1>20, <2>1 DEF new
    <3> QED BY <1>9, <1>11, <1>14, <3>1
  <2>2. CASE d # id
    <3>1. d \in DOMAIN T.store /\ index[d] = T.idIndex[d] /\ store[d] = T.store[d]
      BY <1>3, <1>7, <1>8, <2>2
    <3>2. tri \in DOMAIN T.postings /\ Names(T.postings[tri], T.idIndex[d])
      BY <1>3, <1>20, <3>1
    <3>3. CASE tri \notin new
      BY <1>9, <3>1, <3>2, <3>3
    <3>4. CASE tri \in new
      <4>1. Old(tri) = T.postings[tri]
        BY <3>2 DEF Old
      <4> QED BY <1>9, <1>11, <1>14, <3>1, <3>2, <3>4, <4>1
    <3> QED BY <3>3, <3>4
  <2> QED BY <2>1, <2>2
<1>21. Searchable(R)
  BY <1>6, <1>15, <1>18, <1>19, <1>20 DEF Searchable
<1>22. store = Put(Restrict(T0.store, DOMAIN T0.store \ {id}), id, text)
  BY <1>2 DEF store
<1>23. DOMAIN store = DOMAIN T0.store \cup {id}
  BY <1>2, <1>8
<1> QED BY <1>1, <1>17, <1>21, <1>22, <1>23

Known1 == [count : Nat, tagged : BOOLEAN, time : Nat]
File1  == [text : Texts, chunks : Seq(Chunk1), tagged : BOOLEAN, time : Nat]
Rams   == [meta : [Ids -> Known1 \cup {None}], index : Contents, hybrid : Hybrids,
           trigram : Trigrams, scan : Maps(Ids, Seq(Characters))]

(* What RAM says of the mementos it knows.                                  *)
Agrees(m, ov) ==
    /\ \A id \in Known(m) : KeysOf(id, m.meta[id].count) \subseteq DOMAIN m.index
    /\ \A c \in DOMAIN m.index :
          (c[1] \in Known(m) /\ c \in KeysOf(c[1], m.meta[c[1]].count)) \/ c[1] \in ov

Sound(m, ov, way) ==
    /\ m \in Rams /\ Agrees(m, ov)
    /\ way = "hybrid" => Inverted(m.hybrid, m.index)
    /\ way # "hybrid" => DOMAIN m.hybrid.docs = {}
    /\ Searchable(m.trigram) /\ m.trigram.store = m.scan /\ DOMAIN m.scan = Known(m)

(* What RAM holds.                                                          *)
LEMMA RamParts ==
    ASSUME NEW m, m \in Rams
    PROVE  /\ m.meta \in [Ids -> Known1 \cup {None}] /\ m.index \in Contents /\ m.hybrid \in Hybrids
           /\ m.trigram \in Trigrams /\ m.scan \in Maps(Ids, Seq(Characters))
           /\ \A id \in Known(m) : id \in Ids /\ m.meta[id] \in Known1 /\ m.meta[id].count \in Nat
           /\ DOMAIN m.index \in SUBSET Key
<1>1. /\ m.meta \in [Ids -> Known1 \cup {None}] /\ m.index \in Contents /\ m.hybrid \in Hybrids
      /\ m.trigram \in Trigrams /\ m.scan \in Maps(Ids, Seq(Characters))
  BY DEF Rams
<1>2. ASSUME NEW id \in Known(m) PROVE id \in Ids /\ m.meta[id] \in Known1 /\ m.meta[id].count \in Nat
  <2>1. id \in Ids /\ m.meta[id] # None
    BY DEF Known
  <2>2. m.meta[id] \in Known1
    BY <1>1, <2>1
  <2> QED BY <2>1, <2>2 DEF Known1
<1>3. DOMAIN m.index \in SUBSET Key
  <2> DEFINE C == m.index
  <2>1. C \in Maps(Key, Seq(Characters))
    BY <1>1 DEF Contents
  <2> HIDE DEF C
  <2>2. DOMAIN C \in SUBSET Key
    BY ONLY <2>1, MapsIs
  <2> QED BY <2>2 DEF C
<1> QED BY <1>1, <1>2, <1>3

(* None is no memento.                                                      *)
LEMMA NoneIs == None \notin Known1 /\ \A f \in File1 : f # None
<1>1. None \notin Known1
  BY NoneAssumption DEF Known1
<1>2. ASSUME NEW f \in File1 PROVE f \in [text : Seq(Characters), chunks : Seq(Seq(Characters)),
                                          tagged : BOOLEAN, time : Nat]
  <2>1. f = [text |-> f.text, chunks |-> f.chunks, tagged |-> f.tagged, time |-> f.time]
        /\ f.text \in Texts /\ f.chunks \in Seq(Chunk1) /\ f.tagged \in BOOLEAN /\ f.time \in Nat
    BY DEF File1
  <2>2. f.text \in Seq(Characters)
    BY <2>1, TextAssumption DEF Texts
  <2>3. Chunk1 \in SUBSET Seq(Characters)
    BY SmallIs DEF Chunk1
  <2> DEFINE g == f.chunks
  <2>4. g \in Seq(Chunk1)
    BY <2>1
  <2> HIDE DEF g
  <2>5. g \in Seq(Seq(Characters))
    BY <2>3, <2>4
  <2> QED BY <2>1, <2>2, <2>5 DEF g
<1> QED BY <1>1, <1>2, NoneAssumption

(* RAM stays sound when a memento it does not know is registered.           *)
LEMMA Register ==
    ASSUME NEW m, NEW ov, Sound(m, ov, mode), NEW id \in Ids, id \notin Known(m), NEW f, f \in File1
    PROVE  /\ Sound(registerMemento(m, id, f), ov, mode)
           /\ Known(registerMemento(m, id, f)) = Known(m) \cup {id}
<1> DEFINE R == registerMemento(m, id, f)
           chunks == f.chunks
           n == Len(chunks)
           rec == [count |-> n, tagged |-> f.tagged, time |-> f.time]
           text == Joined(chunks, "n")
           C == m.index
           M == Over([c \in KeysOf(id, n) |-> chunks[c[2] + 1]], C)
           H == m.hybrid
           T == m.trigram
           S == m.scan
<1>1. /\ m.meta \in [Ids -> Known1 \cup {None}] /\ C \in Contents /\ H \in Hybrids
      /\ T \in Trigrams /\ S \in Maps(Ids, Seq(Characters))
      /\ (\A d \in Known(m) : d \in Ids /\ m.meta[d] \in Known1 /\ m.meta[d].count \in Nat)
      /\ DOMAIN C \in SUBSET Key
  BY RamParts DEF Sound
<1>2. chunks \in Seq(Chunk1) /\ f.tagged \in BOOLEAN /\ f.time \in Nat
  BY DEF File1
<1>3. chunks \in Seq(Seq(Characters)) /\ n \in Nat
  <2>1. Chunk1 \in SUBSET Seq(Characters)
    BY SmallIs DEF Chunk1
  <2> HIDE DEF chunks
  <2> QED BY <1>2, <2>1
<1>4. text \in Seq(Characters)
  <2>1. "n" \in Characters
    BY DEF Characters, Blanks
  <2> HIDE DEF chunks
  <2> QED BY <1>3, <2>1, JoinedType
<1>5. rec \in Known1
  <2> HIDE DEF n
  <2> QED BY <1>2, <1>3 DEF Known1
<1>6. /\ R.meta = [m.meta EXCEPT ![id] = rec] /\ R.index = M /\ R.hybrid = addChunks(H, id, chunks)
      /\ R.trigram = trigramAdd(T, id, text) /\ R.scan = Put(S, id, text)
      /\ R = [meta |-> R.meta, index |-> R.index, hybrid |-> R.hybrid, trigram |-> R.trigram, scan |-> R.scan]
  BY DEF registerMemento
<1>7. /\ mode = "hybrid" => Inverted(H, C)
      /\ mode # "hybrid" => DOMAIN H.docs = {}
      /\ Searchable(T) /\ T.store = S /\ DOMAIN S = Known(m) /\ Agrees(m, ov)
  BY DEF Sound
<1> HIDE DEF R, chunks, n, rec, text, C, H, T, S
<1>8. addChunks(H, id, chunks) \in Hybrids /\ M \in Contents
      /\ (mode = "hybrid" => Inverted(addChunks(H, id, chunks), M))
      /\ (mode # "hybrid" => addChunks(H, id, chunks) = H)
  BY <1>1, <1>3, <1>7, AddChunks DEF n
<1>10. /\ trigramAdd(T, id, text) \in Trigrams /\ Searchable(trigramAdd(T, id, text))
       /\ trigramAdd(T, id, text).store = Put(Restrict(T.store, DOMAIN T.store \ {id}), id, text)
  BY ONLY <1>1, <1>4, <1>7, id \in Ids, TrigramAdd
<1>11. Restrict(S, DOMAIN S \ {id}) = S
  <2>1. LET g == Restrict(S, DOMAIN S \ {id}) IN id \notin DOMAIN S => g = S
    BY ONLY <1>1, RestrictMaps
  <2> QED BY <1>7, <2>1
<1>12. IsPut(Ids, Seq(Characters), S, id, text)
  <2> DEFINE B == Seq(Characters)
  <2>1. S \in Maps(Ids, B) /\ text \in B
    BY <1>1, <1>4
  <2> HIDE DEF B
  <2>2. IsPut(Ids, B, S, id, text)
    BY ONLY <2>1, id \in Ids, PutMaps
  <2> QED BY <2>2 DEF B
<1>13. Put(S, id, text) \in Maps(Ids, Seq(Characters)) /\ DOMAIN Put(S, id, text) = Known(m) \cup {id}
  BY <1>7, <1>12 DEF IsPut
<1>14. /\ R.meta \in [Ids -> Known1 \cup {None}] /\ R.meta[id] = rec
       /\ \A d \in Ids : d # id => R.meta[d] = m.meta[d]
  <2> DEFINE a == m.meta
             b == R.meta
             Y == Known1 \cup {None}
  <2>1. a \in [Ids -> Y] /\ b = [a EXCEPT ![id] = rec] /\ rec \in Y
    BY <1>1, <1>5, <1>6
  <2> HIDE DEF a, b, Y
  <2>2. b \in [Ids -> Y] /\ b[id] = rec /\ \A d \in Ids : d # id => b[d] = a[d]
    BY ONLY <2>1, id \in Ids
  <2> QED BY <2>2 DEF a, b, Y
<1>15. Known(R) = Known(m) \cup {id}
  <2>1. rec # None
    BY <1>5, NoneIs
  <2> QED BY <1>14, <2>1 DEF Known
<1>16. R \in Rams
  BY <1>6, <1>8, <1>10, <1>13, <1>14 DEF Rams
<1>17. DOMAIN M = KeysOf(id, n) \cup DOMAIN C
  BY DEF Over
<1>18. ASSUME NEW d \in Known(R) PROVE KeysOf(d, R.meta[d].count) \subseteq DOMAIN M
  <2>1. CASE d = id
    <3>1. R.meta[d].count = n
      BY <1>14, <2>1 DEF rec
    <3> QED BY <1>17, <2>1, <3>1
  <2>2. CASE d # id
    <3>1. d \in Known(m) /\ R.meta[d] = m.meta[d]
      BY <1>1, <1>14, <1>15, <2>2
    <3>2. KeysOf(d, m.meta[d].count) \subseteq DOMAIN C
      BY <1>7, <3>1 DEF Agrees, C
    <3> QED BY <1>17, <3>1, <3>2
  <2> QED BY <2>1, <2>2
<1>19. ASSUME NEW c \in DOMAIN M
       PROVE  (c[1] \in Known(R) /\ c \in KeysOf(c[1], R.meta[c[1]].count)) \/ c[1] \in ov
  <2>1. CASE c \in KeysOf(id, n)
    <3>1. c[1] = id
      BY <1>3, <2>1, KeysAre
    <3>2. R.meta[id].count = n
      BY <1>14 DEF rec
    <3> QED BY <1>15, <2>1, <3>1, <3>2
  <2>2. CASE c \in DOMAIN C
    <3>1. (c[1] \in Known(m) /\ c \in KeysOf(c[1], m.meta[c[1]].count)) \/ c[1] \in ov
      BY <1>7, <2>2 DEF Agrees, C
    <3>2. c[1] \in Known(m) => c[1] \in Ids /\ c[1] # id /\ R.meta[c[1]] = m.meta[c[1]]
      BY <1>1, <1>14
    <3> QED BY <1>15, <3>1, <3>2
  <2> QED BY <1>17, <2>1, <2>2
<1>20. Agrees(R, ov)
  BY <1>6, <1>18, <1>19 DEF Agrees
<1>21. mode # "hybrid" => DOMAIN R.hybrid.docs = {}
  BY <1>6, <1>7, <1>8
<1>22. Sound(R, ov, mode)
  BY <1>6, <1>7, <1>8, <1>10, <1>11, <1>13, <1>15, <1>16, <1>20, <1>21 DEF Sound
<1> QED BY <1>15, <1>22 DEF R

(* RAM stays sound when a memento is unregistered; chunks of it stay behind *)
(* only if more were known than are removed, and the memento is then one    *)
(* that was overwritten.                                                    *)
LEMMA Unregister ==
    ASSUME NEW m, NEW ov, Sound(m, ov, mode), NEW id \in Ids, NEW count \in Nat,
           NEW more, ov \subseteq more,
           id \in Known(m) /\ m.meta[id].count > count => id \in more
    PROVE  /\ Sound(unregisterMemento(m, id, count), more, mode)
           /\ Known(unregisterMemento(m, id, count)) = Known(m) \ {id}
<1> DEFINE R == unregisterMemento(m, id, count)
           keys == KeysOf(id, count)
           C == m.index
           M == Rest(C, keys)
           H == m.hybrid
           T == m.trigram
           S == m.scan
           left == Restrict(S, DOMAIN S \ {id})
<1>1. /\ m.meta \in [Ids -> Known1 \cup {None}] /\ C \in Contents /\ H \in Hybrids
      /\ T \in Trigrams /\ S \in Maps(Ids, Seq(Characters))
      /\ (\A d \in Known(m) : d \in Ids /\ m.meta[d] \in Known1 /\ m.meta[d].count \in Nat)
      /\ DOMAIN C \in SUBSET Key
  BY RamParts DEF Sound
<1>2. /\ R.meta = [m.meta EXCEPT ![id] = None] /\ R.index = M /\ R.hybrid = removeChunks(H, keys)
      /\ R.trigram = trigramRemove(T, id) /\ R.scan = left
      /\ R = [meta |-> R.meta, index |-> R.index, hybrid |-> R.hybrid, trigram |-> R.trigram, scan |-> R.scan]
  BY DEF unregisterMemento, Rest
<1>3. /\ mode = "hybrid" => Inverted(H, C)
      /\ mode # "hybrid" => DOMAIN H.docs = {}
      /\ Searchable(T) /\ T.store = S /\ DOMAIN S = Known(m) /\ Agrees(m, ov)
  BY DEF Sound
<1> HIDE DEF R, keys, C, H, T, S, left
<1>4. /\ removeChunks(H, keys) \in Hybrids /\ M \in Contents
      /\ mode = "hybrid" => Inverted(removeChunks(H, keys), M)
      /\ mode # "hybrid" => removeChunks(H, keys) = H
  BY <1>1, <1>3, RemoveChunks DEF keys
<1>5. /\ trigramRemove(T, id) \in Trigrams /\ Searchable(trigramRemove(T, id))
      /\ trigramRemove(T, id).store = left
  BY <1>1, <1>3, TrigramRemove DEF left
<1>6. left \in Maps(Ids, Seq(Characters)) /\ DOMAIN left = Known(m) \ {id}
  <2>1. LET g == Restrict(S, DOMAIN S \ {id}) IN
          g \in Maps(Ids, Seq(Characters)) /\ DOMAIN g = DOMAIN S \ {id}
    BY ONLY <1>1, RestrictMaps
  <2> QED BY <1>3, <2>1 DEF left
<1>7. /\ R.meta \in [Ids -> Known1 \cup {None}] /\ R.meta[id] = None
      /\ \A d \in Ids : d # id => R.meta[d] = m.meta[d]
  <2> DEFINE a == m.meta
             b == R.meta
             Y == Known1 \cup {None}
  <2>1. a \in [Ids -> Y] /\ b = [a EXCEPT ![id] = None] /\ None \in Y
    BY <1>1, <1>2
  <2> HIDE DEF a, b, Y
  <2>2. b \in [Ids -> Y] /\ b[id] = None /\ \A d \in Ids : d # id => b[d] = a[d]
    BY ONLY <2>1, id \in Ids
  <2> QED BY <2>2 DEF a, b, Y
<1>8. Known(R) = Known(m) \ {id}
  BY <1>7 DEF Known
<1>9. R \in Rams
  BY <1>2, <1>4, <1>5, <1>6, <1>7 DEF Rams
<1>10. DOMAIN M = DOMAIN C \ keys
  BY <1>1, RestIs
<1>11. ASSUME NEW d \in Known(R) PROVE KeysOf(d, R.meta[d].count) \subseteq DOMAIN M
  <2>1. d \in Known(m) /\ d # id /\ R.meta[d] = m.meta[d] /\ d \in Ids
    BY <1>1, <1>7, <1>8
  <2>2. KeysOf(d, m.meta[d].count) \subseteq DOMAIN C
    BY <1>3, <2>1 DEF Agrees, C
  <2>3. \A c \in KeysOf(d, m.meta[d].count) : c[1] = d
    BY <1>1, <2>1, KeysAre
  <2>4. \A c \in keys : c[1] = id
    BY KeysAre DEF keys
  <2> QED BY <1>10, <2>1, <2>2, <2>3, <2>4
<1>12. ASSUME NEW c \in DOMAIN M
       PROVE  (c[1] \in Known(R) /\ c \in KeysOf(c[1], R.meta[c[1]].count)) \/ c[1] \in more
  <2>1. c \in DOMAIN C /\ c \notin keys /\ c \in Key
    BY <1>1, <1>10
  <2>2. (c[1] \in Known(m) /\ c \in KeysOf(c[1], m.meta[c[1]].count)) \/ c[1] \in ov
    BY <1>3, <2>1 DEF Agrees, C
  <2>3. CASE c[1] \in ov
    BY <2>3
  <2>4. CASE c[1] \in Known(m) /\ c[1] # id /\ c \in KeysOf(c[1], m.meta[c[1]].count)
    <3>1. R.meta[c[1]] = m.meta[c[1]] /\ c[1] \in Known(R)
      BY <1>1, <1>7, <1>8, <2>4
    <3> QED BY <2>4, <3>1
  <2>5. CASE c[1] = id /\ id \in Known(m) /\ c \in KeysOf(id, m.meta[id].count)
    <3>1. m.meta[id].count \in Nat
      BY <1>1, <2>5
    <3>2. c[2] < m.meta[id].count
      BY <2>5, <3>1, KeysAre
    <3>3. ~(c[2] < count)
      BY <2>1, <2>5, KeysAre DEF keys
    <3>4. c[2] \in Nat
      BY <2>1 DEF Key
    <3>5. m.meta[id].count > count
      BY <3>1, <3>2, <3>3, <3>4
    <3> QED BY <2>5, <3>5
  <2> QED BY <2>2, <2>3, <2>4, <2>5
<1>13. Agrees(R, more)
  BY <1>2, <1>11, <1>12 DEF Agrees
<1>14. Sound(R, more, mode)
  BY <1>2, <1>3, <1>4, <1>5, <1>6, <1>8, <1>9, <1>13 DEF Sound
<1> QED BY <1>8, <1>14 DEF R

(* RAM stays sound when a read finds that a file is gone.                   *)
LEMMA Forgets ==
    ASSUME NEW m, NEW ov, Sound(m, ov, mode), NEW id \in Ids
    PROVE  Sound(Forget(m, id), ov, mode) /\ Known(Forget(m, id)) = Known(m) \ {id}
<1>1. CASE m.meta[id] = None
  BY <1>1 DEF Forget, Known
<1>2. CASE m.meta[id] # None
  <2>1. id \in Known(m) /\ Forget(m, id) = unregisterMemento(m, id, m.meta[id].count)
    BY <1>2 DEF Forget, Known
  <2>2. m.meta[id].count \in Nat
    BY <2>1, RamParts DEF Sound
  <2> DEFINE count == m.meta[id].count
  <2>3. count \in Nat /\ ~(m.meta[id].count > count) /\ ov \subseteq ov
    BY <2>2
  <2>4. Forget(m, id) = unregisterMemento(m, id, count)
    BY <2>1
  <2> HIDE DEF count
  <2> QED BY <2>3, <2>4, Unregister
<1> QED BY <1>1, <1>2

(* The walk of a sync through the mementos.                                 *)
ReloadingReady(n, s, V, b, gone, changed) ==
    /\ n \in Nat /\ DOMAIN s = 1..n /\ b \in V
    /\ \A v \in V, i \in 1..n : Reload(gone, changed, v, s[i]) \in V

ReloadingRun(n, s, V, b, gone, changed, h) ==
    /\ h \in [0..n -> V] /\ h[0] = b /\ h[n] = FoldLeft(LAMBDA m, id : Reload(gone, changed, m, id), b, s)
    /\ \A i \in 1..n : h[i] = Reload(gone, changed, h[i - 1], s[i])

(* The states of RAM while a sync goes through the mementos.                *)
LEMMA Reloading ==
    ASSUME NEW n, NEW s, NEW V, NEW b, NEW gone, NEW changed, ReloadingReady(n, s, V, b, gone, changed)
    PROVE  \E h : ReloadingRun(n, s, V, b, gone, changed, h)
<1> USE DEF ReloadingReady
<1> DEFINE F == [p \in V \X (1..n) |-> Reload(gone, changed, p[1], s[p[2]])]
<1>1. \A v \in V, i \in 1..n : F[<<v, i>>] = Reload(gone, changed, v, s[i])
  OBVIOUS
<1>2. Loop(n, V, b, F)
  <2>1. F \in [V \X (1..n) -> V]
    OBVIOUS
  <2> HIDE DEF F
  <2> QED BY <2>1 DEF Loop
<1> HIDE DEF F
<1>3. PICK g : Unfolds(n, V, b, F, g) /\ Typed(n, V, g)
  BY <1>2, Fold
<1> DEFINE Same(f) == f = [x \in SUBSET (1..n) |->
                       IF x = {} THEN b ELSE Reload(gone, changed, f[x \ {Max(x)}], s[Max(x)])]
           c == CHOOSE f : Same(f)
<1>4. Same(g)
  <2>1. \A x \in SUBSET (1..n) : x # {} => g[x] = Reload(gone, changed, g[x \ {Max(x)}], s[Max(x)])
    BY <1>1, <1>3 DEF Unfolds, Typed
  <2>2. g[{}] = b /\ g = [x \in SUBSET (1..n) |-> g[x]]
    BY <1>3 DEF Unfolds, Typed
  <2> QED BY <2>1, <2>2
<1>5. c[1..n] = FoldLeft(LAMBDA m, id : Reload(gone, changed, m, id), b, s)
  BY DEF FoldLeft, MapThenFoldSet
<1>6. \E f : Same(f)
  <2> HIDE DEF Same
  <2> QED BY <1>4
<1>7. Same(c)
  <2> HIDE DEF Same
  <2> QED BY <1>6
<1> HIDE DEF c
<1>8. Unfolds(n, V, b, F, c)
  <2>1. c[{}] = b
    BY <1>7
  <2>2. ASSUME NEW x \in SUBSET (1..n), x # {}, c[x \ {Max(x)}] \in V
        PROVE c[x] = F[<<c[x \ {Max(x)}], Max(x)>>]
    <3>1. c[x] = Reload(gone, changed, c[x \ {Max(x)}], s[Max(x)])
      BY <1>7, <2>2
    <3>2. Max(x) \in 1..n
      BY <1>3, <2>2 DEF Typed
    <3> HIDE DEF Same
    <3> QED BY <1>1, <2>2, <3>1, <3>2
  <2> HIDE DEF Same
  <2> QED BY <2>1, <2>2 DEF Unfolds
<1>9. PICK h : Goes(n, V, b, F, h) /\ h[n] = c[1..n]
  BY <1>2, <1>8, History
<1>10. h \in [0..n -> V] /\ h[0] = b /\ \A i \in 1..n : h[i] = F[<<h[i - 1], i>>]
  BY <1>9 DEF Goes
<1>11. ASSUME NEW i \in 1..n PROVE h[i] = Reload(gone, changed, h[i - 1], s[i])
  <2>1. i - 1 \in 0..n
    OBVIOUS
  <2>2. h[i - 1] \in V
    BY <1>10, <2>1
  <2> QED BY <1>1, <1>10, <2>2
<1>12. ReloadingRun(n, s, V, b, gone, changed, h)
  BY <1>5, <1>9, <1>10, <1>11 DEF ReloadingRun
<1> QED BY <1>12

FilesOK == files \in [Ids -> File1 \cup {None}] /\ clock \in Nat

IInv == FilesOK /\ Sound(ram, overwritten, mode)

(* What is written is a file.                                               *)
LEMMA FileType ==
    ASSUME clock \in Nat, NEW text \in Texts, NEW tagged \in BOOLEAN
    PROVE  File(text, tagged) \in File1
<1>1. text \in Seq(Characters)
  BY TextAssumption DEF Texts
<1>2. splitChunks(text) \in Seq(Chunk1)
  BY <1>1, SplitChunksType
<1>3. Written[text] \in Seq(Chunk1)
  BY <1>2 DEF Written
<1> QED BY <1>3 DEF File, File1

(* What is stored is a file.                                                *)
LEMMA StoredIs ==
    ASSUME FilesOK, NEW id \in Stored
    PROVE  id \in Ids /\ files[id] \in File1 /\ files[id].tagged \in BOOLEAN /\ Len(files[id].chunks) \in Nat
<1>1. id \in Ids /\ files[id] # None
  BY DEF Stored
<1>2. files[id] \in File1
  BY <1>1 DEF FilesOK
<1> DEFINE f == files[id]
<1>3. f \in File1
  BY <1>2
<1> HIDE DEF f
<1>4. f.chunks \in Seq(Chunk1) /\ f.tagged \in BOOLEAN
  BY <1>3 DEF File1
<1>5. Len(f.chunks) \in Nat
  BY <1>4
<1> QED BY <1>1, <1>2, <1>4, <1>5 DEF f

(* RAM after a sync.                                                        *)
Synced(gone, changed) ==
    FoldLeft(LAMBDA m, id : Reload(gone, changed, m, id), ram, SortedBy(Ids, <))

(* RAM stays sound when a sync reloads what changed elsewhere and forgets   *)
(* what is gone.                                                            *)
LEMMA Syncs ==
    ASSUME FilesOK, NEW ov, Sound(ram, ov, mode),
           NEW gone, NEW changed, changed \subseteq Stored
    PROVE  Sound(Synced(gone, changed), ov, mode)
<1> DEFINE V == {m \in Rams : Sound(m, ov, mode)}
           s == SortedBy(Ids, <)
           n == Cardinality(Ids)
<1>1. n \in Nat
  BY IdsAssumption, FS_CardinalityType
<1>2. DOMAIN s = 1..n /\ \A i \in 1..n : s[i] \in Ids
  <2>1. Ids \in SUBSET Int /\ IsFiniteSet(Ids)
    BY IdsAssumption
  <2>2. s \in [1..n -> Ids]
    BY <2>1, Ascending
  <2> HIDE DEF s, n
  <2> QED BY <2>2
<1>3. ram \in V
  BY DEF Sound
<1>4. ASSUME NEW m \in V, NEW id \in Ids
      PROVE Reload(gone, changed, m, id) \in V
  <2>1. Sound(m, ov, mode)
    OBVIOUS
  <2>2. Sound(Forget(m, id), ov, mode) /\ id \notin Known(Forget(m, id))
    BY <2>1, Forgets
  <2>3. id \in changed => Sound(registerMemento(Forget(m, id), id, files[id]), ov, mode)
    BY <2>2, StoredIs, Register
  <2> QED BY <2>1, <2>2, <2>3 DEF Sound, Reload
<1> HIDE DEF V, s, n
<1>5. ReloadingReady(n, s, V, ram, gone, changed)
  BY <1>1, <1>2, <1>3, <1>4 DEF ReloadingReady
<1>6. PICK h : ReloadingRun(n, s, V, ram, gone, changed, h)
  BY <1>5, Reloading
<1>7. h[n] \in V
  <2>1. h \in [0..n -> V]
    BY <1>6 DEF ReloadingRun
  <2> QED BY <1>1, <2>1
<1>8. h[n] = Synced(gone, changed)
  BY <1>6 DEF ReloadingRun, s, Synced
<1> QED BY <1>7, <1>8 DEF V

(* Nothing registered.                                                      *)
LEMMA EmptySound == Known(Empty) = {} /\ Sound(Empty, {}, mode)
<1>0. Known(Empty) = {}
  BY DEF Known, Empty
<1> DEFINE no == <<>>
<1>1. \A A, B : no \in Maps(A, B)
  <2> SUFFICES ASSUME NEW A, NEW B PROVE no \in Maps(A, B)
    OBVIOUS
  <2>1. DOMAIN no = {} /\ no \in [{} -> B]
    OBVIOUS
  <2> QED BY <2>1, MapsIs
<1>2. DOMAIN no = {} /\ Len(no) = 0
  OBVIOUS
<1>3. IsFiniteSet(DOMAIN no)
  BY <1>2, FS_EmptySet
<1>4. no \in Contents
  BY <1>1, <1>3 DEF Contents
<1>5. no \in Seq(Ids \cup {Gone})
  OBVIOUS
<1> HIDE DEF no
<1>6. NoDocs = [postings |-> no, docs |-> no, totalLength |-> 0]
      /\ NoTrigrams = [ids |-> no, idIndex |-> no, postings |-> no, store |-> no]
  BY DEF NoDocs, NoTrigrams, no
<1>7. Empty = [meta |-> [id \in Ids |-> None], index |-> no, hybrid |-> NoDocs, trigram |-> NoTrigrams, scan |-> no]
  BY DEF Empty, no
<1>8. NoDocs \in Hybrids
  BY <1>1, <1>6 DEF Hybrids
<1>9. NoTrigrams \in Trigrams
  BY <1>1, <1>5, <1>6 DEF Trigrams
<1>10. Empty \in Rams
  BY <1>1, <1>4, <1>7, <1>8, <1>9 DEF Rams
<1>11. Inverted(NoDocs, no)
  <2>1. Cardinality(Words(no, {})) = 0
    BY WordsOfNone
  <2> QED BY <1>2, <1>6, <2>1 DEF Inverted
<1>12. Searchable(NoTrigrams)
  BY <1>2, <1>6 DEF Searchable
<1>13. Agrees(Empty, {})
  BY <1>0, <1>2, <1>7 DEF Agrees
<1> QED BY <1>0, <1>2, <1>6, <1>7, <1>10, <1>11, <1>12, <1>13 DEF Sound

(* The first state satisfies the invariant.                                 *)
LEMMA IInvInit == Init => IInv
<1> SUFFICES ASSUME Init PROVE IInv
  OBVIOUS
<1>1. PICK text \in Texts :
        LET f == [text |-> text, chunks |-> Written[text], tagged |-> FALSE, time |-> 0] IN
          /\ files = [id \in Ids |-> IF id = 1 THEN f ELSE None]
          /\ ram = registerMemento(Empty, 1, f)
          /\ clock = (IF \E x \in Inputs : x[1] = text THEN 1 ELSE MaxWrites)
  BY DEF Init
<1> DEFINE f == [text |-> text, chunks |-> Written[text], tagged |-> FALSE, time |-> 0]
<1>2. f \in File1
  <2>1. text \in Seq(Characters)
    BY TextAssumption DEF Texts
  <2>2. splitChunks(text) \in Seq(Chunk1)
    BY <2>1, SplitChunksType
  <2>3. Written[text] \in Seq(Chunk1)
    BY <2>2 DEF Written
  <2> QED BY <2>3 DEF File1
<1>3. files = [id \in Ids |-> IF id = 1 THEN f ELSE None] /\ ram = registerMemento(Empty, 1, f)
  BY <1>1
<1>4. clock \in Nat
  BY <1>1, BoundsAssumption
<1>5. overwritten = {} /\ 1 \in Ids
  BY IdsAssumption DEF Init
<1> HIDE DEF f
<1>6. FilesOK
  BY <1>2, <1>3, <1>4 DEF FilesOK
<1>7. Known(Empty) = {} /\ Sound(Empty, {}, mode)
  BY EmptySound
<1>9. Sound(ram, overwritten, mode)
  BY <1>2, <1>3, <1>5, <1>7, Register
<1> QED BY <1>6, <1>9 DEF IInv

(* A change of a file keeps the type of the files.                          *)
LEMMA ChangesKeep ==
    ASSUME FilesOK, NEW id \in Ids, NEW f \in File1 \cup {None}, Changes(id, f)
    PROVE  FilesOK'
<1>1. clock' = clock + 1 /\ files' = [files EXCEPT ![id] = f]
  BY DEF Changes
<1>2. files \in [Ids -> File1 \cup {None}] /\ clock \in Nat
  BY DEF FilesOK
<1>3. files' \in [Ids -> File1 \cup {None}]
  <2> DEFINE Y == File1 \cup {None}
  <2>1. files \in [Ids -> Y] /\ f \in Y
    BY <1>2
  <2> HIDE DEF Y
  <2>2. files' \in [Ids -> Y]
    BY <1>1, <2>1
  <2> QED BY <2>2 DEF Y
<1> QED BY <1>1, <1>2, <1>3 DEF FilesOK

(* Every step keeps the invariant.                                          *)
LEMMA IInvNext == IInv /\ [Next]_vars => IInv'
<1> SUFFICES ASSUME IInv, [Next]_vars PROVE IInv'
  OBVIOUS
<1>0. FilesOK /\ Sound(ram, overwritten, mode) /\ clock \in Nat
  BY DEF IInv, FilesOK
<1>a. ASSUME UNCHANGED <<files, clock>> PROVE FilesOK'
  BY <1>0, <1>a DEF FilesOK
<1>b. ASSUME NEW x \in Inputs PROVE x[1] \in Texts /\ x[2] \in BOOLEAN
  BY <1>b, TextAssumption DEF Texts
<1>1. ASSUME NEW id \in New, NEW x \in Inputs, writeMemento(id, x[1], x[2]) PROVE IInv'
  <2> DEFINE f == File(x[1], x[2])
  <2>1. f \in File1
    BY <1>0, <1>b, FileType
  <2>2. id \in Ids
    BY DEF New
  <2>3. /\ id \notin Known(ram) /\ Changes(id, f) /\ ram' = registerMemento(ram, id, f)
        /\ mode' = mode /\ overwritten' = overwritten
    BY <1>1 DEF writeMemento
  <2> HIDE DEF f
  <2>4. FilesOK'
    BY <1>0, <2>1, <2>2, <2>3, ChangesKeep
  <2>5. Sound(registerMemento(ram, id, f), overwritten, mode)
    BY <1>0, <2>1, <2>2, <2>3, Register
  <2>6. Sound(ram, overwritten, mode)'
    BY <2>3, <2>5
  <2> QED BY <2>4, <2>6 DEF IInv
<1>2. ASSUME NEW id, NEW x \in Inputs, updateMemento(id, x[1]) PROVE IInv'
  <2>0. id \in Stored
    BY <1>2 DEF updateMemento
  <2> DEFINE old == files[id]
             f == File(x[1], old.tagged)
             count == Len(old.chunks)
             R == unregisterMemento(ram, id, count)
             more == IF id \in Known(ram) /\ ram.meta[id].count > count THEN overwritten \cup {id} ELSE overwritten
  <2>1. id \in Ids /\ old \in File1 /\ old.tagged \in BOOLEAN /\ count \in Nat
    BY <1>0, <2>0, StoredIs
  <2>2. f \in File1
    BY <1>0, <1>b, <2>1, FileType
  <2>3. /\ Changes(id, f) /\ ram' = registerMemento(R, id, f)
        /\ mode' = mode /\ overwritten' = more
    BY <1>2 DEF updateMemento
  <2>4. overwritten \subseteq more /\ (id \in Known(ram) /\ ram.meta[id].count > count => id \in more)
    OBVIOUS
  <2> HIDE DEF f, count, more, old
  <2>5. FilesOK'
    BY <1>0, <2>1, <2>2, <2>3, ChangesKeep
  <2>6. Sound(R, more, mode) /\ Known(R) = Known(ram) \ {id}
    BY <1>0, <2>1, <2>4, Unregister
  <2> HIDE DEF R
  <2>7. Sound(registerMemento(R, id, f), more, mode)
    BY <2>1, <2>2, <2>6, Register
  <2>8. Sound(ram, overwritten, mode)'
    BY <2>3, <2>7
  <2> QED BY <2>5, <2>8 DEF IInv
<1>3. ASSUME NEW id \in Stored \cup New, NEW x \in Inputs, Elsewhere(id, File(x[1], x[2])) PROVE IInv'
  <2> DEFINE f == File(x[1], x[2])
  <2>1. f \in File1
    BY <1>0, <1>b, FileType
  <2>2. id \in Ids
    BY DEF New, Stored
  <2>3. Changes(id, f) /\ ram' = ram /\ mode' = mode /\ overwritten' = overwritten
    BY <1>3 DEF Elsewhere
  <2> HIDE DEF f
  <2>4. FilesOK'
    BY <1>0, <2>1, <2>2, <2>3, ChangesKeep
  <2>5. Sound(ram, overwritten, mode)'
    BY <1>0, <2>3
  <2> QED BY <2>4, <2>5 DEF IInv
<1>4. ASSUME NEW id \in Stored, Elsewhere(id, None) PROVE IInv'
  <2>1. Changes(id, None) /\ ram' = ram /\ mode' = mode /\ overwritten' = overwritten /\ id \in Ids
    BY <1>4 DEF Elsewhere, Stored
  <2>2. FilesOK'
    BY <1>0, <2>1, ChangesKeep
  <2>3. Sound(ram, overwritten, mode)'
    BY <1>0, <2>1
  <2> QED BY <2>2, <2>3 DEF IInv
<1>5. ASSUME NEW id \in Ids, updateMissing(id) PROVE IInv'
  <2>1. ram' = Forget(ram, id) /\ UNCHANGED <<mode, files, clock, overwritten>>
    BY <1>5 DEF updateMissing
  <2>2. Sound(Forget(ram, id), overwritten, mode)
    BY <1>0, Forgets
  <2>3. Sound(ram, overwritten, mode)'
    BY <2>1, <2>2
  <2> QED BY <1>a, <2>1, <2>3 DEF IInv
<1>6. ASSUME NEW id \in Ids, deleteMemento(id) PROVE IInv'
  <2> DEFINE count == ram.meta[id].count
  <2>1. /\ id \in Known(ram) /\ Changes(id, None) /\ ram' = unregisterMemento(ram, id, count)
        /\ mode' = mode /\ overwritten' = overwritten
    BY <1>6 DEF deleteMemento
  <2>2. count \in Nat
    BY <1>0, <2>1, RamParts DEF Sound
  <2>3. FilesOK'
    BY <1>0, <2>1, ChangesKeep
  <2>4. ~(ram.meta[id].count > count) /\ overwritten \subseteq overwritten
    BY <2>2
  <2> HIDE DEF count
  <2>5. Sound(unregisterMemento(ram, id, count), overwritten, mode)
    BY <1>0, <2>2, <2>4, Unregister
  <2>6. Sound(ram, overwritten, mode)'
    BY <2>1, <2>5
  <2> QED BY <2>3, <2>6 DEF IInv
<1>7. ASSUME NEW id \in Ids, Read(id) PROVE IInv'
  <2>1. ram' = (IF id \in Stored THEN ram ELSE Forget(ram, id)) /\ UNCHANGED <<mode, files, clock, overwritten>>
    BY <1>7 DEF Read
  <2>2. Sound(Forget(ram, id), overwritten, mode)
    BY <1>0, Forgets
  <2>3. Sound(ram, overwritten, mode)'
    BY <1>0, <2>1, <2>2
  <2> QED BY <1>a, <2>1, <2>3 DEF IInv
<1>8. ASSUME Sync PROVE IInv'
  <2> DEFINE changed == {id \in Stored : id \in Known(ram) => ram.meta[id].time # files[id].time}
             gone == Known(ram) \ Stored
  <2>1. ram' = Synced(gone, changed) /\ UNCHANGED <<mode, files, clock, overwritten>>
    BY <1>8 DEF Sync, Synced
  <2>2. changed \subseteq Stored
    OBVIOUS
  <2> HIDE DEF changed, gone
  <2>3. Sound(Synced(gone, changed), overwritten, mode)
    BY <1>0, <2>2, Syncs
  <2>4. Sound(ram, overwritten, mode)'
    BY <2>1, <2>3
  <2> QED BY <1>a, <2>1, <2>4 DEF IInv
<1>9. ASSUME UNCHANGED <<mode, files, ram, clock, overwritten>> PROVE IInv'
  <2>1. Sound(ram, overwritten, mode)'
    BY <1>0, <1>9
  <2> QED BY <1>a, <1>9, <2>1 DEF IInv
<1>10. CASE Rank
  BY <1>9, <1>10 DEF Rank
<1>11. CASE UNCHANGED vars
  BY <1>9, <1>11 DEF vars
<1>12. ASSUME NEW kind, NEW q, NEW k, NEW filtered, Ask(kind, q, k, filtered) \/ List(k, filtered) PROVE IInv'
  BY <1>9, <1>12 DEF Ask, List
<1>13. CASE Next
  BY <1>1, <1>2, <1>3, <1>4, <1>5, <1>6, <1>7, <1>8, <1>10, <1>12, <1>13 DEF Next
<1> QED BY <1>11, <1>13

(* The invariant holds in every reachable state: RAM is sound whatever was  *)
(* written, updated, deleted, synced and forgotten, in whatever order.      *)
THEOREM IInvHolds == Spec => []IInv
BY IInvInit, IInvNext, PTL DEF Spec

(* How many documents a list names.                                         *)
LEMMA ListCount ==
    ASSUME NEW C \in Contents, NEW w, NEW list, Listed(list, w, C)
    PROVE  Cardinality({p.doc : p \in Range(list)}) = Len(list)
<1> DEFINE n == Len(list)
           S == {p.doc : p \in Range(list)}
           f == [i \in 1..n |-> list[i].doc]
<1>1. list \in Seq(Posting) /\ \A i, j \in 1..n : list[i].doc = list[j].doc => i = j
  BY DEF Listed
<1>2. n \in Nat /\ Range(list) = {list[i] : i \in 1..n}
  BY <1>1 DEF Range
<1>3. \A d : d \in S <=> \E i \in 1..n : d = f[i]
  BY <1>2
<1>4. \A i, j \in 1..n : f[i] = f[j] => i = j
  BY <1>1
<1> HIDE DEF n, S
<1>5. f \in [1..n -> S]
  BY <1>3
<1> HIDE DEF f
<1>6. f \in Bijection(1..n, S)
  BY <1>3, <1>4, <1>5 DEF Bijection, Injection, Surjection, IsInjective
<1>7. ExistsBijection(1..n, S)
  BY <1>6 DEF ExistsBijection
<1>8. Cardinality(S) = n
  BY ONLY <1>2, <1>7, FS_CountingElements
<1> QED BY <1>8 DEF S, n

(* Sound RAM has an inverse index.                                          *)
LEMMA PostingsFollow == IInv => PostingsInverse
<1> SUFFICES ASSUME IInv PROVE PostingsInverse
  OBVIOUS
<1> DEFINE C == ram.index
           H == ram.hybrid
           registered == UNION {KeysOf(id, ram.meta[id].count) : id \in Known(ram)}
           N(c, w) == LET ws == tokenize(C[c]) IN Cardinality({h \in DOMAIN ws : ws[h] = w})
<1>1. Sound(ram, overwritten, mode) /\ C \in Contents /\ H \in Hybrids /\ Agrees(ram, overwritten)
  BY RamParts DEF IInv, Sound
<1>2. registered \subseteq DOMAIN C /\ \A c \in DOMAIN C \ registered : c[1] \in overwritten
  BY <1>1 DEF Agrees
<1>3. \A c, w : N(c, w) = Count(C, c, w)
  BY DEF Count
<1>4. ASSUME mode = "hybrid"
      PROVE  /\ DOMAIN H.docs = DOMAIN C
             /\ \A w \in DOMAIN H.postings :
                  /\ H.postings[w] # <<>>
                  /\ Cardinality({p.doc : p \in Range(H.postings[w])}) = Len(H.postings[w])
                  /\ \A p \in Range(H.postings[w]) : p.tf = N(p.doc, w) /\ p.tf > 0
             /\ \A c \in DOMAIN H.docs : \A w \in Range(tokenize(C[c])) :
                  w \in DOMAIN H.postings /\ \E p \in Range(H.postings[w]) : p.doc = c
             /\ H.totalLength = Length(C, DOMAIN H.docs)
  <2>1. Inverted(H, C)
    BY <1>1, <1>4 DEF Sound
  <2> HIDE DEF C, H, registered, N
  <2>2. /\ DOMAIN H.docs = DOMAIN C
        /\ \A w \in DOMAIN H.postings : Listed(H.postings[w], w, C) /\ H.postings[w] # <<>>
        /\ \A c \in DOMAIN C : \A w \in Range(tokenize(C[c])) :
              w \in DOMAIN H.postings /\ \E i \in 1..Len(H.postings[w]) : H.postings[w][i].doc = c
        /\ H.totalLength = Cardinality(Words(C, DOMAIN C))
    BY <2>1 DEF Inverted
  <2>3. \A w \in DOMAIN H.postings : Range(H.postings[w]) = {H.postings[w][i] : i \in 1..Len(H.postings[w])}
    <3> SUFFICES ASSUME NEW w \in DOMAIN H.postings
                 PROVE  Range(H.postings[w]) = {H.postings[w][i] : i \in 1..Len(H.postings[w])}
      OBVIOUS
    <3>1. H.postings[w] \in Seq(Posting)
      BY <2>2 DEF Listed
    <3> QED BY <3>1 DEF Range
  <2>4. ASSUME NEW w \in DOMAIN H.postings
        PROVE Cardinality({p.doc : p \in Range(H.postings[w])}) = Len(H.postings[w])
    <3> DEFINE list == H.postings[w]
    <3>1. Listed(list, w, C)
      BY <2>2
    <3> HIDE DEF list
    <3>2. Cardinality({p.doc : p \in Range(list)}) = Len(list)
      BY <1>1, <3>1, ListCount
    <3> QED BY <3>2 DEF list
  <2>5. ASSUME NEW w \in DOMAIN H.postings, NEW p \in Range(H.postings[w])
        PROVE p.tf = N(p.doc, w) /\ p.tf > 0
    <3>1. PICK i \in 1..Len(H.postings[w]) : p = H.postings[w][i]
      BY <2>3
    <3>2. p.doc \in DOMAIN C /\ w \in Range(tokenize(C[p.doc])) /\ p.tf = Count(C, p.doc, w)
      BY <2>2, <3>1 DEF Listed
    <3> DEFINE c == p.doc
    <3>3. c \in DOMAIN C /\ w \in Range(tokenize(C[c])) /\ p.tf = Count(C, c, w)
      BY <3>2
    <3> HIDE DEF c
    <3>4. Count(C, c, w) > 0
      BY <1>1, <3>3, CountIs
    <3>5. N(c, w) = Count(C, c, w)
      BY <1>3
    <3> QED BY <3>3, <3>4, <3>5 DEF c
  <2>6. \A c \in DOMAIN H.docs : \A w \in Range(tokenize(C[c])) :
                  w \in DOMAIN H.postings /\ \E p \in Range(H.postings[w]) : p.doc = c
    <3> SUFFICES ASSUME NEW c \in DOMAIN H.docs, NEW w \in Range(tokenize(C[c]))
                 PROVE  w \in DOMAIN H.postings /\ \E p \in Range(H.postings[w]) : p.doc = c
      OBVIOUS
    <3>1. w \in DOMAIN H.postings /\ \E i \in 1..Len(H.postings[w]) : H.postings[w][i].doc = c
      BY <2>2
    <3>2. PICK i \in 1..Len(H.postings[w]) : H.postings[w][i].doc = c
      BY <3>1
    <3>3. H.postings[w][i] \in Range(H.postings[w])
      BY <2>3, <3>1, <3>2
    <3> QED BY <3>1, <3>2, <3>3
  <2>7. Length(C, DOMAIN H.docs) = Cardinality(Words(C, DOMAIN C))
    <3>1. IsFiniteSet(DOMAIN C)
      BY <1>1 DEF Contents
    <3>2. \A c \in DOMAIN C : Len(tokenize(C[c])) \in Nat
      BY <1>1, TextOf
    <3> DEFINE S == DOMAIN C
    <3>3. IsFiniteSet(S) /\ \A c \in S : Len(tokenize(C[c])) \in Nat
      BY <3>1, <3>2
    <3> HIDE DEF S
    <3>4. Length(C, S) = Cardinality(Words(C, S))
      BY <3>3, LengthIs
    <3> QED BY <2>2, <3>4 DEF S
  <2> QED BY <2>2, <2>4, <2>5, <2>6, <2>7
<1> QED BY <1>2, <1>4 DEF PostingsInverse

(* The words of the hybrid index lead to exactly the chunks that contain    *)
(* them, with their counts, for every set of mementos, texts and chunk      *)
(* size.                                                                    *)
THEOREM PostingsCorrect == Spec => []PostingsInverse
BY IInvHolds, PostingsFollow, PTL

ChunksSized ==
    \A id \in Stored : \A h \in DOMAIN files[id].chunks :
        files[id].chunks[h] # <<>> /\ Len(files[id].chunks[h]) <= CharLimit

(* The invariant bounds the chunks of what is stored.                       *)
LEMMA SizesFollow == IInv => ChunksSized
<1> SUFFICES ASSUME IInv, NEW id \in Stored, NEW h \in DOMAIN files[id].chunks
             PROVE  files[id].chunks[h] # <<>> /\ Len(files[id].chunks[h]) <= CharLimit
  BY DEF ChunksSized
<1>1. files[id] \in File1
  BY StoredIs DEF IInv
<1> DEFINE s == files[id].chunks
<1>2. s \in Seq(Chunk1)
  BY <1>1 DEF File1
<1> HIDE DEF s
<1>3. \A i \in DOMAIN s : s[i] \in Chunk1
  BY <1>2
<1>4. \A c \in Chunk1 : c # <<>> /\ Len(c) <= CharLimit
  BY SmallIs DEF Chunk1
<1> QED BY <1>3, <1>4 DEF s

(* No stored chunk is empty or too long for the embedder, whatever the text *)
(* and the limit: the first part of ChunksFit.                              *)
THEOREM SizesCorrect == Spec => []ChunksSized
BY IInvHolds, SizesFollow, PTL

(* Where needle begins in hay, from a place on.                             *)
Hits(needle, hay, p) ==
    {i \in p..Len(hay) - Len(needle) + 1 : SubSeq(hay, i, i + Len(needle) - 1) = needle}

(* The places where a search finds its needle; it finds some only if the    *)
(* text contains it.                                                        *)
LEMMA RangesAre ==
    ASSUME NEW needle \in Seq(Characters), needle # <<>>, NEW hay \in Seq(Characters)
    PROVE  /\ MatchRanges(needle, hay) \in Seq(Nat)
           /\ MatchRanges(needle, hay) # <<>> => Hits(needle, hay, 1) # {}
<1> DEFINE n == Len(hay)
           k == Len(needle)
           At(p) == {i \in p..n - k + 1 : SubSeq(hay, i, i + k - 1) = needle}
           D == 1..n + 1
           Same(f) == f = [p \in D |-> IF At(p) = {} THEN <<>> ELSE <<Min(At(p))>> \o f[Min(At(p)) + k]]
           c == CHOOSE f : Same(f)
<1>1. n \in Nat /\ k \in Nat /\ k > 0
  OBVIOUS
<1>2. MatchRanges(needle, hay) = c[1]
  BY DEF MatchRanges
<1>3. Hits(needle, hay, 1) = At(1)
  BY DEF Hits
<1>4. \A p \in D : At(p) \in SUBSET (p..n - k + 1)
  OBVIOUS
<1> HIDE DEF n, k, At
<1>5. ASSUME NEW p \in D, At(p) # {}
      PROVE Min(At(p)) \in Nat /\ Min(At(p)) + k \in D /\ Min(At(p)) + k > p
  <2>1. At(p) \in SUBSET Nat /\ \A i \in At(p) : i \in Nat /\ p <= i /\ i <= n - k + 1
    BY <1>1, <1>4
  <2> DEFINE m == Min(At(p))
  <2>2. m \in At(p)
    BY <1>5, <2>1, MinIs
  <2> HIDE DEF m
  <2>3. m \in Nat /\ p <= m /\ m <= n - k + 1
    BY <2>1, <2>2
  <2> QED BY <1>1, <2>3 DEF m
<1> DEFINE V == Seq(Nat)
           stop == {p \in D : At(p) = {}}
           next == [p \in D \ stop |-> Min(At(p)) + k]
           r == [p \in D |-> n + 1 - p]
           b == [p \in stop |-> <<>>]
           F == [x \in V \X D |-> IF At(x[2]) = {} THEN <<>> ELSE <<Min(At(x[2]))>> \o x[1]]
<1>6. Descends(D, n, r, stop, next)
  <2>1. r \in [D -> 0..n]
    BY <1>1
  <2>2. stop \in SUBSET D
    OBVIOUS
  <2>3. next \in [D \ stop -> D]
    BY <1>5
  <2>4. ASSUME NEW p \in D \ stop PROVE r[next[p]] < r[p]
    <3>1. next[p] = Min(At(p)) + k /\ next[p] \in D /\ next[p] > p
      BY <1>5
    <3> HIDE DEF next
    <3> QED BY <1>1, <3>1
  <2> HIDE DEF r, stop, next, D
  <2> QED BY <1>1, <2>1, <2>2, <2>3, <2>4 DEF Descends
<1>7. b \in [stop -> V]
  <2>1. <<>> \in V
    OBVIOUS
  <2> QED BY <2>1
<1>8. F \in [V \X D -> V]
  <2> SUFFICES ASSUME NEW x \in V \X D PROVE (IF At(x[2]) = {} THEN <<>> ELSE <<Min(At(x[2]))>> \o x[1]) \in V
    OBVIOUS
  <2>1. x[1] \in V /\ x[2] \in D
    OBVIOUS
  <2>2. CASE At(x[2]) = {}
    BY <2>2
  <2>3. CASE At(x[2]) # {}
    <3>1. <<Min(At(x[2]))>> \in V
      BY <1>5, <2>1, <2>3
    <3>2. <<Min(At(x[2]))>> \o x[1] \in V
      BY <2>1, <3>1, ConcatProperties
    <3> QED BY <2>3, <3>2
  <2> QED BY <2>2, <2>3
<1>9. \A p \in D \ stop : next[p] = Min(At(p)) + k /\ next[p] \in D
  BY <1>5
<1>10. \A p \in D, v \in V : At(p) # {} => F[<<v, p>>] = <<Min(At(p))>> \o v
  OBVIOUS
<1> HIDE DEF next, r, b, F, V, D
<1>11. Recursion(D, n, r, stop, next, V, b, F)
  BY <1>6, <1>7, <1>8 DEF Recursion
<1> HIDE DEF stop
<1>12. PICK g \in [D -> V] :
         /\ \A p \in stop : g[p] = b[p]
         /\ \A p \in D \ stop : g[p] = F[<<g[next[p]], p>>]
  BY ONLY <1>11, Chain
<1>13. Same(g)
  <2>1. ASSUME NEW p \in D, At(p) = {} PROVE g[p] = <<>>
    BY <1>12, <2>1 DEF b, stop
  <2>2. ASSUME NEW p \in D, At(p) # {} PROVE g[p] = <<Min(At(p))>> \o g[Min(At(p)) + k]
    <3>1. next[p] = Min(At(p)) + k /\ next[p] \in D /\ p \in D \ stop
      BY <1>9, <2>2 DEF stop
    <3>2. g[next[p]] \in V
      BY <3>1
    <3> QED BY <1>10, <1>12, <2>2, <3>1, <3>2
  <2>3. g = [p \in D |-> g[p]]
    OBVIOUS
  <2> QED BY <2>1, <2>2, <2>3
<1>14. Same(c)
  <2>1. \E f : Same(f)
    <3> HIDE DEF Same
    <3> QED BY <1>13
  <2> HIDE DEF Same
  <2> QED BY <2>1
<1> HIDE DEF c
<1>15. \A p \in D : c[p] = IF At(p) = {} THEN <<>> ELSE <<Min(At(p))>> \o c[Min(At(p)) + k]
  BY <1>14
<1>16. \A p \in stop : c[p] \in V
  <2>1. <<>> \in V
    BY DEF V
  <2> QED BY <1>15, <2>1 DEF stop
<1>17. ASSUME NEW p \in D \ stop, c[next[p]] \in V PROVE c[p] \in V
  <2>1. c[p] = <<Min(At(p))>> \o c[next[p]]
    BY <1>9, <1>15 DEF stop
  <2>2. <<Min(At(p))>> \in V
    BY <1>5 DEF V, stop
  <2> QED BY <1>17, <2>1, <2>2, ConcatProperties DEF V
<1>18. \A p \in D : c[p] \in V
  BY ONLY <1>6, <1>16, <1>17, ChainIn
<1>19. 1 \in D
  BY <1>1 DEF D
<1>20. At(1) = {} => c[1] = <<>>
  BY <1>15, <1>19
<1> QED BY <1>2, <1>3, <1>18, <1>19, <1>20 DEF V

(* The lower case of a text.                                                *)
LEMMA LowerIs ==
    ASSUME NEW t \in Seq(Characters)
    PROVE  /\ Len(t) \in Nat /\ Len(asciiLower(t)) = Len(t)
           /\ asciiLower(t) = [i \in 1..Len(t) |-> IF t[i] = "B" THEN "b" ELSE t[i]]
           /\ asciiLower(t) \in Seq(Characters)
BY TrigramsType DEF asciiLower, Places

(* What a stretch of a list holds.                                          *)
LEMMA SubSeqIs ==
    ASSUME NEW S, NEW s \in Seq(S), NEW m \in Int, NEW n \in Int, \A i \in m..n : s[i] \in S
    PROVE  SubSeq(s, m, n) = [x \in 1..n - m + 1 |-> s[m + x - 1]]
<1>1. /\ SubSeq(s, m, n) \in Seq(S)
      /\ Len(SubSeq(s, m, n)) = IF m <= n THEN n - m + 1 ELSE 0
      /\ \A i \in 1..n - m + 1 : SubSeq(s, m, n)[i] = s[m + i - 1]
  BY SubSeqProperties
<1> DEFINE u == SubSeq(s, m, n)
<1>2. 1..Len(u) = 1..n - m + 1
  BY <1>1
<1>3. u \in Seq(S) /\ \A i \in 1..n - m + 1 : u[i] = s[m + i - 1]
  BY <1>1
<1> HIDE DEF u
<1>4. u = [x \in 1..Len(u) |-> u[x]]
  BY <1>3
<1> QED BY <1>2, <1>3, <1>4 DEF u

(* A text that contains another contains its trigrams.                      *)
LEMMA HitTrigrams ==
    ASSUME NEW q \in Seq(Characters), NEW t \in Seq(Characters),
           \/ Hits(q, t, 1) # {}
           \/ Hits(asciiLower(q), asciiLower(t), 1) # {}
    PROVE  trigramsOf(q) \subseteq trigramsOf(t)
<1> DEFINE a == asciiLower(q)
           b == asciiLower(t)
           k == Len(q)
           n == Len(t)
<1>1. /\ k \in Nat /\ Len(a) = k /\ a = [i \in 1..k |-> IF q[i] = "B" THEN "b" ELSE q[i]]
      /\ n \in Nat /\ Len(b) = n /\ b = [i \in 1..n |-> IF t[i] = "B" THEN "b" ELSE t[i]]
      /\ a \in Seq(Characters) /\ b \in Seq(Characters)
  BY LowerIs
<1>2. /\ trigramsOf(q) = {SubSeq(a, i, i + 2) : i \in 1..k - 2}
      /\ trigramsOf(t) = {SubSeq(b, i, i + 2) : i \in 1..n - 2}
  <2>1. Size = 3 /\ k - Size + 1 = k - 2 /\ n - Size + 1 = n - 2 /\ \A i \in Int : i + Size - 1 = i + 2
    BY <1>1 DEF Size
  <2> HIDE DEF a, b, k, n
  <2>2. /\ trigramsOf(q) = {SubSeq(a, i, i + Size - 1) : i \in 1..k - Size + 1}
        /\ trigramsOf(t) = {SubSeq(b, i, i + Size - 1) : i \in 1..n - Size + 1}
    BY <1>1 DEF trigramsOf, a, b
  <2> QED BY <2>1, <2>2
<1>3. \E i \in 1..n - k + 1 : \A j \in 1..k : a[j] = b[i + j - 1]
  <2>1. ASSUME NEW x \in Seq(Characters), NEW y \in Seq(Characters), Len(x) = k, Len(y) = n,
               Hits(x, y, 1) # {}
        PROVE \E i \in 1..n - k + 1 : \A j \in 1..k : x[j] = y[i + j - 1]
    <3>1. PICK i \in 1..n - k + 1 : SubSeq(y, i, i + k - 1) = x
      BY <2>1 DEF Hits
    <3>2. SubSeq(y, i, i + k - 1) = [j \in 1..(i + k - 1) - i + 1 |-> y[i + j - 1]]
      BY <1>1, SubSeqIs
    <3>3. (i + k - 1) - i + 1 = k
      BY <1>1
    <3>4. \A j \in 1..k : x[j] = y[i + j - 1]
      BY <3>1, <3>2, <3>3
    <3> QED BY <3>4
  <2>2. CASE Hits(a, b, 1) # {}
    BY <1>1, <2>1, <2>2
  <2>3. CASE Hits(q, t, 1) # {}
    <3>1. PICK i \in 1..n - k + 1 : \A j \in 1..k : q[j] = t[i + j - 1]
      BY <2>1, <2>3
    <3>2. \A j \in 1..k : i + j - 1 \in 1..n
      BY <1>1
    <3> HIDE DEF a, b, k, n
    <3>3. \A j \in 1..k : a[j] = b[i + j - 1]
      BY <1>1, <3>1, <3>2
    <3> QED BY <3>3
  <2> QED BY <2>2, <2>3
<1> HIDE DEF a, b, k, n
<1>4. PICK i \in 1..n - k + 1 : \A j \in 1..k : a[j] = b[i + j - 1]
  BY <1>3
<1>5. ASSUME NEW j \in 1..k - 2 PROVE \E h \in 1..n - 2 : SubSeq(a, j, j + 2) = SubSeq(b, h, h + 2)
  <2>1. i + j - 1 \in 1..n - 2 /\ (i + j - 1) + 2 = i + j + 1 /\ j \in Int /\ j + 2 \in Int
    BY <1>1
  <2>2. SubSeq(a, j, j + 2) = [x \in 1..3 |-> a[j + x - 1]]
    <3>1. SubSeq(a, j, j + 2) = [x \in 1..(j + 2) - j + 1 |-> a[j + x - 1]]
      BY <1>1, <2>1, SubSeqIs
    <3> QED BY <3>1
  <2>3. SubSeq(b, i + j - 1, (i + j - 1) + 2) = [x \in 1..3 |-> b[(i + j - 1) + x - 1]]
    <3> DEFINE h == i + j - 1
    <3>1. h \in Int /\ h + 2 \in Int /\ (h + 2) - h + 1 = 3
      BY <2>1
    <3> HIDE DEF h
    <3>2. SubSeq(b, h, h + 2) = [x \in 1..(h + 2) - h + 1 |-> b[h + x - 1]]
      BY <1>1, <3>1, SubSeqIs
    <3> QED BY <3>1, <3>2 DEF h
  <2>4. ASSUME NEW x \in 1..3 PROVE a[j + x - 1] = b[(i + j - 1) + x - 1]
    <3>1. j + x - 1 \in 1..k /\ i + (j + x - 1) - 1 = (i + j - 1) + x - 1
      BY <1>1
    <3> QED BY <1>4, <3>1
  <2> QED BY <2>1, <2>2, <2>3, <2>4
<1> QED BY <1>2, <1>5

(* What is common to two lists from a place of each on, in order.           *)
Common(a, b, i, j, v) ==
    /\ v \in Seq(Nat)
    /\ \A g, h \in 1..Len(v) : g < h => v[g] < v[h]
    /\ \A g \in 1..Len(v) : \E h \in i..Len(a) : v[g] = a[h]
    /\ \A g \in i..Len(a), h \in j..Len(b) : a[g] = b[h] => Names(v, a[g])

(* A posting list names its slots in ascending order.                       *)
LEMMA RisingIs ==
    ASSUME NEW a, NEW m, Rising(a, m)
    PROVE  /\ a \in Seq(Nat) /\ Len(a) \in Nat
           /\ \A g, h \in 1..Len(a) : g < h => a[g] < a[h]
           /\ \A g \in 1..Len(a) : a[g] \in Nat /\ a[g] <= m
BY DEF Rising

(* A slot that both lists name is one of those they have in common.         *)
LEMMA CommonMore ==
    ASSUME NEW a, NEW m, Rising(a, m), NEW b, Rising(b, m),
           NEW i \in 1..Len(a), NEW j \in 1..Len(b), a[i] = b[j],
           NEW v, Common(a, b, i + 1, j + 1, v)
    PROVE  Common(a, b, i, j, <<a[i]>> \o v)
<1> DEFINE w == <<a[i]>> \o v
           n == Len(v)
           k == Len(a)
           l == Len(b)
<1>1. /\ v \in Seq(Nat) /\ n \in Nat
      /\ \A g, h \in 1..n : g < h => v[g] < v[h]
      /\ \A g \in 1..n : \E h \in i + 1..k : v[g] = a[h]
      /\ \A g \in i + 1..k, h \in j + 1..l : a[g] = b[h] => Names(v, a[g])
  BY DEF Common
<1>2. /\ a \in Seq(Nat) /\ k \in Nat /\ (\A g, h \in 1..k : g < h => a[g] < a[h])
      /\ b \in Seq(Nat) /\ l \in Nat /\ (\A g, h \in 1..l : g < h => b[g] < b[h])
      /\ \A g \in 1..k : a[g] \in Nat
  BY RisingIs
<1>3. /\ w \in Seq(Nat) /\ Len(w) = n + 1 /\ w[1] = a[i]
      /\ \A g \in 1..n : w[g + 1] = v[g]
  <2> DEFINE e == <<a[i]>>
  <2>1. e \in Seq(Nat) /\ Len(e) = 1 /\ e[1] = a[i]
    BY <1>2
  <2> HIDE DEF e, n
  <2>2. e \o v \in Seq(Nat) /\ Len(e \o v) = 1 + n
        /\ \A g \in 1..1 + n : (e \o v)[g] = IF g <= 1 THEN e[g] ELSE v[g - 1]
    <3>1. /\ e \o v \in Seq(Nat) /\ Len(e \o v) = Len(e) + Len(v)
          /\ \A g \in 1..Len(e) + Len(v) : (e \o v)[g] = IF g <= Len(e) THEN e[g] ELSE v[g - Len(e)]
      BY ONLY <1>1, <2>1, ConcatProperties
    <3>2. Len(e) = 1 /\ Len(v) = n
      BY <2>1 DEF n
    <3> QED BY ONLY <3>1, <3>2
  <2>3. \A g \in 1..n : g + 1 \in 1..1 + n /\ ~(g + 1 <= 1) /\ (g + 1) - 1 = g
    BY <1>1
  <2>4. 1 \in 1..1 + n /\ 1 + n = n + 1
    BY <1>1
  <2> QED BY <2>1, <2>2, <2>3, <2>4 DEF e
<1> HIDE DEF w, n, k, l
<1>4. \A g \in 1..n + 1 : g = 1 \/ (g - 1 \in 1..n /\ (g - 1) + 1 = g)
  BY <1>1
<1>5. \A g \in 1..n : v[g] \in Nat /\ a[i] < v[g]
  <2> SUFFICES ASSUME NEW g \in 1..n PROVE v[g] \in Nat /\ a[i] < v[g]
    OBVIOUS
  <2>1. PICK h \in i + 1..k : v[g] = a[h]
    BY <1>1
  <2>2. i \in 1..k /\ h \in 1..k /\ i < h
    BY <1>2, <2>1 DEF k
  <2> QED BY <1>2, <2>1, <2>2
<1>6. ASSUME NEW g \in 1..n + 1, NEW h \in 1..n + 1, g < h PROVE w[g] < w[h]
  <2>1. h - 1 \in 1..n /\ (h - 1) + 1 = h
    BY <1>1, <1>6
  <2>2. w[h] = v[h - 1]
    BY <1>3, <2>1
  <2>3. CASE g = 1
    BY <1>3, <1>5, <2>1, <2>2, <2>3
  <2>4. CASE g # 1
    <3>1. g - 1 \in 1..n /\ (g - 1) + 1 = g /\ g - 1 < h - 1
      BY <1>1, <1>6, <2>4
    <3> QED BY <1>1, <1>3, <2>1, <2>2, <3>1
  <2> QED BY <2>3, <2>4
<1>7. ASSUME NEW g \in 1..n + 1 PROVE \E h \in i..k : w[g] = a[h]
  <2>1. CASE g = 1
    <3>1. i \in i..k
      BY DEF k
    <3> QED BY <1>3, <2>1, <3>1
  <2>2. CASE g # 1
    <3>1. g - 1 \in 1..n /\ (g - 1) + 1 = g
      BY <1>4, <2>2
    <3>2. PICK h \in i + 1..k : v[g - 1] = a[h]
      BY <1>1, <3>1
    <3>3. h \in i..k
      OBVIOUS
    <3> QED BY <1>3, <3>1, <3>2, <3>3
  <2> QED BY <2>1, <2>2
<1>8. Names(w, a[i])
  <2>1. 1 \in 1..n + 1
    BY <1>1
  <2> QED BY <1>3, <2>1 DEF Names
<1>9. \A x : Names(v, x) => Names(w, x)
  <2> SUFFICES ASSUME NEW x, Names(v, x) PROVE Names(w, x)
    OBVIOUS
  <2>1. PICK g \in 1..n : v[g] = x
    BY DEF Names, n
  <2>2. g + 1 \in 1..n + 1
    BY <1>1
  <2> QED BY <1>3, <2>1, <2>2 DEF Names
<1>10. ASSUME NEW g \in i..k, NEW h \in j..l, a[g] = b[h] PROVE Names(w, a[g])
  <2>1. CASE g = i
    BY <1>8, <2>1
  <2>2. CASE g # i
    <3>1. g \in i + 1..k /\ g \in 1..k /\ i \in 1..k /\ i < g
      BY <2>2 DEF k
    <3>2. a[i] < a[g] /\ a[i] \in Nat /\ a[g] \in Nat
      BY <1>2, <3>1
    <3>3. h # j
      <4> SUFFICES ASSUME h = j PROVE FALSE
        OBVIOUS
      <4>1. a[g] = a[i]
        BY <1>10
      <4> QED BY <3>2, <4>1
    <3>4. h \in j + 1..l
      BY <3>3 DEF l
    <3>5. Names(v, a[g])
      BY <1>1, <1>10, <3>1, <3>4
    <3> QED BY <1>9, <3>5
  <2> QED BY <2>1, <2>2
<1> QED BY <1>3, <1>6, <1>7, <1>10 DEF Common, w, k, l

(* The lesser of two entries is in one list only.                           *)
LEMMA CommonSame ==
    ASSUME NEW a, NEW m, Rising(a, m), NEW b, Rising(b, m),
           NEW i \in 1..Len(a), NEW j \in 1..Len(b), NEW v
    PROVE  /\ a[i] < b[j] /\ Common(a, b, i + 1, j, v) => Common(a, b, i, j, v)
           /\ b[j] < a[i] /\ Common(a, b, i, j + 1, v) => Common(a, b, i, j, v)
<1> DEFINE n == Len(v)
           k == Len(a)
           l == Len(b)
<1>2. /\ a \in Seq(Nat) /\ k \in Nat /\ (\A g, h \in 1..k : g < h => a[g] < a[h])
      /\ b \in Seq(Nat) /\ l \in Nat /\ (\A g, h \in 1..l : g < h => b[g] < b[h])
      /\ (\A g \in 1..k : a[g] \in Nat) /\ (\A g \in 1..l : b[g] \in Nat)
  BY RisingIs
<1>3. ASSUME a[i] < b[j], Common(a, b, i + 1, j, v) PROVE Common(a, b, i, j, v)
  <2>1. /\ v \in Seq(Nat)
        /\ \A g, h \in 1..n : g < h => v[g] < v[h]
        /\ \A g \in 1..n : \E h \in i + 1..k : v[g] = a[h]
        /\ \A g \in i + 1..k, h \in j..l : a[g] = b[h] => Names(v, a[g])
    BY <1>3 DEF Common
  <2> HIDE DEF n, k, l
  <2>2. \A h \in i + 1..k : h \in i..k
    OBVIOUS
  <2>3. ASSUME NEW g \in i..k, NEW h \in j..l, a[g] = b[h] PROVE Names(v, a[g])
    <3>1. g # i
      <4> SUFFICES ASSUME g = i PROVE FALSE
        OBVIOUS
      <4>1. j \in 1..l /\ h \in 1..l /\ (h = j \/ j < h) /\ i \in 1..k
        BY <1>2 DEF l, k
      <4>2. b[j] \in Nat /\ b[h] \in Nat /\ a[i] \in Nat
        BY <1>2, <4>1
      <4>4. b[j] <= b[h]
        <5>1. j < h => b[j] < b[h]
          BY <1>2, <4>1
        <5>2. h = j => b[j] <= b[h]
          BY <4>2
        <5> QED BY <4>1, <4>2, <5>1, <5>2
      <4>3. a[i] = b[h]
        BY <2>3
      <4> QED BY <1>3, <4>2, <4>3, <4>4
    <3>2. g \in i + 1..k
      BY <3>1
    <3> QED BY <2>1, <2>3, <3>2
  <2>4. \A g \in 1..n : \E h \in i..k : v[g] = a[h]
    BY <2>1, <2>2
  <2> QED BY <2>1, <2>3, <2>4 DEF Common, n, k, l
<1>4. ASSUME b[j] < a[i], Common(a, b, i, j + 1, v) PROVE Common(a, b, i, j, v)
  <2>1. /\ v \in Seq(Nat)
        /\ \A g, h \in 1..n : g < h => v[g] < v[h]
        /\ \A g \in 1..n : \E h \in i..k : v[g] = a[h]
        /\ \A g \in i..k, h \in j + 1..l : a[g] = b[h] => Names(v, a[g])
    BY <1>4 DEF Common
  <2> HIDE DEF n, k, l
  <2>2. ASSUME NEW g \in i..k, NEW h \in j..l, a[g] = b[h] PROVE Names(v, a[g])
    <3>1. h # j
      <4> SUFFICES ASSUME h = j PROVE FALSE
        OBVIOUS
      <4>1. i \in 1..k /\ g \in 1..k /\ (g = i \/ i < g) /\ j \in 1..l
        BY <1>2 DEF k, l
      <4>2. a[i] <= a[g] /\ a[i] \in Nat /\ a[g] \in Nat /\ b[j] \in Nat
        BY <1>2, <4>1
      <4>3. a[g] = b[j]
        BY <2>2
      <4> QED BY <1>4, <4>2, <4>3
    <3>2. h \in j + 1..l
      BY <3>1
    <3> QED BY <2>1, <2>2, <3>2
  <2> QED BY <2>1, <2>2 DEF Common, n, k, l
<1> QED BY <1>3, <1>4

(* The walk along two posting lists finds every slot that both name.        *)
LEMMA IntersectIs ==
    ASSUME NEW m, NEW a, Rising(a, m), NEW b, Rising(b, m)
    PROVE  /\ Rising(intersectSorted(a, b), m)
           /\ \A x : Names(a, x) /\ Names(b, x) => Names(intersectSorted(a, b), x)
<1> DEFINE k == Len(a)
           l == Len(b)
           D == (1..k + 1) \X (1..l + 1)
           Same(f) == f = [p \in D |->
             LET i == p[1]
                 j == p[2]
             IN  IF i > k \/ j > l THEN <<>>
                 ELSE IF a[i] = b[j] THEN <<a[i]>> \o f[<<i + 1, j + 1>>]
                 ELSE IF a[i] < b[j] THEN f[<<i + 1, j>>] ELSE f[<<i, j + 1>>]]
           c == CHOOSE f : Same(f)
<1>1. intersectSorted(a, b) = c[<<1, 1>>]
  BY DEF intersectSorted
<1>2. /\ a \in Seq(Nat) /\ k \in Nat /\ b \in Seq(Nat) /\ l \in Nat
      /\ (\A g \in 1..k : a[g] \in Nat) /\ (\A g \in 1..l : b[g] \in Nat)
      /\ (\A g \in 1..k : a[g] <= m)
  BY DEF Rising
<1> DEFINE Over1(p) == p[1] > k \/ p[2] > l
           Onward(p) == IF a[p[1]] = b[p[2]] THEN <<p[1] + 1, p[2] + 1>>
                        ELSE IF a[p[1]] < b[p[2]] THEN <<p[1] + 1, p[2]>> ELSE <<p[1], p[2] + 1>>
           V == Seq(Nat)
           N == k + l + 2
           stop == {p \in D : Over1(p)}
           next == [p \in D \ stop |-> Onward(p)]
           r == [p \in D |-> (k + 1 - p[1]) + (l + 1 - p[2])]
           e == [p \in stop |-> <<>>]
           F == [x \in V \X D |-> IF ~Over1(x[2]) /\ a[x[2][1]] = b[x[2][2]] THEN <<a[x[2][1]]>> \o x[1] ELSE x[1]]
<1> HIDE DEF k, l
<1>3. \A p \in D : p[1] \in 1..k + 1 /\ p[2] \in 1..l + 1 /\ p = <<p[1], p[2]>>
  OBVIOUS
<1>4. \A p \in D : ~Over1(p) => p[1] \in 1..k /\ p[2] \in 1..l
  BY <1>2
<1>5. ASSUME NEW p \in D, ~Over1(p) PROVE Onward(p) \in D /\ r[Onward(p)] < r[p]
  <2>1. p[1] \in 1..k /\ p[2] \in 1..l
    BY <1>4, <1>5
  <2> DEFINE i == p[1]
             j == p[2]
  <2>2. i \in 1..k /\ j \in 1..l /\ i + 1 \in 1..k + 1 /\ j + 1 \in 1..l + 1 /\ i \in 1..k + 1 /\ j \in 1..l + 1
    BY <1>2, <2>1
  <2>3. r[p] = (k + 1 - i) + (l + 1 - j)
    OBVIOUS
  <2> HIDE DEF i, j
  <2>4. <<i + 1, j + 1>> \in D /\ <<i + 1, j>> \in D /\ <<i, j + 1>> \in D
    BY <2>2
  <2>5. /\ r[<<i + 1, j + 1>>] = (k + 1 - (i + 1)) + (l + 1 - (j + 1))
        /\ r[<<i + 1, j>>] = (k + 1 - (i + 1)) + (l + 1 - j)
        /\ r[<<i, j + 1>>] = (k + 1 - i) + (l + 1 - (j + 1))
    BY <2>4
  <2>6. Onward(p) \in {<<i + 1, j + 1>>, <<i + 1, j>>, <<i, j + 1>>}
    BY DEF i, j
  <2> HIDE DEF r, Onward, D
  <2>7. r[<<i + 1, j + 1>>] < r[p] /\ r[<<i + 1, j>>] < r[p] /\ r[<<i, j + 1>>] < r[p]
    BY <1>2, <2>2, <2>3, <2>5
  <2> QED BY <2>4, <2>6, <2>7
<1>6. Descends(D, N, r, stop, next)
  <2>1. r \in [D -> 0..N]
    <3> SUFFICES ASSUME NEW p \in D PROVE (k + 1 - p[1]) + (l + 1 - p[2]) \in 0..N
      OBVIOUS
    <3>1. p[1] \in 1..k + 1 /\ p[2] \in 1..l + 1
      BY <1>3
    <3> QED BY <1>2, <3>1
  <2>2. stop \in SUBSET D
    OBVIOUS
  <2>3. \A p \in D \ stop : next[p] = Onward(p) /\ ~Over1(p)
    OBVIOUS
  <2>4. N \in Nat
    BY <1>2
  <2>5. next = [p \in D \ stop |-> Onward(p)]
    OBVIOUS
  <2> HIDE DEF r, stop, next, D, N, Onward, Over1
  <2>6. next \in [D \ stop -> D]
    BY <1>5, <2>3, <2>5
  <2>7. \A p \in D \ stop : r[next[p]] < r[p]
    BY <1>5, <2>3
  <2> QED BY <2>1, <2>2, <2>4, <2>6, <2>7 DEF Descends
<1>7. e \in [stop -> V]
  <2>1. <<>> \in V
    OBVIOUS
  <2> QED BY <2>1
<1>8. F \in [V \X D -> V]
  <2> SUFFICES ASSUME NEW x \in V \X D
               PROVE (IF ~Over1(x[2]) /\ a[x[2][1]] = b[x[2][2]] THEN <<a[x[2][1]]>> \o x[1] ELSE x[1]) \in V
    OBVIOUS
  <2>1. x[1] \in V /\ x[2] \in D
    OBVIOUS
  <2>2. CASE ~Over1(x[2])
    <3>1. x[2][1] \in 1..k
      BY <1>4, <2>1, <2>2
    <3>2. <<a[x[2][1]]>> \in V
      BY <1>2, <3>1
    <3>3. <<a[x[2][1]]>> \o x[1] \in V
      BY <2>1, <3>2, ConcatProperties
    <3> QED BY <2>1, <3>3
  <2> QED BY <2>1, <2>2
<1>9. \A p \in D, v \in V : F[<<v, p>>] = IF ~Over1(p) /\ a[p[1]] = b[p[2]] THEN <<a[p[1]]>> \o v ELSE v
  OBVIOUS
<1>10. \A p \in D : p \in stop <=> Over1(p)
  OBVIOUS
<1>11. \A p \in D \ stop : next[p] = Onward(p) /\ next[p] \in D
  BY <1>5
<1>12. \A p \in stop : e[p] = <<>> /\ p \in D
  OBVIOUS
<1>13. <<1, 1>> \in D
  BY <1>2
<1> HIDE DEF F, r, stop, next, e, N
<1>14. Recursion(D, N, r, stop, next, V, e, F)
  BY <1>6, <1>7, <1>8 DEF Recursion
<1>15. PICK g \in [D -> V] :
         /\ \A p \in stop : g[p] = e[p]
         /\ \A p \in D \ stop : g[p] = F[<<g[next[p]], p>>]
  <2> HIDE DEF D, V
  <2> QED BY ONLY <1>14, Chain
<1> DEFINE Unrolled(f, p) ==
             IF Over1(p) THEN <<>>
             ELSE IF a[p[1]] = b[p[2]] THEN <<a[p[1]]>> \o f[Onward(p)] ELSE f[Onward(p)]
<1>16. \A p \in D : g[p] = Unrolled(g, p)
  <2> SUFFICES ASSUME NEW p \in D PROVE g[p] = Unrolled(g, p)
    OBVIOUS
  <2>1. CASE Over1(p)
    <3>1. g[p] = <<>>
      BY <1>10, <1>12, <1>15, <2>1
    <3> HIDE DEF Over1
    <3> QED BY <2>1, <3>1
  <2>2. CASE ~Over1(p)
    <3>1. p \in D \ stop /\ next[p] = Onward(p) /\ next[p] \in D
      BY <1>10, <1>11, <2>2
    <3> HIDE DEF Over1, Onward, D, V
    <3>2. g[next[p]] \in V
      BY <3>1
    <3>3. g[p] = F[<<g[next[p]], p>>]
      BY <1>15, <3>1
    <3> QED BY <1>9, <2>2, <3>1, <3>2, <3>3
  <2> QED BY <2>1, <2>2
<1>17. \A f : Same(f) <=> f = [p \in D |-> Unrolled(f, p)]
  <2> SUFFICES ASSUME NEW f, NEW p \in D
               PROVE (LET i == p[1]
                          j == p[2]
                      IN  IF i > k \/ j > l THEN <<>>
                          ELSE IF a[i] = b[j] THEN <<a[i]>> \o f[<<i + 1, j + 1>>]
                          ELSE IF a[i] < b[j] THEN f[<<i + 1, j>>] ELSE f[<<i, j + 1>>]) = Unrolled(f, p)
    <3> HIDE DEF Unrolled, D
    <3> QED OBVIOUS
  <2> QED OBVIOUS
<1>18. Same(g)
  <2> HIDE DEF Same, Unrolled, D, V
  <2>1. g = [p \in D |-> g[p]]
    OBVIOUS
  <2>2. g = [p \in D |-> Unrolled(g, p)]
    BY <1>16, <2>1
  <2> QED BY <1>17, <2>2
<1>19. \A p \in D : c[p] = Unrolled(c, p)
  <2>1. \E f : Same(f)
    <3> HIDE DEF Same
    <3> QED BY <1>18
  <2>2. Same(c)
    <3> HIDE DEF Same
    <3> QED BY <2>1
  <2> HIDE DEF Same, c, Unrolled, D
  <2> QED BY <1>17, <2>2
<1> HIDE DEF c, Same
<1> DEFINE Right(p) == Common(a, b, p[1], p[2], c[p])
           t == [p \in D |-> Right(p)]
           Yes == {TRUE}
<1>20. ASSUME NEW p \in stop PROVE Right(p)
  <2>1. p \in D /\ Over1(p)
    BY <1>10, <1>12
  <2>2. c[p] = <<>>
    BY <1>19, <2>1
  <2>3. <<>> \in Seq(Nat) /\ 1..Len(<<>>) = {}
    OBVIOUS
  <2>4. p[1]..k = {} \/ p[2]..l = {}
    BY <1>2, <1>3, <2>1
  <2> DEFINE no == <<>>
  <2> HIDE DEF no
  <2>5. Common(a, b, p[1], p[2], no)
    <3>1. no \in Seq(Nat) /\ 1..Len(no) = {}
      BY <2>3 DEF no
    <3> QED BY <2>4, <3>1 DEF Common, k, l
  <2> QED BY <2>2, <2>5 DEF no
<1>21. ASSUME NEW p \in D \ stop, Right(next[p]) PROVE Right(p)
  <2>1. p \in D /\ ~Over1(p) /\ next[p] = Onward(p)
    BY <1>10, <1>11
  <2> DEFINE i == p[1]
             j == p[2]
             v == c[Onward(p)]
  <2>2. i \in 1..k /\ j \in 1..l
    BY <1>4, <2>1
  <2>3. c[p] = IF a[i] = b[j] THEN <<a[i]>> \o v ELSE v
    BY <1>19, <2>1
  <2>4. Common(a, b, Onward(p)[1], Onward(p)[2], v)
    BY <1>21, <2>1
  <2>5. /\ a[i] = b[j] => Onward(p)[1] = i + 1 /\ Onward(p)[2] = j + 1
        /\ a[i] < b[j] => Onward(p)[1] = i + 1 /\ Onward(p)[2] = j
        /\ b[j] < a[i] => Onward(p)[1] = i /\ Onward(p)[2] = j + 1
        /\ a[i] = b[j] \/ a[i] < b[j] \/ b[j] < a[i]
        /\ a[i] \in Nat /\ b[j] \in Nat
    <3>1. a[i] \in Nat /\ b[j] \in Nat
      BY <1>2, <2>2
    <3>2. \A x, y \in Nat : /\ x = y \/ x < y \/ y < x
                            /\ x < y => x # y /\ ~(y < x)
                            /\ y < x => x # y /\ ~(x < y)
      OBVIOUS
    <3>3. \A x, y : <<x, y>>[1] = x /\ <<x, y>>[2] = y
      OBVIOUS
    <3> QED BY <3>1, <3>2, <3>3
  <2> HIDE DEF i, j, v, Onward
  <2>6. CASE a[i] = b[j]
    <3>1. Common(a, b, i + 1, j + 1, v)
      BY <2>4, <2>5, <2>6
    <3>2. Common(a, b, i, j, <<a[i]>> \o v)
      BY <2>2, <2>6, <3>1, CommonMore DEF k, l
    <3> QED BY <2>3, <2>6, <3>2 DEF i, j
  <2>7. CASE a[i] < b[j]
    <3>1. Common(a, b, i + 1, j, v) /\ a[i] # b[j]
      BY <2>4, <2>5, <2>7
    <3>2. Common(a, b, i, j, v)
      BY <2>2, <2>7, <3>1, CommonSame DEF k, l
    <3> QED BY <2>3, <3>1, <3>2 DEF i, j
  <2>8. CASE b[j] < a[i]
    <3>1. Common(a, b, i, j + 1, v) /\ a[i] # b[j]
      BY <2>4, <2>5, <2>8
    <3>2. Common(a, b, i, j, v)
      BY <2>2, <2>8, <3>1, CommonSame DEF k, l
    <3> QED BY <2>3, <3>1, <3>2 DEF i, j
  <2> QED BY <2>5, <2>6, <2>7, <2>8
<1>22. \A p \in D : Right(p)
  <2>1. \A p \in stop : t[p] \in Yes
    BY <1>12, <1>20
  <2>2. \A p \in D \ stop : t[next[p]] \in Yes => t[p] \in Yes
    BY <1>11, <1>21
  <2>3. \A p \in D : t[p] \in Yes => Right(p)
    <3> HIDE DEF Right, D
    <3> QED OBVIOUS
  <2> HIDE DEF D, t, Yes, Right
  <2>4. \A p \in D : t[p] \in Yes
    BY ONLY <1>6, <2>1, <2>2, ChainIn
  <2> QED BY <2>3, <2>4
<1>23. Common(a, b, 1, 1, c[<<1, 1>>])
  <2>1. Right(<<1, 1>>)
    <3> HIDE DEF Right, D
    <3> QED BY <1>13, <1>22
  <2> QED BY <2>1
<1> DEFINE v == c[<<1, 1>>]
<1> HIDE DEF v
<1>24. Common(a, b, 1, 1, v)
  BY <1>23 DEF v
<1>25. Rising(v, m)
  <2>1. /\ v \in Seq(Nat)
        /\ \A y, h \in 1..Len(v) : y < h => v[y] < v[h]
        /\ \A y \in 1..Len(v) : \E h \in 1..k : v[y] = a[h]
    BY <1>24 DEF Common, k
  <2> QED BY <1>2, <2>1 DEF Rising
<1>26. \A x : Names(a, x) /\ Names(b, x) => Names(v, x)
  <2>1. \A y \in 1..k, h \in 1..l : a[y] = b[h] => Names(v, a[y])
    BY <1>24 DEF Common, k, l
  <2> QED BY <2>1 DEF Names, k, l
<1> QED BY <1>1, <1>25, <1>26 DEF v

(* The intersection of some lists that all name x names it.                 *)
LEMMA FoldNames ==
    ASSUME NEW S, IsFiniteSet(S), NEW m, NEW x, \A a \in S : Rising(a, m) /\ Names(a, x),
           NEW a0, Rising(a0, m), Names(a0, x)
    PROVE  LET u == FoldSet(intersectSorted, a0, S) IN Rising(u, m) /\ Names(u, x)
<1> DEFINE V == {a \in Seq(Nat) : Rising(a, m) /\ Names(a, x)}
           D == SUBSET S
           c(s) == CHOOSE a \in s : TRUE
           Same(f) == f = [s \in D |-> IF s = {} THEN a0 ELSE intersectSorted(c(s), f[s \ {c(s)}])]
           F == [p \in V \X D |-> IF p[2] = {} THEN a0 ELSE intersectSorted(c(p[2]), p[1])]
           stop == {{}}
           b == [s \in stop |-> a0]
           h == CHOOSE f : Same(f)
           N == Cardinality(S)
           r == [s \in D |-> Cardinality(s)]
           next == [s \in D \ {{}} |-> s \ {c(s)}]
<1>1. a0 \in V /\ \A a \in S : a \in V
  BY RisingIs
<1>2. \A a, w \in V : intersectSorted(a, w) \in V
  <2> SUFFICES ASSUME NEW a \in V, NEW w \in V PROVE intersectSorted(a, w) \in V
    OBVIOUS
  <2>1. Rising(a, m) /\ Rising(w, m) /\ Names(a, x) /\ Names(w, x)
    OBVIOUS
  <2>2. Rising(intersectSorted(a, w), m) /\ Names(intersectSorted(a, w), x)
    BY <2>1, IntersectIs
  <2>3. intersectSorted(a, w) \in Seq(Nat)
    BY <2>2 DEF Rising
  <2> QED BY <2>2, <2>3
<1>3. FoldSet(intersectSorted, a0, S) = h[S]
  BY DEF FoldSet, MapThenFoldSet
<1>4. \A s \in D : s # {} => c(s) \in s /\ c(s) \in S /\ s \ {c(s)} \in D
  OBVIOUS
<1>5. \A a \in V : Rising(a, m) /\ Names(a, x)
  OBVIOUS
<1> HIDE DEF V, c
<1>12. N \in Nat /\ \A s \in D : IsFiniteSet(s) /\ Cardinality(s) \in 0..N
  <2>1. N \in Nat
    BY FS_CardinalityType
  <2> SUFFICES ASSUME NEW s \in D PROVE IsFiniteSet(s) /\ Cardinality(s) \in 0..N
    BY <2>1
  <2>2. IsFiniteSet(s) /\ Cardinality(s) <= N
    BY FS_Subset
  <2>3. Cardinality(s) \in Nat
    BY <2>2, FS_CardinalityType
  <2> HIDE DEF N
  <2> QED BY <2>1, <2>2, <2>3
<1>13. Descends(D, N, r, {{}}, next)
  <2>1. r \in [D -> 0..N] /\ {{}} \in SUBSET D /\ next \in [D \ {{}} -> D]
    BY <1>4, <1>12
  <2>2. ASSUME NEW s \in D \ {{}} PROVE r[next[s]] < r[s]
    <3>1. Cardinality(s \ {c(s)}) = Cardinality(s) - 1
      BY <1>4, <1>12, FS_RemoveElement
    <3>2. r[next[s]] = Cardinality(s \ {c(s)}) /\ r[s] = Cardinality(s)
      BY <1>4
    <3>3. Cardinality(s) \in Int
      BY <1>12
    <3> QED BY <3>1, <3>2, <3>3
  <2> HIDE DEF r, next, D, N
  <2> QED BY <1>12, <2>1, <2>2 DEF Descends
<1>6. F \in [V \X D -> V] /\ \A v \in V, s \in D : s # {} => F[<<v, s>>] = intersectSorted(c(s), v)
  BY <1>1, <1>2, <1>4
<1>7. b \in [stop -> V] /\ b[{}] = a0
  BY <1>1
<1>16. \A s \in D \ stop : next[s] = s \ {c(s)} /\ next[s] \in D /\ s # {}
  BY <1>4
<1>17. {} \in stop /\ {} \in D /\ \A s \in D : s # {} => s \in D \ stop
  OBVIOUS
<1>18. Descends(D, N, r, stop, next)
  BY <1>13
<1> HIDE DEF F, D, stop, next, r, N, b
<1>19. Recursion(D, N, r, stop, next, V, b, F)
  BY <1>6, <1>7, <1>18 DEF Recursion
<1>8. PICK g \in [D -> V] :
         /\ \A s \in stop : g[s] = b[s]
         /\ \A s \in D \ stop : g[s] = F[<<g[next[s]], s>>]
  BY ONLY <1>19, Chain
<1>9. Same(g)
  <2>1. \A s \in D : s # {} => g[s] = intersectSorted(c(s), g[s \ {c(s)}])
    <3> SUFFICES ASSUME NEW s \in D, s # {} PROVE g[s] = intersectSorted(c(s), g[s \ {c(s)}])
      OBVIOUS
    <3>1. next[s] = s \ {c(s)} /\ next[s] \in D /\ s \in D \ stop
      BY <1>16, <1>17
    <3>2. g[next[s]] \in V
      BY <1>8, <3>1
    <3> QED BY <1>6, <1>8, <3>1, <3>2
  <2>2. g = [s \in D |-> g[s]]
    OBVIOUS
  <2>3. g[{}] = a0
    BY <1>7, <1>8, <1>17
  <2> QED BY <2>1, <2>2, <2>3
<1>10. Same(h)
  <2>1. \E f : Same(f)
    <3> HIDE DEF Same
    <3> QED BY <1>9
  <2> HIDE DEF Same
  <2> QED BY <2>1
<1> HIDE DEF h
<1>11. h[{}] = a0 /\ \A s \in D : s # {} => h[s] = intersectSorted(c(s), h[s \ {c(s)}])
  BY <1>10, <1>17
<1>14. \A s \in D : h[s] \in V
  <2>1. \A s \in stop : h[s] \in V
    BY <1>1, <1>11 DEF stop
  <2>2. \A s \in D \ stop : h[next[s]] \in V => h[s] \in V
    <3> SUFFICES ASSUME NEW s \in D \ stop, h[next[s]] \in V PROVE h[s] \in V
      OBVIOUS
    <3>1. next[s] = s \ {c(s)} /\ s # {} /\ c(s) \in S
      BY <1>4, <1>16
    <3>2. h[s] = intersectSorted(c(s), h[next[s]])
      BY <1>11, <3>1
    <3> QED BY <1>1, <1>2, <3>1, <3>2
  <2> QED BY ONLY <1>18, <2>1, <2>2, ChainIn
<1>15. S \in D
  BY DEF D
<1> QED BY <1>3, <1>5, <1>14, <1>15

(* One of some lists is the shortest.                                       *)
LEMMA Shortest ==
    ASSUME NEW S, S # {}, \A a \in S : Len(a) \in Nat
    PROVE  (CHOOSE a \in S : \A b \in S : Len(a) <= Len(b)) \in S
<1> DEFINE L == {Len(a) : a \in S}
<1>1. L \in SUBSET Nat /\ L # {}
  OBVIOUS
<1>2. PICK n \in L : \A k \in L : n <= k
  <2> HIDE DEF L
  <2> QED BY <1>1, LeastNatural
<1>3. \E a \in S : \A b \in S : Len(a) <= Len(b)
  BY <1>2
<1> QED BY <1>3

(* A text that contains every trigram of a query is a candidate.            *)
LEMMA Candidates ==
    ASSUME NEW T, T \in Trigrams, Searchable(T), NEW q \in Seq(Characters), Len(q) >= Size,
           NEW id \in DOMAIN T.store, trigramsOf(q) \subseteq trigramsOf(T.store[id])
    PROVE  id \in candidateIdsFor(T, q)
<1> DEFINE tris == trigramsOf(q)
           lists == {T.postings[tri] : tri \in tris}
           shortest == CHOOSE a \in lists : \A b \in lists : Len(a) <= Len(b)
           slots == FoldSet(intersectSorted, shortest, lists)
           m == Len(T.ids)
           x == T.idIndex[id]
<1>1. /\ T.idIndex[id] \in 1..Len(T.ids) /\ T.ids[T.idIndex[id]] = id
      /\ \A tri \in DOMAIN T.postings : Rising(T.postings[tri], Len(T.ids))
      /\ \A tri \in trigramsOf(T.store[id]) :
            tri \in DOMAIN T.postings /\ Names(T.postings[tri], T.idIndex[id])
  BY DEF Searchable
<1>2. \A tri \in tris : tri \in DOMAIN T.postings /\ Rising(T.postings[tri], m) /\ Names(T.postings[tri], x)
  BY <1>1
<1>3. IsFiniteSet(tris) /\ tris # {}
  <2> DEFINE k == Len(asciiLower(q)) - Size + 1
             f == [i \in 1..k |-> SubSeq(asciiLower(q), i, i + Size - 1)]
  <2>1. k \in Nat /\ k >= 1
    <3>1. Len(asciiLower(q)) = Len(q) /\ Len(q) \in Nat /\ Size = 3
      BY LowerIs DEF Size
    <3> QED BY <3>1
  <2>2. tris = {SubSeq(asciiLower(q), i, i + Size - 1) : i \in 1..k}
    BY DEF trigramsOf
  <2>3. IsFiniteSet(1..k)
    BY <2>1, FS_Interval
  <2>4. tris # {}
    <3>1. 1 \in 1..k
      BY <2>1
    <3>2. SubSeq(asciiLower(q), 1, 1 + Size - 1) \in tris
      BY <2>2, <3>1
    <3> QED BY <3>2
  <2> HIDE DEF k, tris
  <2>5. f \in Surjection(1..k, tris)
    BY <2>2 DEF Surjection
  <2> HIDE DEF f
  <2>6. IsFiniteSet(tris)
    BY ONLY <2>3, <2>5, FS_Surjection
  <2> QED BY <2>4, <2>6
<1>4. IsFiniteSet(lists) /\ lists # {}
  <2> DEFINE f == [tri \in tris |-> T.postings[tri]]
  <2>1. lists # {}
    BY <1>3
  <2>2. \A a : a \in lists <=> \E tri \in tris : a = f[tri]
    OBVIOUS
  <2>3. DOMAIN f = tris /\ f = [tri \in tris |-> f[tri]]
    OBVIOUS
  <2> HIDE DEF lists, f, tris
  <2>4. f \in Surjection(tris, lists)
    BY <2>2, <2>3 DEF Surjection
  <2>5. IsFiniteSet(lists)
    BY ONLY <1>3, <2>4, FS_Surjection
  <2> QED BY <2>1, <2>5
<1>5. \A a \in lists : Rising(a, m) /\ Names(a, x)
  BY <1>2
<1>6. shortest \in lists
  <2>1. \A a \in lists : Len(a) \in Nat
    BY <1>5, RisingIs
  <2> HIDE DEF lists
  <2> QED BY <1>4, <2>1, Shortest
<1> HIDE DEF lists, shortest, m, x
<1>7. Rising(slots, m) /\ Names(slots, x)
  <2>1. Rising(shortest, m) /\ Names(shortest, x)
    BY <1>5, <1>6
  <2> QED BY ONLY <1>4, <1>5, <2>1, FoldNames
<1> HIDE DEF slots
<1>8. PICK h \in 1..Len(slots) : slots[h] = x
  BY <1>7 DEF Names
<1>9. h \in DOMAIN slots
  BY <1>7 DEF Rising
<1>10. T.ids[slots[h]] = id
  BY <1>1, <1>8 DEF x
<1>11. id # Gone
  <2>1. id \in Ids
    BY TrigramParts
  <2> QED BY <2>1, IdsAssumption DEF Gone
<1>12. ~(tris = {} \/ ~ tris \subseteq DOMAIN T.postings)
  BY <1>2, <1>3
<1>13. candidateIdsFor(T, q) = {T.ids[slots[i]] : i \in DOMAIN slots} \ {Gone}
  BY <1>12 DEF candidateIdsFor, slots, shortest, lists
<1> QED BY <1>9, <1>10, <1>11, <1>13

(* The walk of a search through some entries.                               *)
SearchingReady(n, s, V, b, store, query, ignoreCase) ==
    /\ n \in Nat /\ DOMAIN s = 1..n /\ b \in V
    /\ \A v \in V, i \in 1..n : SearchEntry(store, query, ignoreCase, v, s[i]) \in V

SearchingRun(n, s, V, b, store, query, ignoreCase, h) ==
    /\ h \in [0..n -> V] /\ h[0] = b /\ h[n] = FoldLeft(LAMBDA acc, id : SearchEntry(store, query, ignoreCase, acc, id), b, s)
    /\ \A i \in 1..n : h[i] = SearchEntry(store, query, ignoreCase, h[i - 1], s[i])

(* The outcomes so far while a search walks its entries.                    *)
LEMMA Searching ==
    ASSUME NEW n, NEW s, NEW V, NEW b, NEW store, NEW query, NEW ignoreCase, SearchingReady(n, s, V, b, store, query, ignoreCase)
    PROVE  \E h : SearchingRun(n, s, V, b, store, query, ignoreCase, h)
<1> USE DEF SearchingReady
<1> DEFINE F == [p \in V \X (1..n) |-> SearchEntry(store, query, ignoreCase, p[1], s[p[2]])]
<1>1. \A v \in V, i \in 1..n : F[<<v, i>>] = SearchEntry(store, query, ignoreCase, v, s[i])
  OBVIOUS
<1>2. Loop(n, V, b, F)
  <2>1. F \in [V \X (1..n) -> V]
    OBVIOUS
  <2> HIDE DEF F
  <2> QED BY <2>1 DEF Loop
<1> HIDE DEF F
<1>3. PICK g : Unfolds(n, V, b, F, g) /\ Typed(n, V, g)
  BY <1>2, Fold
<1> DEFINE Same(f) == f = [x \in SUBSET (1..n) |->
                       IF x = {} THEN b ELSE SearchEntry(store, query, ignoreCase, f[x \ {Max(x)}], s[Max(x)])]
           c == CHOOSE f : Same(f)
<1>4. Same(g)
  <2>1. \A x \in SUBSET (1..n) : x # {} => g[x] = SearchEntry(store, query, ignoreCase, g[x \ {Max(x)}], s[Max(x)])
    BY <1>1, <1>3 DEF Unfolds, Typed
  <2>2. g[{}] = b /\ g = [x \in SUBSET (1..n) |-> g[x]]
    BY <1>3 DEF Unfolds, Typed
  <2> QED BY <2>1, <2>2
<1>5. c[1..n] = FoldLeft(LAMBDA acc, id : SearchEntry(store, query, ignoreCase, acc, id), b, s)
  BY DEF FoldLeft, MapThenFoldSet
<1>6. \E f : Same(f)
  <2> HIDE DEF Same
  <2> QED BY <1>4
<1>7. Same(c)
  <2> HIDE DEF Same
  <2> QED BY <1>6
<1> HIDE DEF c
<1>8. Unfolds(n, V, b, F, c)
  <2>1. c[{}] = b
    BY <1>7
  <2>2. ASSUME NEW x \in SUBSET (1..n), x # {}, c[x \ {Max(x)}] \in V
        PROVE c[x] = F[<<c[x \ {Max(x)}], Max(x)>>]
    <3>1. c[x] = SearchEntry(store, query, ignoreCase, c[x \ {Max(x)}], s[Max(x)])
      BY <1>7, <2>2
    <3>2. Max(x) \in 1..n
      BY <1>3, <2>2 DEF Typed
    <3> HIDE DEF Same
    <3> QED BY <1>1, <2>2, <3>1, <3>2
  <2> HIDE DEF Same
  <2> QED BY <2>1, <2>2 DEF Unfolds
<1>9. PICK h : Goes(n, V, b, F, h) /\ h[n] = c[1..n]
  BY <1>2, <1>8, History
<1>10. h \in [0..n -> V] /\ h[0] = b /\ \A i \in 1..n : h[i] = F[<<h[i - 1], i>>]
  BY <1>9 DEF Goes
<1>11. ASSUME NEW i \in 1..n PROVE h[i] = SearchEntry(store, query, ignoreCase, h[i - 1], s[i])
  <2>1. i - 1 \in 0..n
    OBVIOUS
  <2>2. h[i - 1] \in V
    BY <1>10, <2>1
  <2> QED BY <1>1, <1>10, <2>2
<1>12. SearchingRun(n, s, V, b, store, query, ignoreCase, h)
  BY <1>5, <1>9, <1>10, <1>11 DEF SearchingRun
<1> QED BY <1>12

Outcomes == [totalMatches : Nat, totalMementos : Nat, snippets : Seq(Ids \X Nat)]

Stores == Maps(Ids, Seq(Characters))

(* What a searcher holds of a memento is a text.                            *)
LEMMA StoreText ==
    ASSUME NEW S, S \in Stores, NEW id \in DOMAIN S
    PROVE  id \in Ids /\ S[id] \in Seq(Characters)
<1>1. DOMAIN S \in SUBSET Ids /\ S \in [DOMAIN S -> Seq(Characters)]
  BY MapsIs DEF Stores
<1> QED BY <1>1

(* A text that matches a query contains its trigrams: the trigram index may *)
(* skip the texts that do not.                                              *)
LEMMA MatchesType ==
    ASSUME NEW text \in Seq(Characters), NEW query \in Seq(Characters), query # <<>>, NEW ignoreCase \in BOOLEAN
    PROVE  /\ Matches(text, query, ignoreCase) \in Seq(Nat)
           /\ Matches(text, query, ignoreCase) # <<>> => trigramsOf(query) \subseteq trigramsOf(text)
<1> DEFINE a == asciiLower(query)
           b == asciiLower(text)
<1>1. a \in Seq(Characters) /\ b \in Seq(Characters) /\ Len(a) = Len(query)
  BY LowerIs
<1>2. a # <<>>
  <2>1. Len(query) # 0
    OBVIOUS
  <2> HIDE DEF a
  <2> QED BY <1>1, <2>1
<1> HIDE DEF a, b
<1>3. /\ MatchRanges(a, b) \in Seq(Nat)
      /\ MatchRanges(a, b) # <<>> => Hits(a, b, 1) # {}
  BY <1>1, <1>2, RangesAre
<1>4. /\ MatchRanges(query, text) \in Seq(Nat)
      /\ MatchRanges(query, text) # <<>> => Hits(query, text, 1) # {}
  BY RangesAre
<1>5. Matches(text, query, ignoreCase) = IF ignoreCase THEN MatchRanges(a, b) ELSE MatchRanges(query, text)
  BY DEF Matches, a, b
<1>6. Hits(a, b, 1) # {} \/ Hits(query, text, 1) # {} => trigramsOf(query) \subseteq trigramsOf(text)
  BY HitTrigrams DEF a, b
<1> QED BY <1>3, <1>4, <1>5, <1>6

(* An entry without a match leaves a search as it was.                      *)
LEMMA EntryType ==
    ASSUME NEW S, S \in Stores, NEW id \in DOMAIN S,
           NEW query \in Seq(Characters), query # <<>>, NEW ignoreCase \in BOOLEAN,
           NEW acc, acc \in Outcomes
    PROVE  /\ SearchEntry(S, query, ignoreCase, acc, id) \in Outcomes
           /\ Matches(S[id], query, ignoreCase) = <<>> => SearchEntry(S, query, ignoreCase, acc, id) = acc
<1> DEFINE ranges == Matches(S[id], query, ignoreCase)
           room == Least(MaxPerMemento, MaxSnippets - Len(acc.snippets))
           n == Least(Len(ranges), room)
           shown == SubSeq(ranges, 1, n)
           more == [h \in DOMAIN shown |-> <<id, shown[h]>>]
           R == SearchEntry(S, query, ignoreCase, acc, id)
           old == acc.snippets
<1>1. ranges \in Seq(Nat) /\ id \in Ids
  BY StoreText, MatchesType
<1>2. acc = [totalMatches |-> acc.totalMatches, totalMementos |-> acc.totalMementos, snippets |-> old]
      /\ acc.totalMatches \in Nat /\ acc.totalMementos \in Nat /\ old \in Seq(Ids \X Nat)
  BY DEF Outcomes
<1>3. R = [totalMatches |-> acc.totalMatches + Len(ranges),
           totalMementos |-> acc.totalMementos + (IF ranges = <<>> THEN 0 ELSE 1),
           snippets |-> old \o more]
  BY DEF SearchEntry
<1> HIDE DEF ranges, old, R
<1>4. Len(ranges) \in Nat /\ Len(old) \in Nat
  BY <1>1, <1>2
<1>5. n \in Int /\ n <= Len(ranges)
  <2>1. room \in Int
    BY <1>4, LimitsAssumption DEF Least
  <2> HIDE DEF room
  <2> QED BY <1>4, <2>1 DEF Least
<1> HIDE DEF n
<1>6. shown \in Seq(Nat) /\ Len(shown) = IF 1 <= n THEN n ELSE 0
  <2>1. \A i \in 1..n : i \in 1..Len(ranges)
    BY <1>4, <1>5
  <2>2. \A i \in 1..n : ranges[i] \in Nat
    BY <1>1, <2>1
  <2>3. /\ SubSeq(ranges, 1, n) \in Seq(Nat)
        /\ Len(SubSeq(ranges, 1, n)) = IF 1 <= n THEN n - 1 + 1 ELSE 0
    BY ONLY <1>5, <2>2, SubSeqProperties
  <2> QED BY <1>5, <2>3
<1> HIDE DEF shown
<1>7. more \in Seq(Ids \X Nat) /\ Len(more) = Len(shown)
  <2>1. DOMAIN shown = 1..Len(shown) /\ Len(shown) \in Nat /\ \A h \in 1..Len(shown) : shown[h] \in Nat
    BY <1>6
  <2>2. more \in [1..Len(shown) -> Ids \X Nat]
    BY <1>1, <2>1
  <2> HIDE DEF more
  <2> QED BY <2>1, <2>2
<1> HIDE DEF more
<1>8. old \o more \in Seq(Ids \X Nat)
  <2> DEFINE X == Ids \X Nat
  <2>1. old \in Seq(X) /\ more \in Seq(X)
    BY <1>2, <1>7
  <2> HIDE DEF X
  <2>2. old \o more \in Seq(X)
    BY ONLY <2>1, ConcatProperties
  <2> QED BY <2>2 DEF X
<1>9. R \in Outcomes
  <2>1. acc.totalMatches + Len(ranges) \in Nat /\ acc.totalMementos + (IF ranges = <<>> THEN 0 ELSE 1) \in Nat
    BY <1>2, <1>4
  <2> QED BY <1>3, <1>8, <2>1 DEF Outcomes
<1>10. ASSUME ranges = <<>> PROVE R = acc
  <2>1. Len(ranges) = 0
    BY <1>10
  <2>2. Len(more) = 0
    BY <1>5, <1>6, <1>7, <2>1
  <2>3. old \o more = old
    <3>1. more = <<>>
      BY <1>7, <2>2
    <3> DEFINE X == Ids \X Nat
    <3>2. old \in Seq(X)
      BY <1>2
    <3> HIDE DEF X
    <3>3. old \o <<>> = old
      BY ONLY <3>2, ConcatEmptySeq
    <3> QED BY <3>1, <3>3
  <2>4. acc.totalMatches + 0 = acc.totalMatches /\ acc.totalMementos + 0 = acc.totalMementos
    BY <1>2
  <2> QED BY <1>2, <1>3, <1>10, <2>1, <2>3, <2>4
<1> QED BY <1>9, <1>10 DEF R, ranges

(* A walk through some places of an array, in order, is a walk through all  *)
(* that does nothing at the others.                                         *)
SkipsReady(n, m, P, order, a, h, F) ==
    /\ n \in Nat /\ m \in Nat /\ P \in SUBSET (1..n) /\ order \in [1..m -> P]
    /\ \A i, j \in 1..m : i < j => order[i] < order[j]
    /\ \A x \in P : \E i \in 1..m : order[i] = x
    /\ a[0] = h[0]
    /\ \A j \in 1..n : a[j] = IF j \in P THEN F[<<a[j - 1], j>>] ELSE a[j - 1]
    /\ \A i \in 1..m : h[i] = F[<<h[i - 1], order[i]>>]

(* A walk through some places of an array, in order, is a walk through all  *)
(* that does nothing at the others.                                         *)
LEMMA Skips ==
    ASSUME NEW n, NEW m, NEW P, NEW order, NEW a, NEW h, NEW F, SkipsReady(n, m, P, order, a, h, F)
    PROVE  a[n] = h[m]
<1> USE DEF SkipsReady
<1> DEFINE At(j, i) == /\ a[j] = h[i]
                       /\ \A k \in 1..m : k <= i => order[k] <= j
                       /\ \A k \in 1..m : k > i => order[k] > j
           T == {j \in 0..n : \E i \in 0..m : At(j, i)}
<1>1. \A i \in 1..m : order[i] \in P /\ order[i] \in Nat /\ order[i] >= 1 /\ order[i] <= n
  <2> SUFFICES ASSUME NEW i \in 1..m
               PROVE order[i] \in P /\ order[i] \in Nat /\ order[i] >= 1 /\ order[i] <= n
    OBVIOUS
  <2>1. order[i] \in P
    OBVIOUS
  <2>2. order[i] \in 1..n
    BY <2>1
  <2> QED BY <2>1, <2>2
<1>2. 0 \in T
  <2>1. At(0, 0)
    BY <1>1
  <2>2. 0 \in 0..m /\ 0 \in 0..n
    OBVIOUS
  <2> HIDE DEF At
  <2> QED BY <2>1, <2>2
<1>3. ASSUME NEW j \in 0..n - 1, j \in T PROVE j + 1 \in T
  <2>1. PICK i \in 0..m : At(j, i)
    BY <1>3
  <2>2. j + 1 \in 1..n /\ (j + 1) - 1 = j /\ j \in Nat /\ j + 1 \in 0..n /\ i \in Nat
    OBVIOUS
  <2>3. /\ a[j] = h[i]
        /\ \A k \in 1..m : k <= i => order[k] <= j
        /\ \A k \in 1..m : k > i => order[k] > j
    BY <2>1
  <2>4. CASE j + 1 \in P
    <3>1. PICK k \in 1..m : order[k] = j + 1
      BY <2>4
    <3>2. k > i
      BY <1>1, <2>2, <2>3, <3>1
    <3>3. i + 1 \in 1..m /\ i + 1 > i /\ (i + 1) - 1 = i /\ i + 1 \in 0..m
      BY <2>2, <3>2
    <3>4. order[i + 1] > j
      BY <2>3, <3>3
    <3>5. k = i + 1
      <4>1. k > i + 1 => order[i + 1] < order[k]
        BY <3>3
      <4>2. order[i + 1] \in Nat
        BY <1>1, <3>3
      <4> QED BY <2>2, <3>1, <3>2, <3>3, <3>4, <4>1, <4>2
    <3>6. h[i + 1] = F[<<h[i], j + 1>>]
      BY <3>1, <3>3, <3>5
    <3>7. a[j + 1] = F[<<a[j], j + 1>>]
      BY <2>2, <2>4
    <3>8. ASSUME NEW g \in 1..m, g <= i + 1 PROVE order[g] <= j + 1
      <4>1. order[g] \in Nat /\ (g <= i \/ g = i + 1)
        BY <1>1, <2>2, <3>8
      <4>2. CASE g <= i
        <5>1. order[g] <= j
          BY <2>3, <4>2
        <5> QED BY <2>2, <4>1, <5>1
      <4>3. CASE g = i + 1
        BY <2>2, <3>1, <3>5, <4>3
      <4> QED BY <4>1, <4>2, <4>3
    <3>9. ASSUME NEW g \in 1..m, g > i + 1 PROVE order[g] > j + 1
      BY <3>1, <3>3, <3>5, <3>9
    <3>10. At(j + 1, i + 1)
      BY <2>3, <3>6, <3>7, <3>8, <3>9
    <3> HIDE DEF At
    <3> QED BY <2>2, <3>3, <3>10
  <2>5. CASE j + 1 \notin P
    <3>1. a[j + 1] = a[j]
      BY <2>2, <2>5
    <3>2. ASSUME NEW g \in 1..m, g <= i PROVE order[g] <= j + 1
      BY <1>1, <2>2, <2>3, <3>2
    <3>3. ASSUME NEW g \in 1..m, g > i PROVE order[g] > j + 1
      <4>1. order[g] > j /\ order[g] # j + 1 /\ order[g] \in Nat
        BY <1>1, <2>3, <2>5, <3>3
      <4> QED BY <2>2, <4>1
    <3>4. At(j + 1, i)
      BY <2>3, <3>1, <3>2, <3>3
    <3> HIDE DEF At
    <3> QED BY <2>2, <3>4
  <2> QED BY <2>4, <2>5
<1>4. \A j \in 0..n : j \in T
  <2> HIDE DEF T
  <2> QED BY <1>2, <1>3, UpTo
<1>5. PICK i \in 0..m : At(n, i)
  BY <1>4
<1>6. i = m
  <2>1. \A k \in 1..m : k > i => order[k] > n
    BY <1>5
  <2>2. i # m => i + 1 \in 1..m /\ i + 1 > i
    OBVIOUS
  <2> QED BY <1>1, <2>1, <2>2
<1> QED BY <1>5, <1>6

(* The walks of a search: one through what is kept of an array is one       *)
(* through the whole of it.                                                 *)
WalkReady(S, query, ignoreCase, X, ids, n, P, a) ==
    /\ S \in Stores /\ query \in Seq(Characters) /\ query # <<>> /\ ignoreCase \in BOOLEAN
    /\ ids \in Seq(X) /\ n = Len(ids) /\ P \in SUBSET DOMAIN ids
    /\ \A j \in P : ids[j] \in DOMAIN S
    /\ a[0] = NoMatches /\ \A j \in 0..n : a[j] \in Outcomes
    /\ \A j \in 1..n : a[j] = IF ids[j] \in DOMAIN S
                               THEN SearchEntry(S, query, ignoreCase, a[j - 1], ids[j]) ELSE a[j - 1]
    /\ \A j \in 1..n : ids[j] \in DOMAIN S /\ j \notin P => Matches(S[ids[j]], query, ignoreCase) = <<>>

(* A search through what is kept of the mementos is one through them all,   *)
(* if what is left out has no match.                                        *)
LEMMA SearchWalk ==
    ASSUME NEW S, NEW query, NEW ignoreCase, NEW X, NEW ids, NEW n, NEW P, NEW a,
           WalkReady(S, query, ignoreCase, X, ids, n, P, a)
    PROVE  runTextSearch(S, Kept(ids, P), query, ignoreCase) = a[n]
<1> USE DEF WalkReady
<1> DEFINE m == Cardinality(P)
           k == Kept(ids, P)
           F == [p \in Outcomes \X (1..n) |-> IF ids[p[2]] \in DOMAIN S
                    THEN SearchEntry(S, query, ignoreCase, p[1], ids[p[2]]) ELSE p[1]]
<1>a. ids \in Seq(X) /\ P \in SUBSET DOMAIN ids
  OBVIOUS
<1>1. /\ m \in Nat /\ k \in Seq(X) /\ Len(k) = m /\ DOMAIN k = 1..m
      /\ \E order \in [1..m -> P] :
            /\ \A i, j \in 1..m : i < j => order[i] < order[j]
            /\ \A x \in P : \E i \in 1..m : order[i] = x
            /\ \A i \in 1..m : k[i] = ids[order[i]]
  <2>1. IsKept(X, ids, P, m, k)
    BY ONLY <1>a, KeptIs DEF m, k
  <2> HIDE DEF m, k
  <2> QED BY ONLY <2>1 DEF IsKept
<1>2. n \in Nat /\ DOMAIN ids = 1..n
  OBVIOUS
<1> HIDE DEF m, k
<1>3. PICK order \in [1..m -> P] :
            /\ \A i, j \in 1..m : i < j => order[i] < order[j]
            /\ \A x \in P : \E i \in 1..m : order[i] = x
            /\ \A i \in 1..m : k[i] = ids[order[i]]
  BY <1>1
<1>4. \A i \in 1..m : order[i] \in P /\ order[i] \in 1..n /\ k[i] = ids[order[i]] /\ k[i] \in DOMAIN S
  <2> SUFFICES ASSUME NEW i \in 1..m
               PROVE order[i] \in P /\ order[i] \in 1..n /\ k[i] = ids[order[i]] /\ k[i] \in DOMAIN S
    OBVIOUS
  <2>1. order[i] \in P /\ k[i] = ids[order[i]]
    BY <1>3
  <2> QED BY <1>2, <2>1
<1>5. NoMatches \in Outcomes
  <2>1. <<>> \in Seq(Ids \X Nat)
    OBVIOUS
  <2> DEFINE no == <<>>
  <2>2. NoMatches = [totalMatches |-> 0, totalMementos |-> 0, snippets |-> no]
    BY DEF NoMatches
  <2>3. no \in Seq(Ids \X Nat)
    BY <2>1
  <2> HIDE DEF no
  <2> QED BY <2>2, <2>3 DEF Outcomes
<1>6. \A v \in Outcomes, id \in DOMAIN S :
         /\ SearchEntry(S, query, ignoreCase, v, id) \in Outcomes
         /\ Matches(S[id], query, ignoreCase) = <<>> => SearchEntry(S, query, ignoreCase, v, id) = v
  BY EntryType
<1>7. SearchingReady(m, k, Outcomes, NoMatches, S, query, ignoreCase)
  <2>1. \A v \in Outcomes, i \in 1..m : SearchEntry(S, query, ignoreCase, v, k[i]) \in Outcomes
    BY <1>4, <1>6
  <2> QED BY <1>1, <1>5, <2>1 DEF SearchingReady
<1>8. PICK h : SearchingRun(m, k, Outcomes, NoMatches, S, query, ignoreCase, h)
  BY <1>7, Searching
<1>9. h \in [0..m -> Outcomes] /\ h[0] = NoMatches
      /\ \A i \in 1..m : h[i] = SearchEntry(S, query, ignoreCase, h[i - 1], k[i])
  BY <1>8 DEF SearchingRun
<1>10. h[m] = runTextSearch(S, k, query, ignoreCase)
  BY <1>8 DEF SearchingRun, runTextSearch
<1>11. \A v \in Outcomes, j \in 1..n : F[<<v, j>>] = IF ids[j] \in DOMAIN S
                    THEN SearchEntry(S, query, ignoreCase, v, ids[j]) ELSE v
  OBVIOUS
<1> HIDE DEF F
<1>12. \A j \in 1..n : a[j - 1] \in Outcomes /\ j - 1 \in 0..n
  BY <1>2
<1>13. \A j \in 1..n : a[j] = IF j \in P THEN F[<<a[j - 1], j>>] ELSE a[j - 1]
  <2> SUFFICES ASSUME NEW j \in 1..n PROVE a[j] = IF j \in P THEN F[<<a[j - 1], j>>] ELSE a[j - 1]
    OBVIOUS
  <2>1. a[j - 1] \in Outcomes
    BY <1>12
  <2>2. a[j] = IF ids[j] \in DOMAIN S THEN SearchEntry(S, query, ignoreCase, a[j - 1], ids[j]) ELSE a[j - 1]
    OBVIOUS
  <2>3. CASE j \in P
    BY <1>11, <2>1, <2>2, <2>3
  <2>4. CASE j \notin P /\ ids[j] \in DOMAIN S
    <3>1. Matches(S[ids[j]], query, ignoreCase) = <<>>
      BY <2>4
    <3>2. SearchEntry(S, query, ignoreCase, a[j - 1], ids[j]) = a[j - 1]
      BY <1>6, <2>1, <2>4, <3>1
    <3> QED BY <2>2, <2>4, <3>2
  <2>5. CASE j \notin P /\ ids[j] \notin DOMAIN S
    BY <2>2, <2>5
  <2> QED BY <2>3, <2>4, <2>5
<1>14. \A i \in 1..m : h[i] = F[<<h[i - 1], order[i]>>]
  <2> SUFFICES ASSUME NEW i \in 1..m PROVE h[i] = F[<<h[i - 1], order[i]>>]
    OBVIOUS
  <2>1. i - 1 \in 0..m
    BY <1>1
  <2>2. h[i - 1] \in Outcomes
    BY <1>9, <2>1
  <2> QED BY <1>4, <1>9, <1>11, <2>2
<1>15. a[0] = h[0] /\ P \in SUBSET (1..n)
  BY <1>2, <1>9
<1>16. a[n] = h[m]
  <2>1. SkipsReady(n, m, P, order, a, h, F)
    BY ONLY <1>1, <1>2, <1>3, <1>13, <1>14, <1>15, order \in [1..m -> P] DEF SkipsReady
  <2> QED BY ONLY <2>1, Skips
<1> QED BY <1>10, <1>16 DEF k

(* The trigram searcher finds what a walk through all texts finds.          *)
LEMMA SameSearch ==
    ASSUME NEW T, T \in Trigrams, Searchable(T), NEW query \in Seq(Characters), Len(query) >= Size,
           NEW ignoreCase \in BOOLEAN, NEW X, NEW ids \in Seq(X)
    PROVE  /\ trigramSearch(T, query, ids, ignoreCase) = scanSearch(T.store, query, ids, ignoreCase)
           /\ ids = <<>> => scanSearch(T.store, query, ids, ignoreCase).totalMatches = 0
<1> DEFINE S == T.store
           n == Len(ids)
           P1 == {j \in DOMAIN ids : ids[j] \in DOMAIN S \cap DOMAIN S}
           P2 == {j \in DOMAIN ids : ids[j] \in DOMAIN S \cap candidateIdsFor(T, query)}
           F == [p \in Outcomes \X (1..n) |-> IF ids[p[2]] \in DOMAIN S
                    THEN SearchEntry(S, query, ignoreCase, p[1], ids[p[2]]) ELSE p[1]]
<1>1. S \in Stores
  BY DEF Trigrams, Stores
<1>2. query # <<>> /\ ~(Len(query) < Size)
  <2>1. Len(<<>>) = 0 /\ Size = 3 /\ Len(query) \in Nat
    BY DEF Size
  <2> QED BY <2>1
<1>3. n \in Nat /\ DOMAIN ids = 1..n
  OBVIOUS
<1>4. NoMatches \in Outcomes /\ NoMatches.totalMatches = 0
  <2> DEFINE no == <<>>
  <2>1. NoMatches = [totalMatches |-> 0, totalMementos |-> 0, snippets |-> no]
    BY DEF NoMatches
  <2>2. no \in Seq(Ids \X Nat)
    OBVIOUS
  <2> HIDE DEF no
  <2> QED BY <2>1, <2>2 DEF Outcomes
<1>5. \A v \in Outcomes, id \in DOMAIN S : SearchEntry(S, query, ignoreCase, v, id) \in Outcomes
  BY <1>1, <1>2, EntryType
<1>6. F \in [Outcomes \X (1..n) -> Outcomes]
  BY <1>5
<1>7. \A v \in Outcomes, j \in 1..n : F[<<v, j>>] = IF ids[j] \in DOMAIN S
                    THEN SearchEntry(S, query, ignoreCase, v, ids[j]) ELSE v
  OBVIOUS
<1>8. ASSUME NEW id \in DOMAIN S, Matches(S[id], query, ignoreCase) # <<>>
      PROVE id \in candidateIdsFor(T, query)
  <2>1. S[id] \in Seq(Characters)
    BY <1>1, StoreText
  <2>2. trigramsOf(query) \subseteq trigramsOf(S[id])
    BY <1>2, <1>8, <2>1, MatchesType
  <2> QED BY <2>2, Candidates
<1>9. /\ trigramSearch(T, query, ids, ignoreCase) = runTextSearch(S, Kept(ids, P2), query, ignoreCase)
      /\ scanSearch(T.store, query, ids, ignoreCase) = runTextSearch(S, Kept(ids, P1), query, ignoreCase)
  BY <1>2 DEF trigramSearch, scanSearch, Entries
<1>10. /\ P1 \in SUBSET DOMAIN ids /\ P2 \in SUBSET DOMAIN ids
       /\ \A j \in P1 \cup P2 : ids[j] \in DOMAIN S
       /\ \A j \in 1..n : ids[j] \in DOMAIN S => j \in P1
       /\ \A j \in 1..n : ids[j] \in DOMAIN S /\ j \notin P2 => Matches(S[ids[j]], query, ignoreCase) = <<>>
  BY <1>3, <1>8
<1> HIDE DEF S, n, P1, P2, F
<1>11. PICK a : Goes(n, Outcomes, NoMatches, F, a)
  <2>1. Loop(n, Outcomes, NoMatches, F)
    BY <1>3, <1>4, <1>6 DEF Loop
  <2> QED BY <2>1, Turns
<1>12. /\ a[0] = NoMatches /\ (\A j \in 0..n : a[j] \in Outcomes)
       /\ \A j \in 1..n : a[j] = F[<<a[j - 1], j>>]
  BY <1>11 DEF Goes
<1>13. \A j \in 1..n : a[j] = IF ids[j] \in DOMAIN S
                  THEN SearchEntry(S, query, ignoreCase, a[j - 1], ids[j]) ELSE a[j - 1]
  <2> SUFFICES ASSUME NEW j \in 1..n
               PROVE a[j] = IF ids[j] \in DOMAIN S
                       THEN SearchEntry(S, query, ignoreCase, a[j - 1], ids[j]) ELSE a[j - 1]
    OBVIOUS
  <2>1. j - 1 \in 0..n
    BY <1>3
  <2> QED BY <1>7, <1>12, <2>1
<1>14. n = Len(ids)
  BY DEF n
<1>15. runTextSearch(S, Kept(ids, P1), query, ignoreCase) = a[n]
  <2>1. WalkReady(S, query, ignoreCase, X, ids, n, P1, a)
    BY <1>1, <1>2, <1>10, <1>12, <1>13, <1>14 DEF WalkReady
  <2> QED BY ONLY <2>1, SearchWalk
<1>16. runTextSearch(S, Kept(ids, P2), query, ignoreCase) = a[n]
  <2>1. WalkReady(S, query, ignoreCase, X, ids, n, P2, a)
    BY <1>1, <1>2, <1>10, <1>12, <1>13, <1>14 DEF WalkReady
  <2> QED BY ONLY <2>1, SearchWalk
<1>17. ids = <<>> => a[n].totalMatches = 0
  <2>1. ids = <<>> => n = 0
    BY <1>14
  <2> QED BY <1>4, <1>12, <2>1
<1> QED BY <1>9, <1>15, <1>16, <1>17

(* The mementos a search goes through are a list.                           *)
LEMMA OrderedIs ==
    ASSUME FilesOK, Sound(ram, overwritten, mode), NEW filtered
    PROVE  \E X : Ordered(filtered) \in Seq(X)
<1> DEFINE A == Allowed(filtered)
           n == Cardinality(A)
           place == [x \in A |-> 1 + Cardinality({y \in A : Newest(ram, y) > Newest(ram, x)})]
           s == [i \in 1..n |-> CHOOSE x \in A : place[x] = i]
           X == {s[i] : i \in 1..n}
<1>1. Ordered(filtered) = s
  BY DEF Ordered, SortedBy
<1>2. n \in Nat
  <2>1. A \in SUBSET Ids /\ IsFiniteSet(Ids)
    BY IdsAssumption DEF Allowed, Known
  <2> HIDE DEF A
  <2>2. IsFiniteSet(A)
    BY <2>1, FS_Subset
  <2> QED BY <2>2, FS_CardinalityType
<1>3. s \in [1..n -> X]
  OBVIOUS
<1> HIDE DEF s, X, n
<1>4. s \in Seq(X)
  BY <1>2, <1>3
<1> QED BY <1>1, <1>4

(* Sound RAM has a trigram index that answers like a walk.                  *)
LEMMA SearchFollows == IInv => TrigramIsScan
<1> SUFFICES ASSUME IInv PROVE TrigramIsScan
  OBVIOUS
<1> DEFINE T == ram.trigram
           S == ram.scan
<1>1. /\ FilesOK /\ Sound(ram, overwritten, mode) /\ T \in Trigrams /\ Searchable(T) /\ T.store = S
      /\ DOMAIN S = Known(ram)
  BY RamParts DEF IInv, Sound
<1>2. ASSUME NEW q \in Literals, NEW ignoreCase \in BOOLEAN, NEW filtered \in BOOLEAN, Len(q) >= Size
      PROVE LET walk == scanSearch(S, q, Ordered(filtered), ignoreCase)
                r    == search(q, ignoreCase, filtered)
            IN  IF walk.totalMatches = 0 THEN r.status \in {"no-candidates", "no-matches"}
                                         ELSE r = [status |-> "ok", outcome |-> walk]
  <2> DEFINE walk == scanSearch(S, q, Ordered(filtered), ignoreCase)
             outcome == trigramSearch(T, q, Ordered(filtered), ignoreCase)
             r == search(q, ignoreCase, filtered)
  <2>1. q \in Seq(Characters)
    BY TextAssumption
  <2>2. q # <<>> /\ ~(Len(q) < Size)
    <3>1. Len(<<>>) = 0 /\ Size = 3 /\ Len(q) \in Nat
      BY <2>1 DEF Size
    <3> QED BY <1>2, <3>1
  <2>3. PICK X : Ordered(filtered) \in Seq(X)
    BY <1>1, OrderedIs
  <2>4. outcome = walk /\ (Ordered(filtered) = <<>> => walk.totalMatches = 0)
    <3> DEFINE ids == Ordered(filtered)
    <3>1. ids \in Seq(X)
      BY <2>3
    <3> HIDE DEF ids, T, S
    <3>2. /\ trigramSearch(T, q, ids, ignoreCase) = scanSearch(T.store, q, ids, ignoreCase)
          /\ ids = <<>> => scanSearch(T.store, q, ids, ignoreCase).totalMatches = 0
      BY ONLY <1>1, <1>2, <2>1, <3>1, ignoreCase \in BOOLEAN, SameSearch
    <3> QED BY <1>1, <3>2 DEF ids
  <2>5. r = IF filtered /\ Ordered(filtered) = <<>> THEN [status |-> "no-candidates"]
            ELSE IF outcome.totalMatches = 0 THEN [status |-> "no-matches"]
                                             ELSE [status |-> "ok", outcome |-> outcome]
    BY <2>2 DEF search
  <2> HIDE DEF walk, outcome, r
  <2>6. CASE filtered /\ Ordered(filtered) = <<>>
    <3>1. Ordered(filtered) = <<>>
      BY <2>6
    <3>2. walk.totalMatches = 0 /\ r.status = "no-candidates"
      BY <2>4, <2>5, <2>6, <3>1
    <3> QED BY <3>2 DEF walk, r
  <2>7. CASE ~(filtered /\ Ordered(filtered) = <<>>)
    <3>1. r = IF walk.totalMatches = 0 THEN [status |-> "no-matches"] ELSE [status |-> "ok", outcome |-> walk]
      BY <2>4, <2>5, <2>7
    <3>2. walk.totalMatches = 0 => r.status = "no-matches"
      BY <3>1
    <3>3. walk.totalMatches # 0 => r = [status |-> "ok", outcome |-> walk]
      BY <3>1
    <3> QED BY <3>2, <3>3 DEF walk, r
  <2> QED BY <2>6, <2>7
<1> QED BY <1>1, <1>2 DEF TrigramIsScan

(* The trigram index finds what a walk through all texts finds, the same    *)
(* matches and the same snippets, for every vault, query and limit.         *)
THEOREM SearchCorrect == Spec => []TrigramIsScan
BY IInvHolds, SearchFollows, PTL

(* The heap of the k best.  A heap is a sequence that holds the entries R,  *)
(* each once.                                                               *)
Graded(R) == \A e \in R : e.score \in Int

Holds(h, R, n) ==
    /\ n \in Nat /\ h \in [1..n -> R]
    /\ \A i, j \in 1..n : h[i] = h[j] => i = j
    /\ \A e \in R : \E i \in 1..n : h[i] = e

(* Half of a place is its parent's.                                         *)
LEMMA HalfIs ==
    \A a \in Nat : a >= 2 => a \div 2 \in Nat /\ 1 <= a \div 2 /\ a \div 2 < a
OBVIOUS

(* Two entries change their places.                                         *)
LEMMA SwapIs ==
    ASSUME NEW R, NEW n, NEW h, Holds(h, R, n), NEW a \in 1..n, NEW b \in 1..n, a # b
    PROVE  /\ Holds(Swap(h, a, b), R, n)
           /\ Swap(h, a, b)[a] = h[b] /\ Swap(h, a, b)[b] = h[a]
           /\ \A i \in 1..n : i # a /\ i # b => Swap(h, a, b)[i] = h[i]
<1> DEFINE g == Swap(h, a, b)
<1>1. /\ n \in Nat /\ h \in [1..n -> R]
      /\ (\A i, j \in 1..n : h[i] = h[j] => i = j)
      /\ \A e \in R : \E i \in 1..n : h[i] = e
  BY DEF Holds
<1>2. /\ g \in [1..n -> R] /\ g[a] = h[b] /\ g[b] = h[a]
      /\ \A i \in 1..n : i # a /\ i # b => g[i] = h[i]
  BY <1>1 DEF Swap
<1> HIDE DEF g
<1>3. \A i, j \in 1..n : g[i] = g[j] => i = j
  BY <1>1, <1>2
<1>4. \A e \in R : \E i \in 1..n : g[i] = e
  <2> SUFFICES ASSUME NEW e \in R PROVE \E i \in 1..n : g[i] = e
    OBVIOUS
  <2>1. PICK i \in 1..n : h[i] = e
    BY <1>1
  <2> QED BY <1>2, <2>1
<1> QED BY <1>1, <1>2, <1>3, <1>4 DEF Holds, g

(* Every entry but the one at a place is worth no less than its parent, and *)
(* no less than its grandparent when that is its parent's.                  *)
Ordered1(h, n, at) ==
    /\ \A j \in 2..n : j # at => h[j].score >= h[j \div 2].score
    /\ at > 1 => \A j \in 2..n : j \div 2 = at => h[j].score >= h[at \div 2].score

Heaped(h, n) == \A j \in 2..n : h[j].score >= h[j \div 2].score

(* A turn of siftUp, and what holds after m of them.                        *)
Rise(v) ==
    IF v.at = 1 \/ v.heap[v.at].score >= v.heap[v.at \div 2].score THEN v
    ELSE [heap |-> Swap(v.heap, v.at, v.at \div 2), at |-> v.at \div 2]

Rising1(v, R, n, m) ==
    /\ Holds(v.heap, R, n) /\ v.at \in 1..n
    /\ Ordered1(v.heap, n, v.at)
    /\ v.at <= n - m \/ v.at = 1 \/ v.heap[v.at].score >= v.heap[v.at \div 2].score

(* A turn of siftUp brings the heap nearer to its order.                    *)
LEMMA RiseKeeps ==
    ASSUME NEW R, Graded(R), NEW n, NEW v, NEW m \in Nat, Rising1(v, R, n, m)
    PROVE  Rising1(Rise(v), R, n, m + 1)
<1> DEFINE h == v.heap
           a == v.at
           p == a \div 2
<1>1. Holds(h, R, n) /\ a \in 1..n /\ Ordered1(h, n, a)
      /\ (a <= n - m \/ a = 1 \/ h[a].score >= h[p].score)
  BY DEF Rising1
<1>2. n \in Nat /\ \A i \in 1..n : h[i].score \in Int
  BY <1>1 DEF Holds, Graded
<1>3. CASE a = 1 \/ h[a].score >= h[p].score
  BY <1>1, <1>3 DEF Rise, Rising1
<1>4. CASE ~(a = 1 \/ h[a].score >= h[p].score)
  <2> DEFINE g == Swap(h, a, p)
  <2>1. Rise(v) = [heap |-> g, at |-> p]
    BY <1>4 DEF Rise
  <2>2. a \in Nat /\ a >= 2 /\ a <= n /\ a <= n - m
    BY <1>1, <1>2, <1>4
  <2>3. p \in Nat /\ 1 <= p /\ p < a
    BY <2>2, HalfIs
  <2>4. p \in 1..n /\ a \in 1..n /\ a # p /\ p <= n - (m + 1)
    BY <1>2, <2>2, <2>3
  <2>5. /\ Holds(g, R, n) /\ g[a] = h[p] /\ g[p] = h[a]
        /\ \A i \in 1..n : i # a /\ i # p => g[i] = h[i]
    <3>1. Holds(h, R, n) /\ a \in 1..n /\ p \in 1..n /\ a # p
      BY <1>1, <2>4
    <3> HIDE DEF h, a, p
    <3>2. /\ Holds(Swap(h, a, p), R, n) /\ Swap(h, a, p)[a] = h[p] /\ Swap(h, a, p)[p] = h[a]
          /\ \A i \in 1..n : i # a /\ i # p => Swap(h, a, p)[i] = h[i]
      BY ONLY <3>1, SwapIs
    <3> QED BY <3>2 DEF g
  <2>6. /\ \A j \in 2..n : j # a => h[j].score >= h[j \div 2].score
        /\ \A j \in 2..n : j \div 2 = a => h[j].score >= h[p].score
    BY <1>1, <2>2 DEF Ordered1
  <2>7. ~(h[a].score >= h[p].score)
    BY <1>4
  <2> HIDE DEF g, h
  <2>8. ASSUME NEW j \in 2..n, j # p PROVE g[j].score >= g[j \div 2].score
    <3> DEFINE q == j \div 2
    <3>1. q \in Nat /\ 1 <= q /\ q < j /\ q \in 1..n /\ j \in 1..n
      BY <1>2, HalfIs
    <3>2. CASE j = a
      BY <1>2, <2>4, <2>5, <2>7, <3>2
    <3>3. CASE j # a /\ q = a
      <4>1. g[j] = h[j] /\ h[j].score >= h[p].score
        BY <2>5, <2>6, <2>8, <3>1, <3>3
      <4> QED BY <2>5, <3>3, <4>1
    <3>4. CASE j # a /\ q = p
      <4>1. g[j] = h[j] /\ h[j].score >= h[p].score
        BY <2>5, <2>6, <2>8, <3>1, <3>4
      <4>2. h[j].score >= h[a].score
        BY <1>2, <2>4, <2>7, <3>1, <4>1
      <4> QED BY <2>5, <3>4, <4>1, <4>2
    <3>5. CASE j # a /\ q # a /\ q # p
      <4>1. g[j] = h[j] /\ g[q] = h[q] /\ h[j].score >= h[q].score
        BY <2>5, <2>6, <2>8, <3>1, <3>5
      <4> QED BY <4>1
    <3> QED BY <3>2, <3>3, <3>4, <3>5
  <2>9. ASSUME p > 1, NEW j \in 2..n, j \div 2 = p PROVE g[j].score >= g[p \div 2].score
    <3> DEFINE q == p \div 2
    <3>1. q \in Nat /\ 1 <= q /\ q < p /\ p >= 2
      BY <2>3, <2>9, HalfIs
    <3>2. q \in 1..n /\ q # p /\ q # a /\ p \in 2..n /\ j \in 1..n /\ j # p
      BY <1>2, <2>3, <2>4, <2>9, <3>1, HalfIs
    <3>3. g[q] = h[q] /\ h[p].score >= h[q].score
      BY <2>4, <2>5, <2>6, <3>2
    <3>4. CASE j = a
      BY <2>5, <3>3, <3>4
    <3>5. CASE j # a
      <4>1. g[j] = h[j] /\ h[j].score >= h[p].score
        BY <2>5, <2>6, <2>9, <3>2, <3>5
      <4>2. h[j].score >= h[q].score
        BY <1>2, <2>4, <3>2, <3>3, <4>1
      <4> QED BY <3>3, <4>1, <4>2
    <3> QED BY <3>4, <3>5
  <2>10. Ordered1(g, n, p)
    BY <2>8, <2>9 DEF Ordered1
  <2> QED BY <2>1, <2>4, <2>5, <2>10 DEF Rising1
<1> QED BY <1>3, <1>4

(* A swap brings in nothing new.                                            *)
LEMMA SwapType ==
    ASSUME NEW R, NEW n, NEW h \in [1..n -> R], NEW a \in 1..n, NEW b \in 1..n
    PROVE  Swap(h, a, b) \in [1..n -> R]
BY DEF Swap

(* The turns of siftUp.                                                     *)
SiftsUp(h, R, n, c) ==
    /\ c \in [0..n -> [heap : [1..n -> R], at : 1..n]]
    /\ c[0] = [heap |-> h, at |-> n] /\ \A m \in 0..n - 1 : c[m + 1] = Rise(c[m])
    /\ siftUp(h, n) = c[n].heap

(* siftUp comes to its end in as many turns as there are places.            *)
LEMMA SiftUpRun ==
    ASSUME NEW R, NEW n \in Nat, n >= 1, NEW h \in [1..n -> R]
    PROVE  \E c : SiftsUp(h, R, n, c)
<1> DEFINE b == [heap |-> h, at |-> n]
           Same(f) == f = [m \in 0..n |-> IF m = 0 THEN b ELSE Rise(f[m - 1])]
           V == [heap : [1..n -> R], at : 1..n]
           F == [q \in V \X (1..n) |-> Rise(q[1])]
           c == CHOOSE f : Same(f)
<1>1. ASSUME NEW v \in V PROVE Rise(v) \in V
  <2>1. CASE v.at = 1 \/ v.heap[v.at].score >= v.heap[v.at \div 2].score
    BY <2>1 DEF Rise
  <2>2. CASE ~(v.at = 1 \/ v.heap[v.at].score >= v.heap[v.at \div 2].score)
    <3> DEFINE p == v.at \div 2
    <3>1. v.at \in 1..n /\ v.at >= 2 /\ v.heap \in [1..n -> R]
      BY <2>2
    <3>2. p \in 1..n
      BY <3>1, HalfIs
    <3> HIDE DEF p
    <3>3. Swap(v.heap, v.at, p) \in [1..n -> R]
      BY <3>1, <3>2, SwapType
    <3> QED BY <2>2, <3>2, <3>3 DEF Rise, p
  <2> QED BY <2>1, <2>2
<1>2. b \in V
  <2>1. n \in 1..n
    OBVIOUS
  <2> QED BY <2>1
<1>3. PICK g \in [0..n -> V] : g[0] = b /\ \A i \in 1..n : g[i] = Rise(g[i - 1])
  <2>1. Loop(n, V, b, F)
    <3>1. F \in [V \X (1..n) -> V]
      BY <1>1
    <3> HIDE DEF V, F, b
    <3> QED BY <1>2, <3>1 DEF Loop
  <2>2. PICK g : Goes(n, V, b, F, g)
    <3> HIDE DEF V, F, b
    <3> QED BY <2>1, Turns
  <2>3. g \in [0..n -> V] /\ g[0] = b /\ \A i \in 1..n : g[i] = F[<<g[i - 1], i>>]
    BY <2>2 DEF Goes
  <2>4. \A i \in 1..n : g[i] = Rise(g[i - 1])
    <3> SUFFICES ASSUME NEW i \in 1..n PROVE g[i] = Rise(g[i - 1])
      OBVIOUS
    <3>1. g[i - 1] \in V
      BY <2>3
    <3> HIDE DEF V
    <3> QED BY <2>3, <3>1
  <2> HIDE DEF V, b
  <2> QED BY <2>3, <2>4
<1>4. Same(g)
  <2> HIDE DEF V, b
  <2>1. \A m \in 0..n : m # 0 => m \in 1..n
    OBVIOUS
  <2> QED BY <1>3, <2>1
<1>5. Same(c)
  <2> HIDE DEF Same
  <2> QED BY <1>4
<1>6. siftUp(h, n) = c[n].heap
  BY DEF siftUp, Rise
<1>7. c = [m \in 0..n |-> IF m = 0 THEN b ELSE Rise(c[m - 1])]
  <2> HIDE DEF c
  <2> QED BY <1>5
<1> HIDE DEF c, Same, b
<1>8. c[0] = b /\ \A m \in 0..n - 1 : c[m + 1] = Rise(c[m])
  <2> HIDE DEF V, F
  <2>1. c[0] = b
    BY <1>7
  <2>2. ASSUME NEW m \in 0..n - 1 PROVE c[m + 1] = Rise(c[m])
    <3>1. m + 1 \in 0..n /\ m + 1 # 0 /\ (m + 1) - 1 = m
      OBVIOUS
    <3> QED BY <1>7, <3>1
  <2> QED BY <2>1, <2>2
<1>9. c \in [0..n -> V]
  <2> DEFINE T == {m \in 0..n : c[m] \in V}
  <2> HIDE DEF V
  <2>1. 0 \in T
    BY <1>2, <1>8
  <2>2. ASSUME NEW m \in 0..n - 1, m \in T PROVE m + 1 \in T
    <3>1. c[m] \in V /\ m + 1 \in 0..n
      BY <2>2
    <3> QED BY <1>1, <1>8, <3>1
  <2>3. \A m \in 0..n : m \in T
    <3> HIDE DEF T
    <3> QED BY ONLY n \in Nat, <2>1, <2>2, UpTo
  <2> QED BY <1>7, <2>3
<1> QED BY <1>6, <1>8, <1>9 DEF SiftsUp, b

(* The last entry finds its place in a heap of the others.                  *)
LEMMA SiftUpIs ==
    ASSUME NEW R, Graded(R), NEW n \in Nat, n >= 1, NEW h, Holds(h, R, n), Heaped(h, n - 1)
    PROVE  Holds(siftUp(h, n), R, n) /\ Heaped(siftUp(h, n), n)
<1>1. PICK c : SiftsUp(h, R, n, c)
  BY SiftUpRun DEF Holds
<1>2. /\ c[0] = [heap |-> h, at |-> n] /\ \A m \in 0..n - 1 : c[m + 1] = Rise(c[m])
      /\ siftUp(h, n) = c[n].heap
  BY <1>1 DEF SiftsUp
<1> DEFINE U == {m \in 0..n : Rising1(c[m], R, n, m)}
<1>3. 0 \in U
  <2>1. \A j \in 2..n : j # n => j \in 2..n - 1
    OBVIOUS
  <2>2. \A j \in 2..n : j \div 2 # n
    BY HalfIs
  <2>3. Ordered1(h, n, n)
    BY <2>1, <2>2 DEF Ordered1, Heaped
  <2>4. n \in 1..n /\ n <= n - 0 /\ 0 \in 0..n
    OBVIOUS
  <2> QED BY <1>2, <2>3, <2>4 DEF Rising1
<1>4. ASSUME NEW m \in 0..n - 1, m \in U PROVE m + 1 \in U
  <2>1. m \in Nat /\ Rising1(c[m], R, n, m) /\ m + 1 \in 0..n
    BY <1>4
  <2>2. Rising1(Rise(c[m]), R, n, m + 1)
    BY <2>1, RiseKeeps
  <2> QED BY <1>2, <2>1, <2>2
<1>5. n \in U
  <2> HIDE DEF U
  <2>1. \A m \in 0..n : m \in U
    BY ONLY n \in Nat, <1>3, <1>4, UpTo
  <2> QED BY <2>1
<1> DEFINE g == c[n].heap
           a == c[n].at
<1>6. Holds(g, R, n) /\ a \in 1..n /\ Ordered1(g, n, a)
      /\ (a <= n - n \/ a = 1 \/ g[a].score >= g[a \div 2].score)
  BY <1>5 DEF Rising1
<1> HIDE DEF g, a
<1>7. a = 1 \/ g[a].score >= g[a \div 2].score
  BY <1>6
<1>8. Heaped(g, n)
  BY <1>6, <1>7 DEF Heaped, Ordered1
<1> QED BY <1>2, <1>6, <1>8 DEF g

(* Every entry whose parent is not at a place is worth no less than its     *)
(* parent, and the others no less than their grandparent.                   *)
Ordered2(h, n, at) ==
    /\ \A j \in 2..n : j \div 2 # at => h[j].score >= h[j \div 2].score
    /\ at > 1 => \A j \in 2..n : j \div 2 = at => h[j].score >= h[at \div 2].score

(* The children that are worth less than their parent; and the least.       *)
Lesser(h, n, at) == {c \in {2 * at, 2 * at + 1} : c <= n /\ h[c].score < h[at].score}

Smallest(h, children) ==
    CHOOSE c \in children : \A d \in children :
        h[c].score < h[d].score \/ (h[c].score = h[d].score /\ c <= d)

(* A turn of siftDown, and what holds after m of them.                      *)
Sink(v, n) ==
    LET children == Lesser(v.heap, n, v.at)
        smallest == Smallest(v.heap, children)
    IN  IF children = {} THEN v ELSE [heap |-> Swap(v.heap, v.at, smallest), at |-> smallest]

Sinking1(v, R, n, m) ==
    /\ Holds(v.heap, R, n) /\ v.at \in 1..n
    /\ Ordered2(v.heap, n, v.at)
    /\ v.at >= m + 1 \/ Lesser(v.heap, n, v.at) = {}

(* The parent of both children is their parent.                             *)
LEMMA ChildrenAre ==
    \A a, j \in Nat : j \div 2 = a <=> j \in {2 * a, 2 * a + 1}
OBVIOUS

(* A heap is a list.                                                        *)
LEMMA LengthOf ==
    ASSUME NEW R, NEW n, NEW h, Holds(h, R, n)
    PROVE  h \in Seq(R) /\ Len(h) = n /\ DOMAIN h = 1..n
<1>1. n \in Nat /\ h \in [1..n -> R]
  BY DEF Holds
<1> QED BY <1>1, IsASeq

(* One of the children that are worth less is worth the least.              *)
LEMMA SmallestIs ==
    ASSUME NEW R, Graded(R), NEW n \in Nat, NEW h \in [1..n -> R], NEW a \in 1..n, Lesser(h, n, a) # {}
    PROVE  LET s == Smallest(h, Lesser(h, n, a)) IN
             /\ s \in 2..n /\ s \div 2 = a /\ s > a
             /\ ~(h[s].score >= h[a].score)
             /\ \A j \in 2..n : j \div 2 = a => h[j].score >= h[s].score
<1> DEFINE C == Lesser(h, n, a)
           Below(c, d) == h[c].score < h[d].score \/ (h[c].score = h[d].score /\ c <= d)
           s == Smallest(h, C)
<1>1. n \in Nat /\ a \in Nat /\ \A i \in 1..n : h[i].score \in Int
  BY DEF Graded
<1>2. \A c \in C : c \in 2..n /\ c \div 2 = a /\ c > a /\ h[c].score < h[a].score /\ c \in {2 * a, 2 * a + 1}
  <2> SUFFICES ASSUME NEW c \in C
               PROVE c \in 2..n /\ c \div 2 = a /\ c > a /\ h[c].score < h[a].score /\ c \in {2 * a, 2 * a + 1}
    OBVIOUS
  <2>1. c \in {2 * a, 2 * a + 1} /\ c <= n /\ h[c].score < h[a].score
    BY DEF Lesser
  <2>2. c \in Nat /\ c > a /\ c \in 2..n
    BY <1>1, <2>1
  <2> QED BY <1>1, <2>1, <2>2, ChildrenAre
<1>3. \A j \in 2..n : j \div 2 = a => j \in C \/ h[j].score >= h[a].score
  <2> SUFFICES ASSUME NEW j \in 2..n, j \div 2 = a, j \notin C PROVE h[j].score >= h[a].score
    OBVIOUS
  <2>1. j \in {2 * a, 2 * a + 1} /\ j \in 1..n /\ j <= n
    BY <1>1, ChildrenAre
  <2>2. ~(h[j].score < h[a].score)
    BY <2>1 DEF Lesser
  <2> QED BY <1>1, <2>1, <2>2
<1> HIDE DEF C
<1>4. \E c \in C : \A d \in C : Below(c, d)
  <2>1. PICK c \in C : TRUE
    BY C # {} DEF C
  <2>2. \A d \in C : h[d].score \in Int /\ d \in Nat
    BY <1>1, <1>2
  <2>3. CASE \A d \in C : Below(c, d)
    BY <2>3
  <2>4. CASE \E d \in C : ~Below(c, d)
    <3>1. PICK d \in C : ~Below(c, d)
      BY <2>4
    <3>2. /\ c \in Nat /\ d \in Nat /\ h[c].score \in Int /\ h[d].score \in Int
          /\ c \in {2 * a, 2 * a + 1} /\ d \in {2 * a, 2 * a + 1}
      BY <1>2, <2>2, <3>1
    <3>3. Below(d, c) /\ Below(d, d) /\ c # d
      BY <3>1, <3>2
    <3>4. ASSUME NEW e \in C PROVE e = c \/ e = d
      <4>1. e \in {2 * a, 2 * a + 1}
        BY <1>2
      <4> QED BY <3>2, <3>3, <4>1
    <3> HIDE DEF Below
    <3> QED BY <3>1, <3>3, <3>4
  <2> QED BY <2>3, <2>4
<1>5. s \in C /\ \A d \in C : Below(s, d)
  BY <1>4 DEF Smallest
<1> HIDE DEF s
<1>6. s \in 2..n /\ s \div 2 = a /\ s > a /\ ~(h[s].score >= h[a].score)
  BY <1>1, <1>2, <1>5
<1>7. ASSUME NEW j \in 2..n, j \div 2 = a PROVE h[j].score >= h[s].score
  <2>1. j \in C \/ h[j].score >= h[a].score
    BY <1>3, <1>7
  <2>2. s \in 1..n /\ j \in 1..n /\ h[s].score \in Int /\ h[j].score \in Int /\ h[a].score \in Int
    BY <1>1, <1>6
  <2> QED BY <1>5, <1>6, <2>1, <2>2
<1> QED BY <1>6, <1>7 DEF s, C

(* A turn of siftDown brings the heap nearer to its order.                  *)
LEMMA SinkKeeps ==
    ASSUME NEW R, Graded(R), NEW n, NEW v, NEW m \in Nat, Sinking1(v, R, n, m)
    PROVE  Sinking1(Sink(v, n), R, n, m + 1)
<1> DEFINE h == v.heap
           a == v.at
           C == Lesser(h, n, a)
           s == Smallest(h, C)
<1>1. Holds(h, R, n) /\ a \in 1..n /\ Ordered2(h, n, a) /\ (a >= m + 1 \/ C = {})
  BY DEF Sinking1
<1>2. n \in Nat /\ \A i \in 1..n : h[i].score \in Int
  BY <1>1 DEF Holds, Graded
<1>3. h \in [1..n -> R]
  BY <1>1 DEF Holds
<1>4. CASE C = {}
  BY <1>1, <1>3, <1>4 DEF Sink, Sinking1
<1>5. CASE C # {}
  <2> DEFINE g == Swap(h, a, s)
  <2>1. Sink(v, n) = [heap |-> g, at |-> s]
    BY <1>5 DEF Sink
  <2>2. /\ s \in 2..n /\ s \div 2 = a /\ s > a /\ ~(h[s].score >= h[a].score)
        /\ \A j \in 2..n : j \div 2 = a => h[j].score >= h[s].score
    <3> HIDE DEF h, a
    <3> QED BY <1>1, <1>2, <1>3, <1>5, SmallestIs
  <2> HIDE DEF s
  <2>3. s \in 1..n /\ a \in 1..n /\ a # s /\ s >= (m + 1) + 1 /\ s > 1
    BY <1>1, <1>2, <1>5, <2>2
  <2>4. /\ Holds(g, R, n) /\ g[a] = h[s] /\ g[s] = h[a]
        /\ \A i \in 1..n : i # a /\ i # s => g[i] = h[i]
    <3> HIDE DEF h, a, C
    <3> QED BY ONLY <1>1, <2>3, SwapIs DEF g
  <2>5. /\ \A j \in 2..n : j \div 2 # a => h[j].score >= h[j \div 2].score
        /\ a > 1 => \A j \in 2..n : j \div 2 = a => h[j].score >= h[a \div 2].score
    BY <1>1 DEF Ordered2
  <2> HIDE DEF g, h, a, C
  <2>6. ASSUME NEW j \in 2..n, j \div 2 # s PROVE g[j].score >= g[j \div 2].score
    <3> DEFINE q == j \div 2
    <3>1. q \in Nat /\ 1 <= q /\ q < j /\ q \in 1..n /\ j \in 1..n
      BY <1>2, HalfIs
    <3>2. CASE j = s
      BY <1>2, <2>2, <2>3, <2>4, <3>2
    <3>3. CASE j # s /\ q = a
      <4>1. j # a
        BY <3>1, <3>3
      <4>2. g[j] = h[j] /\ h[j].score >= h[s].score
        BY <2>2, <2>4, <3>1, <3>3, <4>1
      <4> QED BY <2>4, <3>3, <4>2
    <3>4. CASE j = a
      <4>1. q # a /\ q # s /\ a > 1
        BY <2>3, <2>6, <3>1, <3>4
      <4>2. g[q] = h[q] /\ h[s].score >= h[q].score
        BY <2>2, <2>4, <2>5, <3>1, <3>4, <4>1
      <4> QED BY <2>4, <3>4, <4>2
    <3>5. CASE j # s /\ j # a /\ q # a
      <4>1. g[j] = h[j] /\ g[q] = h[q] /\ h[j].score >= h[q].score
        BY <2>4, <2>5, <2>6, <3>1, <3>5
      <4> QED BY <4>1
    <3> QED BY <3>2, <3>3, <3>4, <3>5
  <2>7. ASSUME NEW j \in 2..n, j \div 2 = s PROVE g[j].score >= g[s \div 2].score
    <3>1. j \in 1..n /\ j > s /\ j # s /\ j # a /\ s # a
      BY <1>2, <2>2, <2>3, <2>7, HalfIs
    <3>2. g[j] = h[j] /\ h[j].score >= h[s].score
      BY <2>4, <2>5, <2>7, <3>1
    <3> QED BY <2>2, <2>4, <3>2
  <2>8. Ordered2(g, n, s)
    BY <2>6, <2>7 DEF Ordered2
  <2> QED BY <2>1, <2>3, <2>4, <2>8 DEF Sinking1
<1> QED BY <1>4, <1>5

(* The turns of siftDown.                                                   *)
SiftsDown(h, R, n, c) ==
    /\ c \in [0..n -> [heap : [1..n -> R], at : 1..n]]
    /\ c[0] = [heap |-> h, at |-> 1] /\ \A m \in 0..n - 1 : c[m + 1] = Sink(c[m], n)
    /\ siftDown(h) = c[n].heap

(* siftDown comes to its end in as many turns as there are places.          *)
LEMMA SiftDownRun ==
    ASSUME NEW R, Graded(R), NEW n \in Nat, n >= 1, NEW h \in [1..n -> R]
    PROVE  \E c : SiftsDown(h, R, n, c)
<1> DEFINE b == [heap |-> h, at |-> 1]
           Same(f) == f = [m \in 0..n |-> IF m = 0 THEN b ELSE Sink(f[m - 1], n)]
           V == [heap : [1..n -> R], at : 1..n]
           F == [q \in V \X (1..n) |-> Sink(q[1], n)]
           c == CHOOSE f : Same(f)
<1>1. ASSUME NEW v \in V PROVE Sink(v, n) \in V
  <2> DEFINE g == v.heap
             a == v.at
             s == Smallest(g, Lesser(g, n, a))
  <2>1. a \in 1..n /\ g \in [1..n -> R] /\ v = [heap |-> g, at |-> a]
    OBVIOUS
  <2> HIDE DEF g, a
  <2>2. CASE Lesser(g, n, a) = {}
    BY <2>2 DEF Sink, g, a
  <2>3. CASE Lesser(g, n, a) # {}
    <3>1. s \in 2..n /\ s > a
      BY <2>1, <2>3, SmallestIs
    <3>2. Sink(v, n) = [heap |-> Swap(g, a, s), at |-> s]
      BY <2>3 DEF Sink, g, a
    <3> HIDE DEF s
    <3>3. s \in 1..n
      BY <3>1
    <3>4. Swap(g, a, s) \in [1..n -> R]
      BY <2>1, <3>3, SwapType
    <3> QED BY <3>2, <3>3, <3>4
  <2> QED BY <2>2, <2>3
<1>2. b \in V
  <2>1. 1 \in 1..n
    OBVIOUS
  <2> QED BY <2>1
<1>3. PICK g \in [0..n -> V] : g[0] = b /\ \A i \in 1..n : g[i] = Sink(g[i - 1], n)
  <2>1. Loop(n, V, b, F)
    <3>1. F \in [V \X (1..n) -> V]
      BY <1>1
    <3> HIDE DEF V, F, b
    <3> QED BY <1>2, <3>1 DEF Loop
  <2>2. PICK g : Goes(n, V, b, F, g)
    <3> HIDE DEF V, F, b
    <3> QED BY <2>1, Turns
  <2>3. g \in [0..n -> V] /\ g[0] = b /\ \A i \in 1..n : g[i] = F[<<g[i - 1], i>>]
    BY <2>2 DEF Goes
  <2>4. \A i \in 1..n : g[i] = Sink(g[i - 1], n)
    <3> SUFFICES ASSUME NEW i \in 1..n PROVE g[i] = Sink(g[i - 1], n)
      OBVIOUS
    <3>1. g[i - 1] \in V
      BY <2>3
    <3> HIDE DEF V
    <3> QED BY <2>3, <3>1
  <2> HIDE DEF V, b
  <2> QED BY <2>3, <2>4
<1>4. Same(g)
  <2> HIDE DEF V, b
  <2>1. \A m \in 0..n : m # 0 => m \in 1..n
    OBVIOUS
  <2> QED BY <1>3, <2>1
<1>5. Same(c)
  <2> HIDE DEF Same
  <2> QED BY <1>4
<1>6. siftDown(h) = c[n].heap
  <2>1. Len(h) = n
    BY IsASeq
  <2> QED BY <2>1 DEF siftDown, Sink, Lesser, Smallest
<1>7. c = [m \in 0..n |-> IF m = 0 THEN b ELSE Sink(c[m - 1], n)]
  <2> HIDE DEF c
  <2> QED BY <1>5
<1> HIDE DEF c, Same, b
<1>8. c[0] = b /\ \A m \in 0..n - 1 : c[m + 1] = Sink(c[m], n)
  <2> HIDE DEF V, F
  <2>1. c[0] = b
    BY <1>7
  <2>2. ASSUME NEW m \in 0..n - 1 PROVE c[m + 1] = Sink(c[m], n)
    <3>1. m + 1 \in 0..n /\ m + 1 # 0 /\ (m + 1) - 1 = m
      OBVIOUS
    <3> QED BY <1>7, <3>1
  <2> QED BY <2>1, <2>2
<1>9. c \in [0..n -> V]
  <2> DEFINE T == {m \in 0..n : c[m] \in V}
  <2> HIDE DEF V
  <2>1. 0 \in T
    BY <1>2, <1>8
  <2>2. ASSUME NEW m \in 0..n - 1, m \in T PROVE m + 1 \in T
    <3>1. c[m] \in V /\ m + 1 \in 0..n
      BY <2>2
    <3> QED BY <1>1, <1>8, <3>1
  <2>3. \A m \in 0..n : m \in T
    <3> HIDE DEF T
    <3> QED BY ONLY n \in Nat, <2>1, <2>2, UpTo
  <2> QED BY <1>7, <2>3
<1> QED BY <1>6, <1>8, <1>9 DEF SiftsDown, b

(* The first entry finds its place in a heap of the others.                 *)
LEMMA SiftDownIs ==
    ASSUME NEW R, Graded(R), NEW n \in Nat, n >= 1, NEW h, Holds(h, R, n), Ordered2(h, n, 1)
    PROVE  Holds(siftDown(h), R, n) /\ Heaped(siftDown(h), n)
<1>1. PICK c : SiftsDown(h, R, n, c)
  BY SiftDownRun DEF Holds
<1>2. /\ c[0] = [heap |-> h, at |-> 1] /\ \A m \in 0..n - 1 : c[m + 1] = Sink(c[m], n)
      /\ siftDown(h) = c[n].heap
  BY <1>1 DEF SiftsDown
<1> DEFINE U == {m \in 0..n : Sinking1(c[m], R, n, m)}
<1>3. 0 \in U
  <2>1. 1 \in 1..n /\ 1 >= 0 + 1 /\ 0 \in 0..n
    OBVIOUS
  <2> QED BY <1>2, <2>1 DEF Sinking1
<1>4. ASSUME NEW m \in 0..n - 1, m \in U PROVE m + 1 \in U
  <2>1. m \in Nat /\ Sinking1(c[m], R, n, m) /\ m + 1 \in 0..n
    BY <1>4
  <2>2. Sinking1(Sink(c[m], n), R, n, m + 1)
    BY <2>1, SinkKeeps
  <2> QED BY <1>2, <2>1, <2>2
<1>5. n \in U
  <2> HIDE DEF U
  <2>1. \A m \in 0..n : m \in U
    BY ONLY n \in Nat, <1>3, <1>4, UpTo
  <2> QED BY <2>1
<1> DEFINE g == c[n].heap
           a == c[n].at
<1>6. Holds(g, R, n) /\ a \in 1..n /\ Ordered2(g, n, a) /\ (a >= n + 1 \/ Lesser(g, n, a) = {})
  BY <1>5 DEF Sinking1
<1> HIDE DEF g, a
<1>7. Lesser(g, n, a) = {}
  BY <1>6
<1>8. ASSUME NEW j \in 2..n PROVE g[j].score >= g[j \div 2].score
  <2>1. CASE j \div 2 # a
    BY <1>6, <2>1 DEF Ordered2
  <2>2. CASE j \div 2 = a
    <3>1. j \in {2 * a, 2 * a + 1} /\ j <= n
      BY <1>6, <2>2, ChildrenAre
    <3>2. ~(g[j].score < g[a].score)
      BY <1>7, <3>1 DEF Lesser
    <3>3. g[j].score \in Int /\ g[a].score \in Int
      <4>1. j \in 1..n /\ \A i \in 1..n : g[i].score \in Int
        BY <1>6 DEF Holds, Graded
      <4> QED BY <1>6, <4>1
    <3> QED BY <2>2, <3>2, <3>3
  <2> QED BY <2>1, <2>2
<1>9. Heaped(g, n)
  BY <1>8 DEF Heaped
<1> QED BY <1>2, <1>6, <1>9 DEF g

(* The root of a heap is worth the least.                                   *)
LEMMA RootLeast ==
    ASSUME NEW R, Graded(R), NEW n, NEW h, Holds(h, R, n), Heaped(h, n)
    PROVE  \A i \in 1..n : h[i].score >= h[1].score
<1>1. n \in Nat /\ \A i \in 1..n : h[i].score \in Int
  BY DEF Holds, Graded
<1> DEFINE T == {i \in 1..n : ~(h[i].score >= h[1].score)}
<1> SUFFICES ASSUME T # {} PROVE FALSE
  OBVIOUS
<1>2. T \in SUBSET Nat
  OBVIOUS
<1>3. PICK i \in T : \A j \in T : i <= j
  BY <1>2, LeastNatural
<1>4. i \in 1..n /\ ~(h[i].score >= h[1].score)
  OBVIOUS
<1>5. i \in 2..n
  BY <1>1, <1>4
<1> DEFINE p == i \div 2
<1>6. p \in Nat /\ 1 <= p /\ p < i
  BY <1>5, HalfIs
<1>7. h[i].score >= h[p].score
  BY <1>5 DEF Heaped
<1> HIDE DEF p
<1>8. p \in 1..n /\ 1 \in 1..n
  BY <1>1, <1>5, <1>6
<1>9. p \notin T
  BY <1>3, <1>4, <1>6
<1>10. h[p].score >= h[1].score
  BY <1>8, <1>9
<1> HIDE DEF T
<1> QED BY <1>1, <1>4, <1>7, <1>8, <1>10

(* A heap of the n best of the entries S, of which there is room for k.     *)
Offered(h, R, n, S, k) ==
    /\ Holds(h, R, n) /\ Heaped(h, n)
    /\ R \subseteq S /\ n <= k
    /\ n < k => R = S
    /\ \A x \in S \ R, y \in R : x.score <= y.score

(* An entry that still has room.                                            *)
LEMMA OfferMore ==
    ASSUME NEW S, Graded(S), NEW k \in Nat, NEW h, NEW R, NEW n, Offered(h, R, n, S, k),
           NEW e, e.score \in Int, e \notin S, n < k
    PROVE  Offered(Offer(h, e, k), S \cup {e}, n + 1, S \cup {e}, k)
<1>1. Holds(h, S, n) /\ Heaped(h, n)
  BY DEF Offered
<1>2. n \in Nat /\ h \in [1..n -> S] /\ h \in Seq(S) /\ Len(h) = n
      /\ (\A i, j \in 1..n : h[i] = h[j] => i = j)
      /\ \A x \in S : \E i \in 1..n : h[i] = x
  BY <1>1, LengthOf DEF Holds
<1> DEFINE g == Append(h, e)
           Z == S \cup {e}
<1>3. g \in Seq(Z) /\ Len(g) = n + 1 /\ g[n + 1] = e /\ \A i \in 1..n : g[i] = h[i]
  BY <1>2
<1>4. DOMAIN g = 1..n + 1 /\ n + 1 \in Nat /\ n + 1 >= 1
  BY <1>2, <1>3
<1>5. Offer(h, e, k) = siftUp(g, n + 1)
  BY <1>2 DEF Offer
<1> HIDE DEF g
<1>6. g \in [1..n + 1 -> Z]
  BY <1>3, <1>4
<1>7. \A i, j \in 1..n + 1 : g[i] = g[j] => i = j
  <2> SUFFICES ASSUME NEW i \in 1..n + 1, NEW j \in 1..n + 1, g[i] = g[j] PROVE i = j
    OBVIOUS
  <2>1. \A l \in 1..n + 1 : l \in 1..n \/ l = n + 1
    BY <1>2
  <2>2. \A l \in 1..n : g[l] # e
    BY <1>2, <1>3
  <2> QED BY <1>2, <1>3, <2>1, <2>2
<1>8. \A x \in Z : \E i \in 1..n + 1 : g[i] = x
  <2> SUFFICES ASSUME NEW x \in Z PROVE \E i \in 1..n + 1 : g[i] = x
    OBVIOUS
  <2>1. CASE x = e
    BY <1>3, <1>4, <2>1
  <2>2. CASE x \in S
    <3>1. PICK i \in 1..n : h[i] = x
      BY <1>2, <2>2
    <3>2. i \in 1..n + 1
      BY <1>2
    <3> QED BY <1>3, <3>1, <3>2
  <2> QED BY <2>1, <2>2
<1>9. Holds(g, Z, n + 1)
  BY <1>4, <1>6, <1>7, <1>8 DEF Holds
<1>10. Heaped(g, (n + 1) - 1)
  <2>1. (n + 1) - 1 = n
    BY <1>2
  <2>2. ASSUME NEW j \in 2..n PROVE g[j].score >= g[j \div 2].score
    <3>1. j \div 2 \in 1..n /\ j \in 1..n
      BY <1>2, HalfIs
    <3>2. h[j].score >= h[j \div 2].score
      BY <1>1 DEF Heaped
    <3> QED BY <1>3, <3>1, <3>2
  <2> QED BY <2>1, <2>2 DEF Heaped
<1>11. Graded(Z)
  BY DEF Graded
<1> HIDE DEF Z
<1>12. Holds(siftUp(g, n + 1), Z, n + 1) /\ Heaped(siftUp(g, n + 1), n + 1)
  BY <1>4, <1>9, <1>10, <1>11, SiftUpIs
<1>13. n + 1 <= k
  BY <1>2
<1> QED BY <1>5, <1>12, <1>13 DEF Offered, Z

(* An entry that takes the place of the worst.                              *)
LEMMA OfferBetter ==
    ASSUME NEW S, Graded(S), NEW k \in Nat, k >= 1, NEW h, NEW R, Offered(h, R, k, S, k),
           NEW e, e.score \in Int, e \notin S, e.score > h[1].score
    PROVE  \E Q : Offered(Offer(h, e, k), Q, k, S \cup {e}, k)
<1>1. Holds(h, R, k) /\ Heaped(h, k) /\ R \subseteq S /\ \A x \in S \ R, y \in R : x.score <= y.score
  BY DEF Offered
<1>2. Graded(R)
  BY <1>1 DEF Graded
<1>3. h \in [1..k -> R] /\ h \in Seq(R) /\ Len(h) = k
      /\ (\A i, j \in 1..k : h[i] = h[j] => i = j)
      /\ \A x \in R : \E i \in 1..k : h[i] = x
  BY <1>1, LengthOf DEF Holds
<1>4. \A i \in 1..k : h[i].score >= h[1].score
  BY <1>1, <1>2, RootLeast
<1> DEFINE g == [h EXCEPT ![1] = e]
           r == h[1]
           Q == (R \ {r}) \cup {e}
<1>5. 1 \in 1..k /\ r \in R /\ e \notin R
  BY <1>1, <1>3
<1>6. Offer(h, e, k) = siftDown(g)
  BY <1>3 DEF Offer
<1>7. DOMAIN g = 1..k /\ g[1] = e /\ \A i \in 1..k : i # 1 => g[i] = h[i]
  BY <1>3
<1>8. g \in [1..k -> Q]
  <2>1. \A i \in 1..k : g[i] \in Q
    BY <1>3, <1>5, <1>7
  <2> QED BY <1>7, <2>1
<1> HIDE DEF g
<1>9. \A i, j \in 1..k : g[i] = g[j] => i = j
  <2>1. \A i \in 1..k : i # 1 => g[i] # e
    BY <1>3, <1>5, <1>7
  <2> QED BY <1>3, <1>7, <2>1
<1>10. \A x \in Q : \E i \in 1..k : g[i] = x
  <2> SUFFICES ASSUME NEW x \in Q PROVE \E i \in 1..k : g[i] = x
    OBVIOUS
  <2>1. CASE x = e
    BY <1>5, <1>7, <2>1
  <2>2. CASE x \in R /\ x # r
    <3>1. PICK i \in 1..k : h[i] = x
      BY <1>3, <2>2
    <3> QED BY <1>7, <2>2, <3>1
  <2> QED BY <2>1, <2>2
<1> HIDE DEF Q
<1>11. Holds(g, Q, k)
  BY <1>8, <1>9, <1>10 DEF Holds
<1>12. Ordered2(g, k, 1)
  <2>1. ASSUME NEW j \in 2..k, j \div 2 # 1 PROVE g[j].score >= g[j \div 2].score
    <3>1. j \div 2 \in 1..k /\ j \in 1..k /\ j # 1
      BY HalfIs
    <3>2. h[j].score >= h[j \div 2].score
      BY <1>1 DEF Heaped
    <3> QED BY <1>7, <2>1, <3>1, <3>2
  <2> QED BY <2>1 DEF Ordered2
<1>13. Graded(Q) /\ Q \subseteq S \cup {e}
  BY <1>1, <1>2 DEF Graded, Q
<1>14. Holds(siftDown(g), Q, k) /\ Heaped(siftDown(g), k)
  BY <1>11, <1>12, <1>13, SiftDownIs
<1>15. ASSUME NEW x \in (S \cup {e}) \ Q, NEW y \in Q PROVE x.score <= y.score
  <2>1. x \in S /\ (x \notin R \/ x = r)
    BY <1>15 DEF Q
  <2>2. r.score \in Int /\ x.score \in Int
    BY <1>1, <1>5, <2>1 DEF Graded
  <2>3. x.score <= r.score
    BY <1>1, <1>5, <2>1, <2>2
  <2>4. y \in R => y.score \in Int /\ y.score >= r.score
    BY <1>2, <1>3, <1>4 DEF Graded
  <2>5. y \in R \/ y = e
    BY DEF Q
  <2> QED BY <2>2, <2>3, <2>4, <2>5
<1> QED BY <1>6, <1>13, <1>14, <1>15 DEF Offered

(* An entry that is worth no more than the worst.                           *)
LEMMA OfferWorse ==
    ASSUME NEW S, Graded(S), NEW k \in Nat, NEW h, NEW R, Offered(h, R, k, S, k), k >= 1,
           NEW e, e.score \in Int, e \notin S, ~(e.score > h[1].score)
    PROVE  Offered(Offer(h, e, k), R, k, S \cup {e}, k)
<1>1. Holds(h, R, k) /\ Heaped(h, k) /\ R \subseteq S /\ \A x \in S \ R, y \in R : x.score <= y.score
  BY DEF Offered
<1>2. Graded(R) /\ h \in [1..k -> R] /\ Len(h) = k /\ \A x \in R : \E i \in 1..k : h[i] = x
  BY <1>1, LengthOf DEF Graded, Holds
<1>3. \A i \in 1..k : h[i].score >= h[1].score
  BY <1>1, <1>2, RootLeast
<1>4. Offer(h, e, k) = h
  BY <1>2 DEF Offer
<1>5. h[1].score \in Int /\ e.score <= h[1].score
  BY <1>2 DEF Graded
<1>6. ASSUME NEW y \in R PROVE e.score <= y.score
  <2>1. y.score \in Int /\ y.score >= h[1].score
    BY <1>2, <1>3 DEF Graded
  <2> QED BY <1>5, <2>1
<1>7. \A x \in (S \cup {e}) \ R, y \in R : x.score <= y.score
  BY <1>1, <1>6
<1> QED BY <1>1, <1>4, <1>7 DEF Offered

(* A heap stays one of the best when another entry is offered to it.        *)
LEMMA OfferKeeps ==
    ASSUME NEW S, Graded(S), NEW k \in Nat, k >= 1, NEW h, NEW R, NEW n, Offered(h, R, n, S, k),
           NEW e, e.score \in Int, e \notin S
    PROVE  \E Q : Offered(Offer(h, e, k), Q, Least(k, n + 1), S \cup {e}, k)
<1>1. n \in Nat /\ n <= k
  BY DEF Offered, Holds
<1>2. CASE n < k
  <2>1. Least(k, n + 1) = n + 1
    BY <1>1, <1>2 DEF Least
  <2> QED BY <1>2, <2>1, OfferMore
<1>3. CASE n = k
  <2>1. Least(k, n + 1) = k
    BY <1>1, <1>3 DEF Least
  <2>2. Offered(h, R, k, S, k)
    BY <1>3
  <2>3. CASE e.score > h[1].score
    BY <2>1, <2>2, <2>3, OfferBetter
  <2>4. CASE ~(e.score > h[1].score)
    BY <2>1, <2>2, <2>4, OfferWorse
  <2> QED BY <2>3, <2>4
<1> QED BY <1>1, <1>2, <1>3

(* Whatever entries are in a heap, offering it one adds no others.          *)
LEMMA OfferType ==
    ASSUME NEW E, Graded(E), NEW h \in Seq(E), NEW e \in E, NEW k \in Nat, k >= 1
    PROVE  Offer(h, e, k) \in Seq(E)
<1> DEFINE n == Len(h)
<1>1. n \in Nat /\ h \in [1..n -> E]
  OBVIOUS
<1>2. CASE n < k
  <2> DEFINE g == Append(h, e)
  <2>1. g \in Seq(E) /\ Len(g) = n + 1
    OBVIOUS
  <2>2. Offer(h, e, k) = siftUp(g, n + 1)
    BY <1>2 DEF Offer
  <2> HIDE DEF g
  <2>3. g \in [1..n + 1 -> E] /\ n + 1 \in Nat /\ n + 1 >= 1
    BY <1>1, <2>1
  <2> HIDE DEF n
  <2>4. PICK c : SiftsUp(g, E, n + 1, c)
    BY <2>3, SiftUpRun
  <2>5. siftUp(g, n + 1) \in [1..n + 1 -> E]
    <3>1. n + 1 \in 0..n + 1 /\ siftUp(g, n + 1) = c[n + 1].heap
          /\ c \in [0..n + 1 -> [heap : [1..n + 1 -> E], at : 1..n + 1]]
      BY <2>3, <2>4 DEF SiftsUp
    <3> QED BY ONLY <3>1
  <2> QED BY <2>2, <2>3, <2>5, IsASeq
<1>3. CASE ~(n < k) /\ e.score > h[1].score
  <2> DEFINE g == [h EXCEPT ![1] = e]
  <2>1. g \in [1..n -> E] /\ n >= 1
    BY <1>1, <1>3
  <2>2. Offer(h, e, k) = siftDown(g)
    BY <1>3 DEF Offer
  <2> HIDE DEF g, n
  <2>3. PICK c : SiftsDown(g, E, n, c)
    BY <1>1, <2>1, SiftDownRun
  <2>4. siftDown(g) \in [1..n -> E]
    <3>1. n \in 0..n /\ siftDown(g) = c[n].heap /\ c \in [0..n -> [heap : [1..n -> E], at : 1..n]]
      BY <1>1, <2>3 DEF SiftsDown
    <3> QED BY ONLY <3>1
  <2> QED BY <1>1, <2>2, <2>4, IsASeq
<1>4. CASE ~(n < k) /\ ~(e.score > h[1].score)
  BY <1>4 DEF Offer
<1> QED BY <1>2, <1>3, <1>4

(* What topK makes of items: entries with their scores, offered one by one. *)
Entry(items, score, i) == [item |-> items[i], score |-> score[items[i]]]

Entered(items, score, m) == {Entry(items, score, i) : i \in 1..m}

Scoring(items, score) ==
    /\ Len(items) \in Nat /\ DOMAIN items = 1..Len(items)
    /\ \A i \in 1..Len(items) : score[items[i]] \in Int

FullHeap(items, k, score) ==
    FoldLeft(LAMBDA heap, x : Offer(heap, [item |-> x, score |-> score[x]], k), <<>>, items)

OfferingRun(items, k, score, h) ==
    /\ h \in [0..Len(items) -> Seq(Entered(items, score, Len(items)))]
    /\ h[0] = <<>> /\ h[Len(items)] = FullHeap(items, k, score)
    /\ \A i \in 1..Len(items) : h[i] = Offer(h[i - 1], Entry(items, score, i), k)

(* The entries of the items.                                                *)
LEMMA EnteredIs ==
    ASSUME NEW items, NEW score, Scoring(items, score)
    PROVE  /\ \A m \in 0..Len(items) : Graded(Entered(items, score, m))
           /\ \A i \in 1..Len(items) : /\ Entry(items, score, i).score \in Int
                                       /\ Entry(items, score, i) \in Entered(items, score, Len(items))
BY DEF Scoring, Graded, Entered, Entry

(* The heaps that offering the items goes through.                          *)
LEMMA Offering ==
    ASSUME NEW items, NEW score, Scoring(items, score), NEW k \in Nat, k >= 1
    PROVE  \E h : OfferingRun(items, k, score, h)
<1> DEFINE n == Len(items)
           E == Entered(items, score, n)
           V == Seq(E)
           e(i) == Entry(items, score, i)
           F == [p \in V \X (1..n) |-> Offer(p[1], e(p[2]), k)]
           b == <<>>
<1>0. n \in Nat /\ DOMAIN items = 1..n /\ Graded(E) /\ \A i \in 1..n : e(i) \in E
  BY EnteredIs DEF Scoring
<1>1. b \in V
  OBVIOUS
<1> HIDE DEF n, E, b
<1>2. \A v \in V, i \in 1..n : Offer(v, e(i), k) \in V
  <2> HIDE DEF e
  <2> QED BY <1>0, OfferType
<1> HIDE DEF e, V
<1>3. \A v \in V, i \in 1..n : F[<<v, i>>] = Offer(v, e(i), k)
  OBVIOUS
<1>4. Loop(n, V, b, F)
  <2>1. F \in [V \X (1..n) -> V]
    BY <1>2
  <2> HIDE DEF F
  <2> QED BY <1>0, <1>1, <2>1 DEF Loop
<1> HIDE DEF F
<1>5. PICK g : Unfolds(n, V, b, F, g) /\ Typed(n, V, g)
  BY <1>4, Fold
<1> DEFINE Same(f) == f = [x \in SUBSET (1..n) |->
                       IF x = {} THEN b ELSE Offer(f[x \ {Max(x)}], e(Max(x)), k)]
           c == CHOOSE f : Same(f)
<1>6. Same(g)
  <2>1. \A x \in SUBSET (1..n) : x # {} => g[x] = Offer(g[x \ {Max(x)}], e(Max(x)), k)
    BY <1>3, <1>5 DEF Unfolds, Typed
  <2>2. g[{}] = b /\ g = [x \in SUBSET (1..n) |-> g[x]]
    BY <1>5 DEF Unfolds, Typed
  <2> QED BY <2>1, <2>2
<1>7. c[1..n] = FullHeap(items, k, score)
  BY <1>0 DEF FullHeap, FoldLeft, MapThenFoldSet, e, Entry, b
<1>8. \E f : Same(f)
  <2> HIDE DEF Same
  <2> QED BY <1>6
<1>9. Same(c)
  <2> HIDE DEF Same
  <2> QED BY <1>8
<1> HIDE DEF c
<1>10. Unfolds(n, V, b, F, c)
  <2>1. c[{}] = b
    BY <1>9
  <2>2. ASSUME NEW x \in SUBSET (1..n), x # {}, c[x \ {Max(x)}] \in V
        PROVE c[x] = F[<<c[x \ {Max(x)}], Max(x)>>]
    <3>1. c[x] = Offer(c[x \ {Max(x)}], e(Max(x)), k)
      BY <1>9, <2>2
    <3>2. Max(x) \in 1..n
      BY <1>5, <2>2 DEF Typed
    <3> HIDE DEF Same
    <3> QED BY <1>3, <2>2, <3>1, <3>2
  <2> HIDE DEF Same
  <2> QED BY <2>1, <2>2 DEF Unfolds
<1>11. PICK h : Goes(n, V, b, F, h) /\ h[n] = c[1..n]
  BY <1>4, <1>10, History
<1>12. h \in [0..n -> V] /\ h[0] = b /\ \A i \in 1..n : h[i] = F[<<h[i - 1], i>>]
  BY <1>11 DEF Goes
<1>13. ASSUME NEW i \in 1..n PROVE h[i] = Offer(h[i - 1], e(i), k)
  <2>1. i - 1 \in 0..n
    BY <1>0
  <2>2. h[i - 1] \in V
    BY <1>12, <2>1
  <2> QED BY <1>3, <1>12, <2>2
<1>14. OfferingRun(items, k, score, h)
  BY <1>7, <1>11, <1>12, <1>13 DEF OfferingRun, n, V, E, e, b
<1> QED BY <1>14

(* After m different items the heap has the best of them.                   *)
LEMMA Filled ==
    ASSUME NEW items, NEW score, Scoring(items, score), NEW k \in Nat, k >= 1,
           \A i, j \in 1..Len(items) : items[i] = items[j] => i = j
    PROVE  \E R : Offered(FullHeap(items, k, score), R, Least(k, Len(items)),
                          Entered(items, score, Len(items)), k)
<1> DEFINE n == Len(items)
           e(i) == Entry(items, score, i)
           S(m) == Entered(items, score, m)
<1>1. n \in Nat /\ (\A m \in 0..n : Graded(S(m))) /\ \A i \in 1..n : e(i).score \in Int
  BY EnteredIs DEF Scoring
<1>2. PICK h : OfferingRun(items, k, score, h)
  BY Offering
<1>3. h[0] = <<>> /\ h[n] = FullHeap(items, k, score) /\ \A i \in 1..n : h[i] = Offer(h[i - 1], e(i), k)
  BY <1>2 DEF OfferingRun
<1>4. S(0) = {}
  BY DEF Entered
<1>5. \A m \in 0..n - 1 : m + 1 \in 1..n /\ S(m + 1) = S(m) \cup {e(m + 1)} /\ e(m + 1) \notin S(m)
  <2> SUFFICES ASSUME NEW m \in 0..n - 1
               PROVE m + 1 \in 1..n /\ S(m + 1) = S(m) \cup {e(m + 1)} /\ e(m + 1) \notin S(m)
    OBVIOUS
  <2>1. m \in Nat /\ m + 1 \in 1..n /\ \A i : i \in 1..m + 1 <=> i \in 1..m \/ i = m + 1
    BY <1>1
  <2>2. S(m + 1) = S(m) \cup {e(m + 1)}
    <3> HIDE DEF e
    <3>1. \A l \in Nat : \A x : x \in S(l) <=> \E i \in 1..l : x = e(i)
      BY DEF Entered, e
    <3>2. m + 1 \in Nat
      BY <2>1
    <3> HIDE DEF S
    <3> QED BY <2>1, <3>1, <3>2
  <2>3. ASSUME e(m + 1) \in S(m) PROVE FALSE
    <3>1. PICK i \in 1..m : e(m + 1) = e(i)
      BY <2>3 DEF Entered
    <3>2. items[m + 1] = items[i]
      BY <3>1 DEF Entry
    <3>3. i \in 1..n /\ i # m + 1
      BY <1>1, <2>1
    <3> QED BY <2>1, <3>2, <3>3
  <2> QED BY <2>1, <2>2, <2>3
<1> HIDE DEF n, e, S
<1> DEFINE T == {m \in 0..n : \E R : Offered(h[m], R, Least(k, m), S(m), k)}
<1>6. 0 \in T
  <2>1. Least(k, 0) = 0 /\ 0 \in 0..n /\ 0 < k
    BY <1>1 DEF Least
  <2>2. Holds(<<>>, {}, 0) /\ Heaped(<<>>, 0)
    BY DEF Holds, Heaped
  <2>3. Offered(<<>>, {}, 0, {}, k)
    BY <2>2 DEF Offered
  <2> QED BY <1>3, <1>4, <2>1, <2>3
<1>7. ASSUME NEW m \in 0..n - 1, m \in T PROVE m + 1 \in T
  <2>1. PICK R : Offered(h[m], R, Least(k, m), S(m), k)
    BY <1>7
  <2>2. m \in Nat /\ m \in 0..n /\ m + 1 \in 0..n /\ m + 1 \in 1..n /\ (m + 1) - 1 = m
    BY <1>1
  <2>3. h[m + 1] = Offer(h[m], e(m + 1), k) /\ e(m + 1).score \in Int /\ Graded(S(m))
        /\ S(m + 1) = S(m) \cup {e(m + 1)} /\ e(m + 1) \notin S(m)
    BY <1>1, <1>3, <1>5, <2>2
  <2>4. PICK Q : Offered(Offer(h[m], e(m + 1), k), Q, Least(k, Least(k, m) + 1), S(m) \cup {e(m + 1)}, k)
    BY <2>1, <2>3, OfferKeeps
  <2>5. Least(k, Least(k, m) + 1) = Least(k, m + 1)
    BY <2>2 DEF Least
  <2>6. Offered(h[m + 1], Q, Least(k, m + 1), S(m + 1), k)
    BY <2>3, <2>4, <2>5
  <2> QED BY <2>2, <2>6
<1>8. n \in T
  <2> HIDE DEF T
  <2>1. \A m \in 0..n : m \in T
    BY ONLY <1>1, <1>6, <1>7, UpTo
  <2> QED BY <1>1, <2>1
<1> QED BY <1>3, <1>8 DEF n, S

(* The items of entries, each once.                                         *)
Keyed(R) == \A x, y \in R : x.item = y.item => x = y

Poured(out, P, m) ==
    /\ out \in [1..m -> {x.item : x \in P}]
    /\ \A i, j \in 1..m : out[i] = out[j] => i = j
    /\ \A x \in P : \E i \in 1..m : out[i] = x.item

(* What was taken out are items.                                            *)
LEMMA PouredType ==
    ASSUME NEW out, NEW P, NEW m, Poured(out, P, m)
    PROVE  out \in [1..m -> {x.item : x \in P}]
BY DEF Poured

(* The worst is taken out of the heap.                                      *)
Pop(v) ==
    LET h == v.heap IN
      [heap |-> IF Len(h) = 1 THEN <<>> ELSE siftDown([Front(h) EXCEPT ![1] = Last(h)]),
       out  |-> <<h[1].item>> \o v.out]

(* What is left in the heap after m turns, and what has been taken out.     *)
Draining(v, R, n, m) ==
    /\ v = [heap |-> v.heap, out |-> v.out]
    /\ \E Q \in SUBSET R : Holds(v.heap, Q, n - m) /\ Heaped(v.heap, n - m) /\ Poured(v.out, R \ Q, m)

(* Taking the root out leaves a heap of the others.                         *)
LEMMA PopHeap ==
    ASSUME NEW Q, Graded(Q), NEW l \in Nat, l >= 1, NEW h, Holds(h, Q, l), Heaped(h, l)
    PROVE  LET g == IF Len(h) = 1 THEN <<>> ELSE siftDown([Front(h) EXCEPT ![1] = Last(h)]) IN
             Holds(g, Q \ {h[1]}, l - 1) /\ Heaped(g, l - 1)
<1> DEFINE P == Q \ {h[1]}
<1>1. /\ h \in [1..l -> Q] /\ h \in Seq(Q) /\ Len(h) = l /\ DOMAIN h = 1..l
      /\ (\A i, j \in 1..l : h[i] = h[j] => i = j)
      /\ \A x \in Q : \E i \in 1..l : h[i] = x
  BY LengthOf DEF Holds
<1>2. 1 \in 1..l /\ h[1] \in Q
  BY <1>1
<1>3. CASE l = 1
  <2>1. P = {}
    BY <1>1, <1>3
  <2>2. Holds(<<>>, {}, 0) /\ Heaped(<<>>, 0)
    BY DEF Holds, Heaped
  <2>3. l - 1 = 0 /\ Len(h) = 1
    BY <1>1, <1>3
  <2> QED BY <2>1, <2>2, <2>3
<1>4. CASE l # 1
  <2> DEFINE g == [Front(h) EXCEPT ![1] = Last(h)]
             k == l - 1
  <2>0. k \in Nat /\ k >= 1 /\ k < l /\ l \in 1..l /\ l = k + 1
    BY <1>4
  <2>1. g \in [1..k -> Q] /\ g[1] = h[l] /\ \A i \in 2..k : g[i] = h[i]
    <3>1. Front(h) = SubSeq(h, 1, k) /\ Last(h) = h[l]
      BY <1>1 DEF Front, Last
    <3> HIDE DEF k
    <3> DEFINE u == SubSeq(h, 1, k)
    <3>2. u \in Seq(Q) /\ Len(u) = k /\ \A i \in 1..k : u[i] = h[i]
      BY <1>1, <2>0
    <3>3. 1 \in 1..k /\ \A i \in 2..k : i \in 1..k /\ i # 1
      BY <2>0
    <3>4. g = [u EXCEPT ![1] = h[l]] /\ h[l] \in Q
      BY <1>1, <2>0, <3>1
    <3> HIDE DEF g, u
    <3>5. u \in [1..k -> Q]
      BY <3>2
    <3> QED BY <3>2, <3>3, <3>4, <3>5
  <2> HIDE DEF g, k, P
  <2>2. \A i \in 1..k : i = 1 \/ i \in 2..k
    BY <2>0
  <2>3. \A i \in 2..k : i \in 1..l /\ i # 1 /\ i # l
    BY <2>0
  <2>4. g \in [1..k -> P]
    <3>1. \A i \in 1..k : g[i] \in P
      BY <1>1, <1>2, <1>4, <2>0, <2>1, <2>2, <2>3 DEF P
    <3> QED BY <2>1, <3>1
  <2>5. \A i, j \in 1..k : g[i] = g[j] => i = j
    BY <1>1, <2>0, <2>1, <2>2, <2>3
  <2>6. \A x \in P : \E i \in 1..k : g[i] = x
    <3> SUFFICES ASSUME NEW x \in P PROVE \E i \in 1..k : g[i] = x
      OBVIOUS
    <3>1. PICK i \in 1..l : h[i] = x
      BY <1>1 DEF P
    <3>2. i # 1
      BY <3>1 DEF P
    <3>3. CASE i = l
      BY <2>0, <2>1, <3>1, <3>3
    <3>4. CASE i # l
      <4>1. i \in 2..k /\ i \in 1..k
        BY <2>0, <3>2, <3>4
      <4> QED BY <2>1, <3>1, <4>1
    <3> QED BY <3>3, <3>4
  <2>7. Holds(g, P, k)
    BY <2>0, <2>4, <2>5, <2>6 DEF Holds
  <2>8. Ordered2(g, k, 1)
    <3>1. ASSUME NEW j \in 2..k, j \div 2 # 1 PROVE g[j].score >= g[j \div 2].score
      <4>1. j \div 2 \in 2..k /\ j \in 2..l
        BY <2>0, <3>1, HalfIs
      <4>2. h[j].score >= h[j \div 2].score
        BY <4>1 DEF Heaped
      <4> QED BY <2>1, <4>1, <4>2
    <3> QED BY <3>1 DEF Ordered2
  <2>9. Graded(P)
    BY DEF Graded, P
  <2>10. Holds(siftDown(g), P, k) /\ Heaped(siftDown(g), k)
    BY <2>0, <2>7, <2>8, <2>9, SiftDownIs
  <2> QED BY <1>1, <1>4, <2>10 DEF g, k, P
<1> QED BY <1>3, <1>4

(* A list with one before it.                                               *)
LEMMA PrependIs ==
    ASSUME NEW Z, NEW y \in Z, NEW out \in Seq(Z), NEW m \in Nat, Len(out) = m
    PROVE  LET z == <<y>> \o out IN
             z \in Seq(Z) /\ Len(z) = m + 1 /\ z[1] = y /\ \A i \in 2..m + 1 : z[i] = out[i - 1]
<1> DEFINE one == <<y>>
           z == one \o out
<1>1. one \in Seq(Z) /\ Len(one) = 1 /\ one[1] = y
  OBVIOUS
<1> HIDE DEF one
<1>2. z \in Seq(Z) /\ Len(z) = 1 + m
  BY <1>1, ConcatProperties
<1>7. \A i \in 1..Len(one) + Len(out) : z[i] = IF i <= Len(one) THEN one[i] ELSE out[i - Len(one)]
  <2> HIDE DEF z
  <2>1. \A i \in 1..Len(one) + Len(out) : (one \o out)[i] = IF i <= Len(one) THEN one[i] ELSE out[i - Len(one)]
    BY ONLY <1>1, out \in Seq(Z), ConcatProperties
  <2> QED BY <2>1 DEF z
<1> HIDE DEF z
<1>6. \A i \in 1..1 + m : z[i] = IF i <= 1 THEN one[i] ELSE out[i - 1]
  BY <1>1, <1>7
<1> HIDE DEF z
<1>3. z[1] = y
  BY <1>1, <1>6
<1>4. ASSUME NEW i \in 2..m + 1 PROVE z[i] = out[i - 1]
  <2>1. i \in Nat /\ i > 1 /\ i <= 1 + m
    OBVIOUS
  <2> QED BY <1>6, <2>1
<1>5. 1 + m = m + 1
  OBVIOUS
<1> QED BY <1>2, <1>3, <1>4, <1>5 DEF z, one

(* What was taken out, with what is taken out next before it.               *)
LEMMA PourMore ==
    ASSUME NEW m \in Nat, NEW P, NEW out, Poured(out, P, m), NEW r, r \notin P, Keyed(P \cup {r})
    PROVE  Poured(<<r.item>> \o out, P \cup {r}, m + 1)
<1> DEFINE T == {x.item : x \in P}
           Z == {x.item : x \in P \cup {r}}
           new == <<r.item>> \o out
<1>1. /\ out \in [1..m -> T]
      /\ (\A i, j \in 1..m : out[i] = out[j] => i = j)
      /\ \A x \in P : \E i \in 1..m : out[i] = x.item
  BY DEF Poured
<1>2. \A x \in P : x.item \in T /\ x.item \in Z
  OBVIOUS
<1>3. \A y \in T : y \in Z /\ y # r.item
  BY DEF Keyed
<1>4. r.item \in Z
  OBVIOUS
<1>5. \A y \in Z : y = r.item \/ y \in T
  OBVIOUS
<1> HIDE DEF T, Z
<1>6. out \in Seq(T) /\ Len(out) = m
  BY <1>1, IsASeq
<1>7. new \in Seq(Z) /\ Len(new) = m + 1 /\ new[1] = r.item /\ \A i \in 2..m + 1 : new[i] = out[i - 1]
  <2>1. <<r.item>> \in Seq(Z) /\ out \in Seq(Z) /\ Len(<<r.item>>) = 1 /\ <<r.item>>[1] = r.item
    BY <1>3, <1>4, <1>6
  <2> DEFINE y == r.item
  <2>2. y \in Z /\ out \in Seq(Z)
    BY <1>4, <2>1
  <2> HIDE DEF y
  <2>3. LET z == <<y>> \o out IN
          z \in Seq(Z) /\ Len(z) = m + 1 /\ z[1] = y /\ \A i \in 2..m + 1 : z[i] = out[i - 1]
    BY ONLY <1>6, <2>2, m \in Nat, PrependIs
  <2> QED BY <2>3 DEF y
<1> HIDE DEF new
<1>8. \A i \in 1..m + 1 : i = 1 \/ (i \in 2..m + 1 /\ i - 1 \in 1..m)
  OBVIOUS
<1>9. new \in [1..m + 1 -> Z]
  <2>1. \A i \in 1..m + 1 : new[i] \in Z
    BY <1>1, <1>3, <1>4, <1>7, <1>8
  <2>2. DOMAIN new = 1..m + 1
    BY <1>7
  <2> QED BY <1>7, <2>1, <2>2
<1>10. \A i, j \in 1..m + 1 : new[i] = new[j] => i = j
  <2> SUFFICES ASSUME NEW i \in 1..m + 1, NEW j \in 1..m + 1, new[i] = new[j] PROVE i = j
    OBVIOUS
  <2>1. \A l \in 2..m + 1 : l - 1 \in 1..m /\ new[l] = out[l - 1] /\ new[l] # r.item
    BY <1>1, <1>3, <1>7
  <2>2. CASE i = 1 \/ j = 1
    BY <1>7, <1>8, <2>1, <2>2
  <2>3. CASE i # 1 /\ j # 1
    <3>1. i \in 2..m + 1 /\ j \in 2..m + 1
      BY <1>8, <2>3
    <3>2. out[i - 1] = out[j - 1] /\ i - 1 \in 1..m /\ j - 1 \in 1..m
      BY <2>1, <3>1
    <3>3. i - 1 = j - 1
      BY <1>1, <3>2
    <3> QED BY <3>3
  <2> QED BY <2>2, <2>3
<1>11. \A x \in P \cup {r} : \E i \in 1..m + 1 : new[i] = x.item
  <2> SUFFICES ASSUME NEW x \in P \cup {r} PROVE \E i \in 1..m + 1 : new[i] = x.item
    OBVIOUS
  <2>1. CASE x = r
    BY <1>7, <2>1
  <2>2. CASE x \in P
    <3>1. PICK i \in 1..m : out[i] = x.item
      BY <1>1, <2>2
    <3>2. i + 1 \in 2..m + 1 /\ i + 1 \in 1..m + 1 /\ (i + 1) - 1 = i
      OBVIOUS
    <3> QED BY <1>7, <3>1, <3>2
  <2> QED BY <2>1, <2>2
<1> QED BY <1>9, <1>10, <1>11 DEF Poured, new, Z

(* A turn of draining.                                                      *)
LEMMA PopKeeps ==
    ASSUME NEW R, Graded(R), Keyed(R), NEW n \in Nat, NEW m \in 0..n - 1, NEW v, Draining(v, R, n, m)
    PROVE  Draining(Pop(v), R, n, m + 1)
<1>1. PICK Q \in SUBSET R : Holds(v.heap, Q, n - m) /\ Heaped(v.heap, n - m) /\ Poured(v.out, R \ Q, m)
  BY DEF Draining
<1> DEFINE l == n - m
           h == v.heap
           r == h[1]
           P == Q \ {r}
<1>2. l \in Nat /\ l >= 1 /\ m \in Nat /\ n - (m + 1) = l - 1 /\ Graded(Q)
  BY DEF Graded
<1>3. r \in Q
  <2>1. h \in [1..l -> Q] /\ 1 \in 1..l
    BY <1>1, <1>2 DEF Holds
  <2> QED BY <2>1
<1>4. Holds(h, Q, l) /\ Heaped(h, l)
  BY <1>1
<1>5. Pop(v) = [heap |-> Pop(v).heap, out |-> Pop(v).out] /\ Pop(v).out = <<r.item>> \o v.out
      /\ Pop(v).heap = (IF Len(h) = 1 THEN <<>> ELSE siftDown([Front(h) EXCEPT ![1] = Last(h)]))
  BY DEF Pop
<1> HIDE DEF h, l
<1>6. Holds(Pop(v).heap, P, l - 1) /\ Heaped(Pop(v).heap, l - 1)
  BY <1>2, <1>4, <1>5, PopHeap
<1>7. (R \ Q) \cup {r} = R \ P /\ r \notin R \ Q
  BY <1>3
<1>8. Keyed((R \ Q) \cup {r})
  BY <1>3 DEF Keyed
<1> HIDE DEF r, P
<1>9. Poured(Pop(v).out, R \ P, m + 1)
  <2>1. Poured(<<r.item>> \o v.out, (R \ Q) \cup {r}, m + 1)
    BY <1>1, <1>2, <1>7, <1>8, PourMore
  <2> QED BY <1>5, <1>7, <2>1
<1>10. P \in SUBSET R
  BY DEF P
<1> QED BY <1>2, <1>5, <1>6, <1>9, <1>10 DEF Draining

(* A heap is drained of all it holds.                                       *)
LEMMA DrainedIs ==
    ASSUME NEW R, Graded(R), Keyed(R), NEW n \in Nat, NEW h, Holds(h, R, n), Heaped(h, n)
    PROVE  Poured(Drained(h), R, n)
<1> DEFINE b == [heap |-> h, out |-> <<>>]
           T == {x.item : x \in R}
           V == [heap : Seq(R), out : Seq(T)]
           F == [q \in V \X (1..n) |-> IF Pop(q[1]) \in V THEN Pop(q[1]) ELSE q[1]]
           Same(f) == f = [m \in 0..n |-> IF m = 0 THEN b ELSE Pop(f[m - 1])]
           c == CHOOSE f : Same(f)
<1>1. Draining(b, R, n, 0)
  <2>1. R \in SUBSET R /\ R \ R = {} /\ n - 0 = n
    OBVIOUS
  <2>2. Poured(<<>>, {}, 0)
    BY DEF Poured
  <2>3. b.heap = h /\ b.out = <<>>
    OBVIOUS
  <2> HIDE DEF b
  <2>4. b = [heap |-> b.heap, out |-> b.out]
    BY DEF b
  <2> QED BY <2>1, <2>2, <2>3, <2>4 DEF Draining
<1>2. ASSUME NEW v, NEW m \in 0..n, Draining(v, R, n, m) PROVE v \in V
  <2>1. PICK Q \in SUBSET R : Holds(v.heap, Q, n - m) /\ Poured(v.out, R \ Q, m)
    BY <1>2 DEF Draining
  <2>2. v.heap \in Seq(R)
    <3>1. v.heap \in [1..n - m -> Q] /\ n - m \in Nat
      BY <2>1 DEF Holds
    <3> DEFINE g == v.heap
               l == n - m
    <3>2. g \in [1..l -> R] /\ l \in Nat
      BY <3>1
    <3> HIDE DEF g, l
    <3>3. g \in Seq(R)
      BY <3>2, IsASeq
    <3> QED BY <3>3 DEF g
  <2>3. v.out \in Seq(T)
    <3> DEFINE g == v.out
               S == {x.item : x \in R \ Q}
    <3>1. g \in [1..m -> S] /\ m \in Nat
      BY <2>1, PouredType
    <3>2. S \in SUBSET T
      OBVIOUS
    <3> HIDE DEF g, S, T
    <3>3. g \in [1..m -> T]
      BY <3>1, <3>2
    <3>4. g \in Seq(T)
      BY <3>1, <3>3, IsASeq
    <3> QED BY <3>4 DEF g
  <2>4. v = [heap |-> v.heap, out |-> v.out]
    BY <1>2 DEF Draining
  <2> HIDE DEF T
  <2> QED BY <2>2, <2>3, <2>4
<1>3. b \in V
  <2>1. 0 \in 0..n
    OBVIOUS
  <2> HIDE DEF b, V
  <2> QED BY <1>1, <1>2, <2>1
<1> HIDE DEF b, V
<1>4. Loop(n, V, b, F)
  <2>1. F \in [V \X (1..n) -> V]
    OBVIOUS
  <2> HIDE DEF F
  <2> QED BY <1>3, <2>1 DEF Loop
<1>5. PICK g : Goes(n, V, b, F, g)
  <2> HIDE DEF F
  <2> QED BY <1>4, Turns
<1>6. g \in [0..n -> V] /\ g[0] = b /\ \A i \in 1..n : g[i] = F[<<g[i - 1], i>>]
  BY <1>5 DEF Goes
<1>7. ASSUME NEW m \in 0..n - 1, Draining(g[m], R, n, m)
      PROVE  g[m + 1] = Pop(g[m]) /\ Draining(g[m + 1], R, n, m + 1)
  <2>1. m \in 0..n /\ m + 1 \in 0..n /\ m + 1 \in 1..n /\ (m + 1) - 1 = m
    OBVIOUS
  <2>2. Draining(Pop(g[m]), R, n, m + 1)
    BY <1>7, PopKeeps
  <2>3. Pop(g[m]) \in V /\ g[m] \in V
    BY <1>2, <1>6, <2>1, <2>2
  <2>4. g[m + 1] = F[<<g[m], m + 1>>]
    BY <1>6, <2>1
  <2>5. F[<<g[m], m + 1>>] = Pop(g[m])
    BY <2>1, <2>3
  <2> HIDE DEF F
  <2> QED BY <2>2, <2>4, <2>5
<1> HIDE DEF F
<1>8. \A m \in 0..n : Draining(g[m], R, n, m)
  <2> DEFINE U == {m \in 0..n : Draining(g[m], R, n, m)}
  <2>1. 0 \in U
    BY <1>1, <1>6
  <2>2. ASSUME NEW m \in 0..n - 1, m \in U PROVE m + 1 \in U
    <3>1. m + 1 \in 0..n /\ Draining(g[m], R, n, m)
      BY <2>2
    <3> QED BY <1>7, <3>1
  <2> HIDE DEF U
  <2>3. \A m \in 0..n : m \in U
    BY ONLY n \in Nat, <2>1, <2>2, UpTo
  <2> QED BY <2>3 DEF U
<1>9. Same(g)
  <2>1. ASSUME NEW m \in 0..n, m # 0 PROVE g[m] = Pop(g[m - 1])
    <3>1. m - 1 \in 0..n - 1 /\ m - 1 \in 0..n /\ (m - 1) + 1 = m
      BY <2>1
    <3>2. Draining(g[m - 1], R, n, m - 1)
      BY <1>8, <3>1
    <3>3. g[(m - 1) + 1] = Pop(g[m - 1])
      BY <1>7, <3>1, <3>2
    <3> QED BY <3>1, <3>3
  <2>2. g = [m \in 0..n |-> g[m]]
    BY <1>6
  <2> QED BY <1>6, <2>1, <2>2
<1>10. Same(c)
  <2>1. \E f : Same(f)
    <3> HIDE DEF Same
    <3> QED BY <1>9
  <2> HIDE DEF Same
  <2> QED BY <2>1
<1>11. Len(h) = n
  BY LengthOf
<1>12. Drained(h) = c[n].out
  BY <1>11 DEF Drained, Pop, b
<1>13. c = [m \in 0..n |-> IF m = 0 THEN b ELSE Pop(c[m - 1])]
  <2> HIDE DEF c
  <2> QED BY <1>10
<1> HIDE DEF c, Same
<1>14. \A m \in 0..n : Draining(c[m], R, n, m)
  <2> DEFINE U == {m \in 0..n : Draining(c[m], R, n, m)}
  <2>1. 0 \in U
    BY <1>1, <1>13
  <2>2. ASSUME NEW m \in 0..n - 1, m \in U PROVE m + 1 \in U
    <3>1. m + 1 \in 0..n /\ m + 1 # 0 /\ (m + 1) - 1 = m /\ Draining(c[m], R, n, m)
      BY <2>2
    <3>2. c[m + 1] = Pop(c[m])
      BY <1>13, <3>1
    <3>3. Draining(Pop(c[m]), R, n, m + 1)
      BY <3>1, PopKeeps
    <3> QED BY <3>1, <3>2, <3>3
  <2> HIDE DEF U
  <2>3. \A m \in 0..n : m \in U
    BY ONLY n \in Nat, <2>1, <2>2, UpTo
  <2> QED BY <2>3 DEF U
<1>15. PICK Q \in SUBSET R : Holds(c[n].heap, Q, n - n) /\ Poured(c[n].out, R \ Q, n)
  <2>1. Draining(c[n], R, n, n)
    BY <1>14
  <2> QED BY <2>1 DEF Draining
<1>16. Q = {}
  <2>1. n - n = 0 /\ 1..0 = {}
    OBVIOUS
  <2> QED BY <1>15, <2>1 DEF Holds
<1>17. R \ Q = R
  BY <1>16
<1> QED BY <1>12, <1>15, <1>17

(* A sequence that holds each of its values once.                           *)
Once(r, n, S) ==
    /\ n \in Nat /\ r \in [1..n -> S]
    /\ \A i, j \in 1..n : r[i] = r[j] => i = j

(* What such a sequence holds, and how many.                                *)
LEMMA OnceIs ==
    ASSUME NEW r, NEW n, NEW S, Once(r, n, S)
    PROVE  /\ r \in Seq(S) /\ Len(r) = n /\ DOMAIN r = 1..n
           /\ Range(r) \subseteq S /\ \A x : x \in Range(r) <=> \E i \in 1..n : r[i] = x
           /\ IsFiniteSet(Range(r)) /\ Cardinality(Range(r)) = n
<1>1. n \in Nat /\ r \in [1..n -> S] /\ \A i, j \in 1..n : r[i] = r[j] => i = j
  BY DEF Once
<1>2. r \in Seq(S) /\ Len(r) = n /\ DOMAIN r = 1..n
  BY <1>1, IsASeq
<1>3. \A x : x \in Range(r) <=> \E i \in 1..n : r[i] = x
  BY <1>1 DEF Range
<1> DEFINE T == Range(r)
<1>4. r \in [1..n -> T]
  BY <1>1, <1>3
<1> HIDE DEF T
<1>5. r \in Bijection(1..n, T)
  BY <1>1, <1>3, <1>4 DEF Bijection, Injection, Surjection, IsInjective, T
<1>6. ExistsBijection(1..n, T)
  BY <1>5 DEF ExistsBijection
<1>7. Cardinality(T) = n
  BY ONLY <1>1, <1>6, FS_CountingElements
<1>8. IsFiniteSet(T)
  BY ONLY <1>1, <1>6, FS_NatBijection
<1>9. T \subseteq S
  BY <1>1, <1>3 DEF T
<1> QED BY <1>2, <1>3, <1>7, <1>8, <1>9 DEF T

(* topK fills a heap and drains it.                                         *)
LEMMA TopKOf ==
    ASSUME NEW items, NEW k, NEW score
    PROVE  topK(items, k, score) = IF k <= 0 THEN <<>> ELSE Drained(FullHeap(items, k, score))
BY DEF topK, FullHeap

(* The n best of some items.                                                *)
Bests(r, n, items, score) ==
    /\ Once(r, n, Range(items))
    /\ \A x \in Range(items) \ Range(r), y \in Range(r) : score[x] <= score[y]

(* topK returns different items, as many as are wanted or there are, and    *)
(* leaves out none that is worth more than one it returns.                  *)
THEOREM TopKIs ==
    ASSUME NEW items, NEW score, Scoring(items, score), NEW k \in Nat,
           \A i, j \in 1..Len(items) : items[i] = items[j] => i = j
    PROVE  Bests(topK(items, k, score), Least(k, Len(items)), items, score)
<1> DEFINE n == Len(items)
           m == Least(k, n)
           r == topK(items, k, score)
           e(i) == Entry(items, score, i)
           S == Entered(items, score, n)
<1>1. n \in Nat /\ DOMAIN items = 1..n /\ Graded(S) /\ m \in Nat
  <2>1. n \in Nat /\ DOMAIN items = 1..n /\ n \in 0..n
    BY DEF Scoring
  <2> QED BY <2>1, EnteredIs DEF Least
<1>2. CASE k = 0
  <2>1. r = <<>> /\ m = 0
    BY <1>1, <1>2 DEF topK, Least
  <2>2. 1..0 = {} /\ Range(<<>>) = {}
    BY DEF Range
  <2>3. Once(r, 0, Range(items))
    BY <2>1, <2>2 DEF Once
  <2> HIDE DEF r, m, n
  <2> QED BY <2>1, <2>2, <2>3 DEF Bests, r, m, n
<1>3. CASE k >= 1
  <2>1. PICK R : Offered(FullHeap(items, k, score), R, m, S, k)
    BY <1>3, Filled
  <2> DEFINE h == FullHeap(items, k, score)
  <2>2. r = Drained(h)
    <3>1. r = IF k <= 0 THEN <<>> ELSE Drained(h)
      BY TopKOf
    <3> HIDE DEF r, h
    <3> QED BY <1>3, <3>1
  <2> HIDE DEF h, r
  <2>3. Holds(h, R, m) /\ Heaped(h, m) /\ R \subseteq S /\ \A x \in S \ R, y \in R : x.score <= y.score
    BY <2>1 DEF Offered, h
  <2>4. \A x \in S : \E i \in 1..n : x = e(i)
    BY DEF Entered
  <2>5. \A i \in 1..n : e(i) \in S /\ e(i).item = items[i] /\ e(i).score = score[items[i]]
    BY DEF Entered, Entry
  <2> HIDE DEF S, n, m, e
  <2>6. Graded(R) /\ Keyed(R)
    <3>1. ASSUME NEW x \in R, NEW y \in R, x.item = y.item PROVE x = y
      <4>1. PICK i \in 1..n : x = e(i)
        BY <2>3, <2>4
      <4>2. PICK j \in 1..n : y = e(j)
        BY <2>3, <2>4
      <4>3. items[i] = items[j]
        BY <2>5, <3>1, <4>1, <4>2
      <4>4. i = j
        BY <4>3 DEF n
      <4> QED BY <4>1, <4>2, <4>4
    <3> QED BY <1>1, <2>3, <3>1 DEF Graded, Keyed
  <2>7. Poured(r, R, m)
    BY <1>1, <2>2, <2>3, <2>6, DrainedIs
  <2>8. \A x \in R : x.item \in Range(items) /\ x.score = score[x.item]
    <3>1. \A i \in 1..n : items[i] \in Range(items)
      BY <1>1 DEF Range
    <3> QED BY <2>3, <2>4, <2>5, <3>1
  <2>9. r \in [1..m -> {x.item : x \in R}]
    BY <2>7, PouredType
  <2>10. \A i \in 1..m : \E x \in R : r[i] = x.item
    <3> DEFINE Z == {x.item : x \in R}
    <3>1. \A z \in Z : \E x \in R : z = x.item
      OBVIOUS
    <3>2. r \in [1..m -> Z]
      BY <2>9
    <3> HIDE DEF Z
    <3> QED BY <3>1, <3>2
  <2>11. Once(r, m, Range(items))
    <3>1. \A i \in 1..m : r[i] \in Range(items)
      BY <2>8, <2>10
    <3>2. r = [i \in 1..m |-> r[i]]
      <4> DEFINE Z == {x.item : x \in R}
      <4>1. r \in [1..m -> Z]
        BY <2>9
      <4> HIDE DEF Z
      <4> QED BY <4>1
    <3>3. r \in [1..m -> Range(items)]
      BY <3>1, <3>2
    <3>4. \A i, j \in 1..m : r[i] = r[j] => i = j
      BY <2>7 DEF Poured
    <3> QED BY <1>1, <3>3, <3>4 DEF Once
  <2>12. ASSUME NEW x \in Range(items) \ Range(r), NEW y \in Range(r) PROVE score[x] <= score[y]
    <3>0. \A z : z \in Range(r) <=> \E i \in 1..m : r[i] = z
      BY <2>11, OnceIs
    <3>1. PICK i \in 1..n : items[i] = x
      BY <1>1 DEF Range
    <3>2. PICK j \in 1..m : r[j] = y
      BY <3>0
    <3>3. PICK f \in R : y = f.item
      BY <2>10, <3>2
    <3>4. e(i) \notin R
      <4> SUFFICES ASSUME e(i) \in R PROVE FALSE
        OBVIOUS
      <4>1. \E l \in 1..m : r[l] = e(i).item
        BY <2>7 DEF Poured
      <4>2. x \in Range(r)
        BY <2>5, <3>0, <3>1, <4>1
      <4> QED BY <4>2
    <3>5. e(i).score <= f.score
      BY <2>3, <2>5, <3>4
    <3> QED BY <2>5, <2>8, <3>1, <3>3, <3>5
  <2> QED BY <2>11, <2>12 DEF Bests, r, m, n
<1> QED BY <1>2, <1>3

(* The n best of a set of numbers, of those that are worth more.            *)
TopOf(r, n, S, score) ==
    Once(r, n, S) /\ \A x \in S \ Range(r), y \in Range(r) : score[x] <= score[y]

(* The same of a set of mementos, which topK is given in ascending order.   *)
LEMMA TopOfSet ==
    ASSUME NEW S \in SUBSET Nat, IsFiniteSet(S), NEW k \in Nat, NEW score, \A x \in S : score[x] \in Int
    PROVE  TopOf(topK(SortedBy(S, <), k, score), Least(k, Cardinality(S)), S, score)
<1> DEFINE s == SortedBy(S, <)
           n == Cardinality(S)
<1>0. S \in SUBSET Int
  OBVIOUS
<1>1. /\ n \in Nat
      /\ s \in [1..n -> S]
      /\ \A i, j \in 1..n : i < j => s[i] < s[j]
      /\ \A x \in S : \E i \in 1..n : s[i] = x
  BY <1>0, Ascending
<1> HIDE DEF s, n
<1>2. s \in Seq(S) /\ Len(s) = n /\ DOMAIN s = 1..n
  BY <1>1, IsASeq
<1>3. \A i, j \in 1..n : s[i] = s[j] => i = j
  <2> SUFFICES ASSUME NEW i \in 1..n, NEW j \in 1..n, s[i] = s[j], i # j PROVE FALSE
    OBVIOUS
  <2>1. i < j \/ j < i
    BY <1>1
  <2>2. s[i] \in Nat /\ s[j] \in Nat
    BY <1>1
  <2> QED BY <1>1, <2>1, <2>2
<1>4. Range(s) = S
  BY <1>1, <1>2 DEF Range
<1>5. Scoring(s, score)
  BY <1>1, <1>2 DEF Scoring
<1>6. Bests(topK(s, k, score), Least(k, n), s, score)
  BY <1>2, <1>3, <1>5, TopKIs
<1> QED BY <1>4, <1>6 DEF Bests, TopOf, s, n

(* The chunks of some mementos, and hits among them.                        *)
KeysIn(A) == {c \in Key : c[1] \in A}
HitsIn(A) == [id : KeysIn(A), distance : Int]

(* The first k of a list.                                                   *)
LEMMA TakeIs ==
    ASSUME NEW X, NEW s \in Seq(X), NEW k \in Nat
    PROVE  /\ Take(s, k) \in Seq(X) /\ Len(Take(s, k)) = Least(Len(s), k)
           /\ \A i \in 1..Least(Len(s), k) : Take(s, k)[i] = s[i]
<1> DEFINE m == Least(Len(s), k)
<1>1. Len(s) \in Nat /\ m \in 0..Len(s) /\ \A i \in 1..m : i \in 1..Len(s)
  BY DEF Least
<1>2. Take(s, k) = SubSeq(s, 1, m)
  BY DEF Take, Least
<1> HIDE DEF m
<1>3. \A i \in 1..m : s[i] \in X
  BY <1>1
<1>4. 1 \in Int /\ m \in Int
  BY <1>1
<1>5. /\ SubSeq(s, 1, m) \in Seq(X)
      /\ Len(SubSeq(s, 1, m)) = IF 1 <= m THEN m - 1 + 1 ELSE 0
      /\ \A i \in 1..m - 1 + 1 : SubSeq(s, 1, m)[i] = s[1 + i - 1]
  BY ONLY <1>3, <1>4, s \in Seq(X), SubSeqProperties
<1>6. (IF 1 <= m THEN m - 1 + 1 ELSE 0) = m /\ m - 1 + 1 = m /\ \A i \in 1..m : 1 + i - 1 = i
  BY <1>1
<1> QED BY <1>2, <1>5, <1>6 DEF m

(* The answer of the vector index names allowed chunks only.                *)
Near(distance, c, d) ==
    \/ distance[c] < distance[d]
    \/ distance[c] = distance[d] /\ (c[1] < d[1] \/ (c[1] = d[1] /\ c[2] < d[2]))

(* Chunks that are equally far are ordered by their keys.                   *)
LEMMA NearTotal ==
    ASSUME NEW S \in SUBSET Key, NEW distance, \A c \in S : distance[c] \in Int,
           NEW R, \A x, y \in S : <<x, y>> \in R <=> Near(distance, x, y)
    PROVE  Total(S, R)
<1>1. \A c \in S : c[1] \in Nat /\ c[2] \in Nat /\ c = <<c[1], c[2]>>
  <2> SUFFICES ASSUME NEW c \in S PROVE c[1] \in Nat /\ c[2] \in Nat /\ c = <<c[1], c[2]>>
    OBVIOUS
  <2>1. c \in Ids \X Nat
    BY DEF Key
  <2>2. c[1] \in Ids /\ c[2] \in Nat /\ c = <<c[1], c[2]>>
    BY <2>1
  <2> QED BY <2>2, IdsAssumption
<1>2. \A c \in S : distance[c] \in Int
  OBVIOUS
<1>3. \A x \in S : <<x, x>> \notin R
  BY <1>1, <1>2 DEF Near
<1>4. \A x, y \in S : x # y => <<x, y>> \in R \/ <<y, x>> \in R
  <2> SUFFICES ASSUME NEW x \in S, NEW y \in S, x # y PROVE Near(distance, x, y) \/ Near(distance, y, x)
    OBVIOUS
  <2>1. x[1] # y[1] \/ x[2] # y[2]
    BY <1>1
  <2>2. x[1] \in Nat /\ x[2] \in Nat /\ y[1] \in Nat /\ y[2] \in Nat /\ distance[x] \in Int /\ distance[y] \in Int
    BY <1>1
  <2> QED BY <2>1, <2>2 DEF Near
<1>5. \A x, y, z \in S : <<x, y>> \in R /\ <<y, z>> \in R => <<x, z>> \in R
  <2> SUFFICES ASSUME NEW x \in S, NEW y \in S, NEW z \in S, Near(distance, x, y), Near(distance, y, z)
               PROVE Near(distance, x, z)
    OBVIOUS
  <2>1. /\ x[1] \in Nat /\ x[2] \in Nat /\ y[1] \in Nat /\ y[2] \in Nat /\ z[1] \in Nat /\ z[2] \in Nat
        /\ distance[x] \in Int /\ distance[y] \in Int /\ distance[z] \in Int
    BY <1>1
  <2> QED BY <2>1 DEF Near
<1> QED BY <1>3, <1>4, <1>5 DEF Total

NearHits(distance, near) == [h \in DOMAIN near |-> [id |-> near[h], distance |-> distance[near[h]]]]

Reached(distance, A)   == {c \in DOMAIN distance : c[1] \in A}
NearPlace(distance, S) == [x \in S |-> 1 + Cardinality({y \in S : Near(distance, y, x)})]

(* The parts of a search of the vector index.                               *)
LEMMA NearOf ==
    ASSUME NEW distance, NEW k, NEW A
    PROVE  indexSearch(distance, k, A) =
             LET S == Reached(distance, A) IN Take(NearHits(distance, ByPlace(S, NearPlace(distance, S))), k)
BY DEF indexSearch, SortedBy, ByPlace, Near, NearHits, Reached, NearPlace

(* A search of the vector index finds chunks of mementos it may find.       *)
LEMMA IndexSearchIs ==
    ASSUME NEW D \in SUBSET Key, IsFiniteSet(D), NEW distance \in [D -> Int], NEW k \in Nat, NEW A
    PROVE  indexSearch(distance, k, A) \in Seq(HitsIn(A))
<1> DEFINE S == Reached(distance, A)
           place == NearPlace(distance, S)
           R == {p \in S \X S : Near(distance, p[1], p[2])}
           near == ByPlace(S, place)
           all == NearHits(distance, near)
<1>1. S \in SUBSET Key /\ S \in SUBSET D /\ \A c \in S : distance[c] \in Int
  BY DEF Reached
<1>2. indexSearch(distance, k, A) = Take(all, k)
  BY NearOf
<1>3. \A c \in S : c \in KeysIn(A)
  BY <1>1 DEF KeysIn, Reached
<1>4. \A x, y \in S : <<x, y>> \in R <=> Near(distance, x, y)
  OBVIOUS
<1>5. \A x \in S : Earlier(S, R, x) = {y \in S : Near(distance, y, x)}
  BY DEF Earlier
<1>6. \A x \in S : place[x] = 1 + Cardinality(Earlier(S, R, x))
  BY <1>5 DEF NearPlace
<1> HIDE DEF R, S, place
<1>7. IsFiniteSet(S)
  BY <1>1, FS_Subset
<1>8. Total(S, R)
  BY <1>1, <1>4, NearTotal
<1>9. Lists(S, R, near)
  BY <1>6, <1>7, <1>8, SortedPlaces
<1> DEFINE n == Cardinality(S)
<1>10. n \in Nat /\ near \in [1..n -> S]
  BY <1>9 DEF Lists
<1> HIDE DEF near, n
<1>11. all \in [1..n -> HitsIn(A)]
  <2>1. \A h \in 1..n : near[h] \in S
    BY <1>10
  <2>2. \A h \in 1..n : [id |-> near[h], distance |-> distance[near[h]]] \in HitsIn(A)
    BY <1>1, <1>3, <2>1 DEF HitsIn
  <2>3. DOMAIN near = 1..n
    BY <1>10
  <2> QED BY <2>2, <2>3 DEF NearHits
<1> HIDE DEF all
<1>12. all \in Seq(HitsIn(A))
  BY <1>10, <1>11, IsASeq
<1> QED BY <1>2, <1>12, TakeIs

(* Two lists without repetitions that have nothing in common, joined.       *)
LEMMA OnceJoined ==
    ASSUME NEW u, NEW m, NEW v, NEW n, NEW X, Once(u, m, X), Once(v, n, X),
           \A i \in 1..m, j \in 1..n : u[i] # v[j]
    PROVE  Once(u \o v, m + n, X)
<1> DEFINE w == u \o v
<1>1. /\ m \in Nat /\ u \in Seq(X) /\ Len(u) = m /\ n \in Nat /\ v \in Seq(X) /\ Len(v) = n
      /\ (\A i, j \in 1..m : u[i] = u[j] => i = j) /\ (\A i, j \in 1..n : v[i] = v[j] => i = j)
  BY OnceIs DEF Once
<1>2. /\ w \in Seq(X) /\ Len(w) = m + n
      /\ \A i \in 1..m + n : w[i] = IF i <= m THEN u[i] ELSE v[i - m]
  <2>0. u \in Seq(X) /\ v \in Seq(X)
    BY <1>1
  <2>1. /\ u \o v \in Seq(X) /\ Len(u \o v) = Len(u) + Len(v)
        /\ \A i \in 1..Len(u) + Len(v) : (u \o v)[i] = IF i <= Len(u) THEN u[i] ELSE v[i - Len(u)]
    BY ONLY <2>0, ConcatProperties
  <2> QED BY ONLY <1>1, <2>1
<1> HIDE DEF w
<1>3. ASSUME NEW i \in 1..m + n, NEW j \in 1..m + n, w[i] = w[j] PROVE i = j
  <2>1. /\ i <= m => i \in 1..m
        /\ ~(i <= m) => i - m \in 1..n
        /\ j <= m => j \in 1..m
        /\ ~(j <= m) => j - m \in 1..n
    BY <1>1
  <2>2. CASE i <= m /\ j <= m
    <3>1. u[i] = u[j]
      BY <1>2, <1>3, <2>2
    <3> QED BY <1>1, <2>1, <2>2, <3>1
  <2>3. CASE i <= m /\ ~(j <= m)
    <3>1. u[i] = v[j - m]
      BY <1>2, <1>3, <2>3
    <3> QED BY <2>1, <2>3, <3>1
  <2>4. CASE ~(i <= m) /\ j <= m
    <3>1. v[i - m] = u[j]
      BY <1>2, <1>3, <2>4
    <3> QED BY <2>1, <2>4, <3>1
  <2>5. CASE ~(i <= m) /\ ~(j <= m)
    <3>1. v[i - m] = v[j - m]
      BY <1>2, <1>3, <2>5
    <3>2. i - m = j - m
      BY <1>1, <2>1, <2>5, <3>1
    <3> QED BY <1>1, <3>2
  <2> QED BY <2>2, <2>3, <2>4, <2>5
<1>4. m + n \in Nat
  BY <1>1
<1>5. w \in [1..m + n -> X]
  BY <1>2
<1> QED BY <1>3, <1>4, <1>5 DEF Once, w

(* What a word of the query adds to the documents found.                    *)
PostingOf(H, term) == IF term \in DOMAIN H.postings THEN H.postings[term] ELSE <<>>

FreshPlaces(H, A, found, docs) ==
    {h \in DOMAIN docs : /\ docs[h].doc[1] \in A
                         /\ docs[h].doc \in DOMAIN H.docs
                         /\ docs[h].doc \notin Range(found)}

DocsOf(list) == [h \in DOMAIN list |-> list[h].doc]

MetIn(H, A, found, term) ==
    LET docs == PostingOf(H, term) IN found \o DocsOf(Kept(docs, FreshPlaces(H, A, found, docs)))

AllMet(H, A, tokens) == FoldLeft(LAMBDA found, term : MetIn(H, A, found, term), <<>>, tokens)

(* The words of a query, one by one.                                        *)
LEMMA ScoredOf ==
    ASSUME NEW H, NEW query, NEW A
    PROVE  Scored(H, query, A) = AllMet(H, A, tokenize(query))
BY DEF Scored, AllMet, MetIn, PostingOf, FreshPlaces, DocsOf, FoldLeft, MapThenFoldSet

Different(A) == {v \in Seq(KeysIn(A)) : Once(v, Len(v), KeysIn(A))}

(* A word adds documents that were not found yet.                           *)
LEMMA MetIs ==
    ASSUME NEW H, NEW C \in Contents, Inverted(H, C), NEW A, NEW found \in Different(A), NEW term
    PROVE  MetIn(H, A, found, term) \in Different(A)
<1> DEFINE docs == PostingOf(H, term)
           P == FreshPlaces(H, A, found, docs)
           new == Kept(docs, P)
           n == Cardinality(P)
           add == DocsOf(new)
<1>1. docs \in Seq(Posting) /\ \A i, j \in 1..Len(docs) : docs[i].doc = docs[j].doc => i = j
  <2>1. CASE term \in DOMAIN H.postings
    <3>1. Listed(H.postings[term], term, C)
      BY <2>1 DEF Inverted
    <3> QED BY <2>1, <3>1 DEF Listed, PostingOf
  <2>2. CASE term \notin DOMAIN H.postings
    <3>1. docs = <<>>
      BY <2>2 DEF PostingOf
    <3>2. Len(<<>>) = 0 /\ <<>> \in Seq(Posting)
      OBVIOUS
    <3>3. 1..0 = {}
      OBVIOUS
    <3> HIDE DEF docs
    <3> QED BY <3>1, <3>2, <3>3
  <2> QED BY <2>1, <2>2
<1> HIDE DEF docs
<1>2. P \in SUBSET DOMAIN docs /\ DOMAIN docs = 1..Len(docs) /\ Len(docs) \in Nat
  BY <1>1 DEF FreshPlaces
<1>3. \A h \in P : docs[h].doc[1] \in A /\ docs[h].doc \notin Range(found)
  BY DEF FreshPlaces
<1> HIDE DEF P
<1>4. IsKept(Posting, docs, P, n, new)
  BY <1>1, <1>2, KeptIs
<1> HIDE DEF new, n
<1>5. /\ n \in Nat /\ new \in Seq(Posting) /\ Len(new) = n /\ DOMAIN new = 1..n
      /\ \E order \in [1..n -> P] :
            /\ \A i, j \in 1..n : i < j => order[i] < order[j]
            /\ \A x \in P : \E i \in 1..n : order[i] = x
            /\ \A i \in 1..n : new[i] = docs[order[i]]
  BY <1>4 DEF IsKept
<1>6. PICK order \in [1..n -> P] :
            /\ \A i, j \in 1..n : i < j => order[i] < order[j]
            /\ \A x \in P : \E i \in 1..n : order[i] = x
            /\ \A i \in 1..n : new[i] = docs[order[i]]
  BY <1>5
<1>7. \A i \in 1..n : order[i] \in P /\ order[i] \in 1..Len(docs) /\ add[i] = docs[order[i]].doc
  BY <1>2, <1>5, <1>6 DEF DocsOf
<1>8. \A i \in 1..n : add[i] \in KeysIn(A)
  <2> SUFFICES ASSUME NEW i \in 1..n PROVE add[i] \in KeysIn(A)
    OBVIOUS
  <2>1. docs[order[i]] \in Posting /\ docs[order[i]].doc[1] \in A
    BY <1>1, <1>3, <1>7
  <2>2. docs[order[i]].doc \in Key
    BY <2>1 DEF Posting
  <2> QED BY <1>7, <2>1, <2>2 DEF KeysIn
<1>9. ASSUME NEW i \in 1..n, NEW j \in 1..n, add[i] = add[j] PROVE i = j
  <2>1. order[i] = order[j] /\ order[i] \in Nat
    BY <1>1, <1>7, <1>9
  <2>2. ~(i < j) /\ ~(j < i)
    BY <1>6, <2>1
  <2> QED BY <1>5, <2>2
<1>10. add = [h \in 1..n |-> add[h]]
  BY <1>5 DEF DocsOf
<1> HIDE DEF add
<1>11. Once(add, n, KeysIn(A))
  <2>1. add \in [1..n -> KeysIn(A)]
    BY <1>8, <1>10
  <2> QED BY <1>5, <1>9, <2>1 DEF Once
<1> DEFINE m == Len(found)
<1>12. Once(found, m, KeysIn(A))
  BY DEF Different
<1> HIDE DEF m
<1>13. \A i \in 1..m, j \in 1..n : found[i] # add[j]
  <2> SUFFICES ASSUME NEW i \in 1..m, NEW j \in 1..n, found[i] = add[j] PROVE FALSE
    OBVIOUS
  <2>1. found[i] \in Range(found)
    BY <1>12, OnceIs
  <2> QED BY <1>3, <1>7, <2>1
<1>14. Once(found \o add, m + n, KeysIn(A))
  BY <1>11, <1>12, <1>13, OnceJoined
<1>15. MetIn(H, A, found, term) = found \o add
  BY DEF MetIn, add, new, P, docs
<1>16. found \o add \in Seq(KeysIn(A)) /\ Len(found \o add) = m + n
  BY <1>14, OnceIs
<1> QED BY <1>14, <1>15, <1>16 DEF Different

(* What holds of no document, and after a word if it held before, holds     *)
(* after all words.                                                         *)
LEMMA Meeting ==
    ASSUME NEW H, NEW A, NEW tokens, NEW V, NEW n \in Nat, n = Len(tokens), DOMAIN tokens = 1..n,
           <<>> \in V, \A v \in V, i \in 1..n : MetIn(H, A, v, tokens[i]) \in V
    PROVE  AllMet(H, A, tokens) \in V
<1> DEFINE b == <<>>
           F == [p \in V \X (1..n) |-> MetIn(H, A, p[1], tokens[p[2]])]
<1>1. \A v \in V, i \in 1..n : F[<<v, i>>] = MetIn(H, A, v, tokens[i])
  OBVIOUS
<1>2. Loop(n, V, b, F)
  <2>1. F \in [V \X (1..n) -> V]
    OBVIOUS
  <2> HIDE DEF F
  <2> QED BY <2>1 DEF Loop
<1> HIDE DEF F, b
<1>3. PICK g : Unfolds(n, V, b, F, g) /\ Typed(n, V, g)
  BY <1>2, Fold
<1> DEFINE Same(f) == f = [x \in SUBSET (1..n) |->
                       IF x = {} THEN b ELSE MetIn(H, A, f[x \ {Max(x)}], tokens[Max(x)])]
           c == CHOOSE f : Same(f)
<1>4. Same(g)
  <2>1. \A x \in SUBSET (1..n) : x # {} => g[x] = MetIn(H, A, g[x \ {Max(x)}], tokens[Max(x)])
    BY <1>1, <1>3 DEF Unfolds, Typed
  <2>2. g[{}] = b /\ g = [x \in SUBSET (1..n) |-> g[x]]
    BY <1>3 DEF Unfolds, Typed
  <2> QED BY <2>1, <2>2
<1>5. c[1..n] = AllMet(H, A, tokens)
  BY DEF AllMet, b, FoldLeft, MapThenFoldSet
<1>6. Same(c)
  <2>1. \E f : Same(f)
    <3> HIDE DEF Same
    <3> QED BY <1>4
  <2> HIDE DEF Same
  <2> QED BY <2>1
<1> HIDE DEF c
<1>7. Unfolds(n, V, b, F, c)
  <2>1. c[{}] = b
    BY <1>6
  <2>2. ASSUME NEW x \in SUBSET (1..n), x # {}, c[x \ {Max(x)}] \in V
        PROVE c[x] = F[<<c[x \ {Max(x)}], Max(x)>>]
    <3>1. c[x] = MetIn(H, A, c[x \ {Max(x)}], tokens[Max(x)])
      BY <1>6, <2>2
    <3>2. Max(x) \in 1..n
      BY <1>3, <2>2 DEF Typed
    <3> HIDE DEF Same
    <3> QED BY <1>1, <2>2, <3>1, <3>2
  <2> HIDE DEF Same
  <2> QED BY <2>1, <2>2 DEF Unfolds
<1>8. PICK h : Goes(n, V, b, F, h) /\ h[n] = c[1..n]
  BY <1>2, <1>7, History
<1>9. h[n] \in V
  BY <1>8 DEF Goes
<1> QED BY <1>5, <1>8, <1>9 DEF b

(* The documents that are scored: allowed ones, each once.                  *)
LEMMA ScoredIs ==
    ASSUME NEW H, NEW C \in Contents, Inverted(H, C), NEW query \in Seq(Characters), NEW A
    PROVE  Scored(H, query, A) \in Different(A)
<1> DEFINE tokens == tokenize(query)
           V == Different(A)
           n == Len(tokens)
<1>1. n \in Nat /\ DOMAIN tokens = 1..n
  <2>1. tokens \in Seq(Seq(Characters))
    BY TokenizeType
  <2> QED BY <2>1
<1>2. <<>> \in V
  <2> DEFINE no == <<>>
  <2>1. no \in Seq(KeysIn(A)) /\ Len(no) = 0 /\ no \in [1..0 -> KeysIn(A)]
    OBVIOUS
  <2>2. 1..0 = {}
    OBVIOUS
  <2> HIDE DEF no
  <2> QED BY <2>1, <2>2 DEF Different, Once, no
<1>3. \A v \in V, i \in 1..n : MetIn(H, A, v, tokens[i]) \in V
  BY MetIs
<1> HIDE DEF tokens, V
<1>4. AllMet(H, A, tokens) \in V
  BY <1>1, <1>2, <1>3, Meeting
<1> QED BY <1>4, ScoredOf DEF tokens, V

(* What a leg gives to a chunk is a number.                                 *)
LEMMA RrfIs ==
    ASSUME NEW X, NEW leg \in Seq(X), NEW id
    PROVE  Rrf(leg, id) \in Int
<1> DEFINE ranks == {h \in DOMAIN leg : leg[h] = id}
<1>1. ranks \in SUBSET Nat /\ \A h \in ranks : h >= 1
  OBVIOUS
<1>2. Rrf(leg, id) = IF ranks = {} THEN 0 ELSE RrfUnit \div (RrfK + Min(ranks))
  BY DEF Rrf
<1> HIDE DEF ranks
<1>3. CASE ranks # {}
  <2> DEFINE m == Min(ranks)
  <2>1. m \in Nat
    BY <1>1, <1>3, MinIs
  <2> HIDE DEF m
  <2>2. RrfUnit \in Nat /\ RrfK + m \in Nat /\ RrfK + m > 0
    BY <2>1 DEF RrfUnit, RrfK
  <2> HIDE DEF RrfUnit, RrfK
  <2>3. RrfUnit \div (RrfK + m) \in Int
    BY <2>2
  <2> QED BY <1>2, <1>3, <2>3 DEF m
<1> QED BY <1>2, <1>3

(* The distance a place is given is a number.                               *)
LEMMA RampIs ==
    ASSUME NEW i \in Nat, NEW k \in Nat
    PROVE  Ramp(i, k) \in Int
<1> DEFINE m == Most(1, k - 1)
<1>1. m \in Nat /\ m > 0
  BY DEF Most
<1> HIDE DEF m
<1>2. (4 * (i - 1)) \div m \in Int
  BY <1>1
<1> QED BY <1>2 DEF Ramp, m

(* The parts of a fusion: what both legs found, and which of it is better.  *)
Pool(dense, sparse) ==
    dense \o Kept(sparse, {h \in DOMAIN sparse : sparse[h] \notin Range(dense)})

Weight(dense, sparse, x) == Rrf(dense, x) + Rrf(sparse, x)

Better(dense, sparse, ids, g, h) ==
    \/ Weight(dense, sparse, ids[g]) > Weight(dense, sparse, ids[h])
    \/ Weight(dense, sparse, ids[g]) = Weight(dense, sparse, ids[h]) /\ g < h

FusePlace(dense, sparse, ids) ==
    [x \in DOMAIN ids |-> 1 + Cardinality({y \in DOMAIN ids : Better(dense, sparse, ids, y, x)})]

FusedHits(ids, best, k) == [i \in DOMAIN best |-> [id |-> ids[best[i]], distance |-> Ramp(i, k)]]

(* A fusion in these parts.                                                 *)
LEMMA FuseOf ==
    ASSUME NEW dense, NEW sparse, NEW k
    PROVE  Fuse(dense, sparse, k) =
             LET ids == Pool(dense, sparse) IN
               FusedHits(ids, Take(ByPlace(DOMAIN ids, FusePlace(dense, sparse, ids)), k), k)
BY DEF Fuse, SortedBy, ByPlace, Pool, Weight, Better, FusePlace, FusedHits

(* A fusion names what its legs name.                                       *)
LEMMA FuseIs ==
    ASSUME NEW A, NEW dense \in Seq(KeysIn(A)), NEW sparse \in Seq(KeysIn(A)), NEW k \in Nat
    PROVE  Fuse(dense, sparse, k) \in Seq(HitsIn(A))
<1> DEFINE ids == Pool(dense, sparse)
           W == [h \in DOMAIN ids |-> Weight(dense, sparse, ids[h])]
           place == FusePlace(dense, sparse, ids)
           S == DOMAIN ids
           R == {p \in S \X S : Better(dense, sparse, ids, p[1], p[2])}
           order == ByPlace(S, place)
           best == Take(order, k)
<1>1. ids \in Seq(KeysIn(A))
  <2> DEFINE P == {h \in DOMAIN sparse : sparse[h] \notin Range(dense)}
             rest == Kept(sparse, P)
  <2>1. P \in SUBSET DOMAIN sparse
    OBVIOUS
  <2> HIDE DEF P
  <2>2. IsKept(KeysIn(A), sparse, P, Cardinality(P), rest)
    BY <2>1, KeptIs
  <2> HIDE DEF rest
  <2>3. rest \in Seq(KeysIn(A))
    BY <2>2 DEF IsKept
  <2>4. dense \o rest \in Seq(KeysIn(A))
    BY <2>3, ConcatProperties
  <2> QED BY <2>4 DEF Pool, rest, P
<1>2. Fuse(dense, sparse, k) = FusedHits(ids, best, k)
  BY FuseOf
<1>3. \A x : Weight(dense, sparse, x) \in Int
  <2> SUFFICES ASSUME NEW x PROVE Weight(dense, sparse, x) \in Int
    OBVIOUS
  <2>1. Rrf(dense, x) \in Int /\ Rrf(sparse, x) \in Int
    BY RrfIs
  <2> QED BY <2>1 DEF Weight
<1> HIDE DEF ids
<1>4. S = 1..Len(ids) /\ Len(ids) \in Nat
  BY <1>1
<1>5. IsFiniteSet(S)
  BY <1>4, FS_Interval
<1>6. \A x, y \in S : <<x, y>> \in R <=> Better(dense, sparse, ids, x, y)
  OBVIOUS
<1>7. \A x \in S : Earlier(S, R, x) = {y \in S : Better(dense, sparse, ids, y, x)}
  BY DEF Earlier
<1>8. \A x \in S : place[x] = 1 + Cardinality(Earlier(S, R, x))
  BY <1>7 DEF FusePlace
<1>9. \A x \in S : W[x] = Weight(dense, sparse, ids[x]) /\ W[x] \in Int /\ x \in Int
  BY <1>3, <1>4
<1> HIDE DEF R, S, W, place
<1>10. \A x, y \in S : <<x, y>> \in R <=> (W[x] > W[y] \/ (W[x] = W[y] /\ x < y))
  BY <1>6, <1>9 DEF Better
<1>11. Total(S, R)
  <2>1. \A x \in S : <<x, x>> \notin R
    BY <1>9, <1>10
  <2>2. \A x, y \in S : x # y => <<x, y>> \in R \/ <<y, x>> \in R
    BY <1>9, <1>10
  <2>3. ASSUME NEW x \in S, NEW y \in S, NEW z \in S, <<x, y>> \in R, <<y, z>> \in R PROVE <<x, z>> \in R
    <3>1. W[x] \in Int /\ W[y] \in Int /\ W[z] \in Int /\ x \in Int /\ y \in Int /\ z \in Int
      BY <1>9
    <3>2. (W[x] > W[y] \/ (W[x] = W[y] /\ x < y)) /\ (W[y] > W[z] \/ (W[y] = W[z] /\ y < z))
      BY <1>10, <2>3
    <3>3. W[x] > W[z] \/ (W[x] = W[z] /\ x < z)
      BY ONLY <3>1, <3>2
    <3> QED BY <1>10, <3>3
  <2> QED BY <2>1, <2>2, <2>3 DEF Total
<1>12. Lists(S, R, order)
  BY <1>5, <1>8, <1>11, SortedPlaces
<1> DEFINE n == Cardinality(S)
<1>13. n \in Nat /\ order \in [1..n -> S]
  BY <1>12 DEF Lists
<1> HIDE DEF order, n
<1>14. order \in Seq(S)
  BY <1>13, IsASeq
<1>15. best \in Seq(S)
  BY <1>14, TakeIs
<1> HIDE DEF best
<1>16. FusedHits(ids, best, k) \in Seq(HitsIn(A))
  <2> DEFINE m == Len(best)
             f == FusedHits(ids, best, k)
  <2>1. m \in Nat /\ DOMAIN best = 1..m /\ \A i \in 1..m : best[i] \in S
    BY <1>15
  <2>2. \A i \in 1..m : ids[best[i]] \in KeysIn(A) /\ Ramp(i, k) \in Int
    <3> SUFFICES ASSUME NEW i \in 1..m PROVE ids[best[i]] \in KeysIn(A) /\ Ramp(i, k) \in Int
      OBVIOUS
    <3>1. best[i] \in 1..Len(ids)
      BY <1>4, <2>1
    <3>2. ids[best[i]] \in KeysIn(A)
      BY <1>1, <3>1
    <3>3. i \in Nat
      OBVIOUS
    <3>4. Ramp(i, k) \in Int
      BY ONLY <3>3, k \in Nat, RampIs
    <3> QED BY <3>2, <3>4
  <2>3. \A i \in 1..m : [id |-> ids[best[i]], distance |-> Ramp(i, k)] \in HitsIn(A)
    BY <2>2 DEF HitsIn
  <2> HIDE DEF m
  <2>4. f \in [1..m -> HitsIn(A)]
    BY <2>1, <2>3 DEF FusedHits
  <2> HIDE DEF f
  <2>5. f \in Seq(HitsIn(A))
    BY <2>1, <2>4, IsASeq
  <2> QED BY <2>5 DEF f
<1> QED BY <1>2, <1>16

(* So does the hybrid retriever, which fuses both or finds nothing.         *)
LEMMA HybridIs ==
    ASSUME NEW H, NEW C \in Contents, Inverted(H, C), NEW distance \in [DOMAIN C -> Int],
           NEW query \in Seq(Characters), NEW k \in Nat, NEW A, NEW score,
           \A x \in Range(Scored(H, query, A)) : score[x] \in Int
    PROVE  hybridRetrieve(H, distance, query, k, A, score) \in Seq(HitsIn(A))
<1> DEFINE legK == Most(k, LegTopK)
           dense == indexSearch(distance, legK, A)
           items == Scored(H, query, A)
           sparse == bm25Search(H, query, legK, A, score)
           names == [h \in DOMAIN dense |-> dense[h].id]
           D == DOMAIN C
<1>1. legK \in Nat
  BY LegAssumption DEF Most
<1>2. D \in SUBSET Key /\ IsFiniteSet(D) /\ distance \in [D -> Int]
  BY MapsIs DEF Contents
<1> HIDE DEF legK, D
<1>3. dense \in Seq(HitsIn(A))
  BY ONLY <1>1, <1>2, IndexSearchIs
<1>4. items \in Seq(KeysIn(A)) /\ Once(items, Len(items), KeysIn(A))
  BY ScoredIs DEF Different
<1>5. sparse = topK(items, legK, score)
  BY DEF bm25Search
<1>6. \A x \in Range(items) : score[x] \in Int
  OBVIOUS
<1>7. hybridRetrieve(H, distance, query, k, A, score) \in {<<>>, Fuse(names, sparse, k)}
  BY DEF hybridRetrieve, legK
<1> HIDE DEF dense, items, sparse
<1>8. sparse \in Seq(KeysIn(A))
  <2> DEFINE n == Len(items)
             m == Least(legK, n)
  <2>1. n \in Nat /\ DOMAIN items = 1..n /\ (\A i, j \in 1..n : items[i] = items[j] => i = j)
        /\ Range(items) \subseteq KeysIn(A)
    BY <1>4, OnceIs DEF Once
  <2>2. Scoring(items, score)
    <3>1. \A i \in 1..n : items[i] \in Range(items)
      BY <2>1 DEF Range
    <3> QED BY <1>6, <2>1, <3>1 DEF Scoring
  <2>3. Bests(topK(items, legK, score), m, items, score)
    BY <1>1, <2>1, <2>2, TopKIs
  <2> HIDE DEF m, n
  <2>4. Once(sparse, m, Range(items))
    BY <1>5, <2>3 DEF Bests
  <2>5. m \in Nat /\ sparse \in [1..m -> Range(items)]
    BY <2>4 DEF Once
  <2>6. sparse \in [1..m -> KeysIn(A)]
    BY <2>1, <2>5
  <2> QED BY <2>5, <2>6, IsASeq
<1>9. names \in Seq(KeysIn(A))
  <2> DEFINE n == Len(dense)
  <2>1. n \in Nat /\ DOMAIN dense = 1..n /\ \A h \in 1..n : dense[h] \in HitsIn(A)
    BY <1>3
  <2>2. \A h \in 1..n : dense[h].id \in KeysIn(A)
    BY <2>1 DEF HitsIn
  <2> HIDE DEF n
  <2>3. names \in [1..n -> KeysIn(A)]
    BY <2>1, <2>2
  <2> HIDE DEF names
  <2> QED BY <2>1, <2>3, IsASeq
<1> HIDE DEF names
<1>10. Fuse(names, sparse, k) \in Seq(HitsIn(A))
  BY <1>8, <1>9, FuseIs
<1>11. <<>> \in Seq(HitsIn(A))
  OBVIOUS
<1> QED BY <1>7, <1>10, <1>11

(* Collapsing the hits, one by one.                                         *)
Collapse(acc, hit) ==
    IF hit.id[1] \in DOMAIN acc.best THEN acc
    ELSE [order |-> Append(acc.order, hit.id[1]), best |-> Put(acc.best, hit.id[1], hit.id[2])]

Nothing == [order |-> <<>>, best |-> <<>>]

CollapseAll(hits) == FoldLeft(LAMBDA acc, hit : Collapse(acc, hit), Nothing, hits)

Collapsed(A) ==
    {v \in [order : Seq(A), best : Maps(A, Nat)] :
        Once(v.order, Len(v.order), A) /\ DOMAIN v.best = Range(v.order)}

(* Collapsing takes the hits in their order.                                *)
LEMMA CollapseOf ==
    ASSUME NEW hits
    PROVE  collapseChunkHits(hits) = CollapseAll(hits)
BY DEF collapseChunkHits, CollapseAll, Collapse, Nothing, FoldLeft, MapThenFoldSet

(* A hit adds a memento that was not found yet, or nothing.                 *)
LEMMA CollapseIs ==
    ASSUME NEW A, NEW acc \in Collapsed(A), NEW hit \in HitsIn(A)
    PROVE  Collapse(acc, hit) \in Collapsed(A)
<1> DEFINE id == hit.id[1]
           n == hit.id[2]
           q == acc.order
           k == Len(q)
           b == acc.best
           new == <<id>>
<1>1. id \in A /\ n \in Nat
  <2>1. hit.id \in KeysIn(A)
    BY DEF HitsIn
  <2> QED BY <2>1 DEF KeysIn, Key
<1>2. /\ q \in Seq(A) /\ b \in Maps(A, Nat) /\ Once(q, k, A) /\ DOMAIN b = Range(q)
      /\ acc = [order |-> q, best |-> b]
  BY DEF Collapsed
<1> HIDE DEF id, n, q, k, b
<1>3. CASE id \in DOMAIN b
  BY <1>3 DEF Collapse, id, b
<1>4. CASE id \notin DOMAIN b
  <2>1. Collapse(acc, hit) = [order |-> Append(q, id), best |-> Put(b, id, n)]
    BY <1>4 DEF Collapse, id, n, q, b
  <2>2. \A i \in 1..k : q[i] # id
    BY <1>2, <1>4, OnceIs
  <2>3. Append(q, id) = q \o new
    BY <1>2
  <2>4. Once(new, 1, A)
    <3>1. new \in [1..1 -> A] /\ \A i, j \in 1..1 : i = j
      BY <1>1
    <3> QED BY <3>1 DEF Once
  <2>5. \A i \in 1..k, j \in 1..1 : q[i] # new[j]
    BY <2>2
  <2> HIDE DEF new
  <2> DEFINE w == Append(q, id)
  <2>6. Once(w, k + 1, A)
    BY <1>2, <2>3, <2>4, <2>5, OnceJoined
  <2>7. w \in Seq(A) /\ Len(w) = k + 1
    BY <2>6, OnceIs
  <2>8. IsPut(A, Nat, b, id, n)
    BY <1>1, <1>2, PutMaps
  <2>9. Put(b, id, n) \in Maps(A, Nat) /\ DOMAIN Put(b, id, n) = DOMAIN b \cup {id}
    BY <2>8 DEF IsPut
  <2>10. Range(w) = Range(q) \cup {id}
    <3>1. q \in Seq(A) /\ Len(q) = k /\ k \in Nat
      BY <1>2, OnceIs
    <3>2. (\A x : x \in Range(q) <=> \E i \in 1..k : q[i] = x)
          /\ (\A x : x \in Range(w) <=> \E i \in 1..k + 1 : w[i] = x)
      BY <1>2, <2>6, OnceIs
    <3>3. \A i \in 1..k + 1 : w[i] = IF i = k + 1 THEN id ELSE q[i]
      BY <1>1, <3>1
    <3> HIDE DEF w
    <3>4. \A x \in Range(w) : x \in Range(q) \cup {id}
      <4> SUFFICES ASSUME NEW x \in Range(w) PROVE x \in Range(q) \cup {id}
        OBVIOUS
      <4>1. PICK i \in 1..k + 1 : w[i] = x
        BY <3>2
      <4>2. i = k + 1 \/ i \in 1..k
        BY <3>1
      <4> QED BY <3>2, <3>3, <4>1, <4>2
    <3>5. id \in Range(w)
      <4>1. k + 1 \in 1..k + 1
        BY <3>1
      <4> QED BY <3>2, <3>3, <4>1
    <3>6. \A x \in Range(q) : x \in Range(w)
      <4> SUFFICES ASSUME NEW x \in Range(q) PROVE x \in Range(w)
        OBVIOUS
      <4>1. PICK i \in 1..k : q[i] = x
        BY <3>2
      <4>2. i \in 1..k + 1 /\ i # k + 1
        BY <3>1
      <4> QED BY <3>2, <3>3, <4>1, <4>2
    <3> QED BY <3>4, <3>5, <3>6
  <2> HIDE DEF w
  <2>11. [order |-> w, best |-> Put(b, id, n)] \in Collapsed(A)
    BY <1>2, <2>6, <2>7, <2>9, <2>10 DEF Collapsed
  <2> QED BY <2>1, <2>11 DEF w
<1> QED BY <1>3, <1>4

(* What holds of nothing, and after a hit if it held before, holds after    *)
(* all hits.                                                                *)
LEMMA Collapsing ==
    ASSUME NEW hits, NEW V, NEW n \in Nat, n = Len(hits), DOMAIN hits = 1..n,
           Nothing \in V, \A v \in V, i \in 1..n : Collapse(v, hits[i]) \in V
    PROVE  CollapseAll(hits) \in V
<1> DEFINE b == Nothing
           F == [p \in V \X (1..n) |-> Collapse(p[1], hits[p[2]])]
<1>1. \A v \in V, i \in 1..n : F[<<v, i>>] = Collapse(v, hits[i])
  OBVIOUS
<1>2. Loop(n, V, b, F)
  <2>1. F \in [V \X (1..n) -> V]
    OBVIOUS
  <2> HIDE DEF F
  <2> QED BY <2>1 DEF Loop
<1> HIDE DEF F, b
<1>3. PICK g : Unfolds(n, V, b, F, g) /\ Typed(n, V, g)
  BY <1>2, Fold
<1> DEFINE Same(f) == f = [x \in SUBSET (1..n) |->
                       IF x = {} THEN b ELSE Collapse(f[x \ {Max(x)}], hits[Max(x)])]
           c == CHOOSE f : Same(f)
<1>4. Same(g)
  <2>1. \A x \in SUBSET (1..n) : x # {} => g[x] = Collapse(g[x \ {Max(x)}], hits[Max(x)])
    BY <1>1, <1>3 DEF Unfolds, Typed
  <2>2. g[{}] = b /\ g = [x \in SUBSET (1..n) |-> g[x]]
    BY <1>3 DEF Unfolds, Typed
  <2> QED BY <2>1, <2>2
<1>5. c[1..n] = CollapseAll(hits)
  BY DEF CollapseAll, b, FoldLeft, MapThenFoldSet
<1>6. Same(c)
  <2>1. \E f : Same(f)
    <3> HIDE DEF Same
    <3> QED BY <1>4
  <2> HIDE DEF Same
  <2> QED BY <2>1
<1> HIDE DEF c
<1>7. Unfolds(n, V, b, F, c)
  <2>1. c[{}] = b
    BY <1>6
  <2>2. ASSUME NEW x \in SUBSET (1..n), x # {}, c[x \ {Max(x)}] \in V
        PROVE c[x] = F[<<c[x \ {Max(x)}], Max(x)>>]
    <3>1. c[x] = Collapse(c[x \ {Max(x)}], hits[Max(x)])
      BY <1>6, <2>2
    <3>2. Max(x) \in 1..n
      BY <1>3, <2>2 DEF Typed
    <3> HIDE DEF Same
    <3> QED BY <1>1, <2>2, <3>1, <3>2
  <2> HIDE DEF Same
  <2> QED BY <2>1, <2>2 DEF Unfolds
<1>8. PICK h : Goes(n, V, b, F, h) /\ h[n] = c[1..n]
  BY <1>2, <1>7, History
<1>9. h[n] \in V
  BY <1>8 DEF Goes
<1> QED BY <1>5, <1>8, <1>9

(* Each memento once, with a chunk of it.                                   *)
LEMMA CollapsedIs ==
    ASSUME NEW A, NEW hits \in Seq(HitsIn(A))
    PROVE  collapseChunkHits(hits) \in Collapsed(A)
<1> DEFINE V == Collapsed(A)
           n == Len(hits)
<1>1. n \in Nat /\ DOMAIN hits = 1..n /\ \A i \in 1..n : hits[i] \in HitsIn(A)
  OBVIOUS
<1>2. Nothing \in V
  <2> DEFINE no == <<>>
  <2>1. no \in Seq(A) /\ Len(no) = 0 /\ no \in [1..0 -> A] /\ DOMAIN no = {}
    OBVIOUS
  <2>2. 1..0 = {}
    OBVIOUS
  <2>3. no \in [{} -> Nat]
    OBVIOUS
  <2>4. Range(no) = {}
    BY <2>1 DEF Range
  <2>5. Nothing = [order |-> no, best |-> no]
    BY DEF Nothing
  <2> HIDE DEF no
  <2>6. no \in Maps(A, Nat)
    BY <2>1, <2>3, MapsIs
  <2>7. Once(no, 0, A)
    BY <2>1, <2>2 DEF Once
  <2>8. Nothing \in [order : Seq(A), best : Maps(A, Nat)] /\ Nothing.order = no /\ Nothing.best = no
    BY <2>1, <2>5, <2>6
  <2> QED BY <2>1, <2>4, <2>7, <2>8 DEF Collapsed
<1>3. \A v \in V, i \in 1..n : Collapse(v, hits[i]) \in V
  BY <1>1, CollapseIs
<1> HIDE DEF V
<1>4. CollapseAll(hits) \in V
  BY <1>1, <1>2, <1>3, Collapsing
<1> QED BY <1>4, CollapseOf DEF V

(* What a query finds: mementos it may find, each once.                     *)
Hits1(score) ==
    LET distance == [c \in DOMAIN ram.index |-> Distance[call.query][ram.index[c]]]
        fetchK   == Most(call.k * Overfetch, LegTopK)
    IN  IF mode = "hybrid" THEN hybridRetrieve(ram.hybrid, distance, call.query, fetchK, Reach, score)
        ELSE semanticRetrieve(distance, fetchK, Reach)

Below(hits) == {h \in DOMAIN hits : hits[h].distance < Threshold}

(* What a query finds is what is near enough, collapsed.                    *)
LEMMA RankOf ==
    ASSUME NEW score
    PROVE  rankSemantic(score) = collapseChunkHits(Kept(Hits1(score), Below(Hits1(score))))
BY DEF rankSemantic, Hits1, Below

(* A query finds mementos it may find, each once and with a chunk, whatever *)
(* the distances and the scores (index.ts, rankSemantic).                   *)
LEMMA RankIs ==
    ASSUME NEW ov, Sound(ram, ov, mode), \A c \in DOMAIN ram.index : ram.index[c] \in Chunks,
           call.query \in Queries, call.k \in Nat, NEW score \in Scores
    PROVE  rankSemantic(score) \in Collapsed(Reach)
<1> DEFINE C == ram.index
           D == DOMAIN C
           distance == [c \in D |-> Distance[call.query][C[c]]]
           fetchK == Most(call.k * Overfetch, LegTopK)
           hits == Hits1(score)
           P == Below(hits)
<1>1. ram \in Rams /\ C \in Contents /\ (mode = "hybrid" => Inverted(ram.hybrid, C))
  BY RamParts DEF Sound
<1>2. D \in SUBSET Key /\ IsFiniteSet(D)
  BY <1>1, MapsIs DEF Contents
<1>3. distance \in [D -> Int]
  <2>1. \A c \in D : Distance[call.query][C[c]] \in Nat
    BY DistanceAssumption
  <2> QED BY <2>1
<1>4. fetchK \in Nat
  <2>1. call.k * Overfetch \in Nat /\ LegTopK \in Nat
    BY LegAssumption
  <2> HIDE DEF C
  <2> QED BY <2>1 DEF Most
<1>5. call.query \in Seq(Characters)
  BY TextAssumption
<1>6. hits = IF mode = "hybrid" THEN hybridRetrieve(ram.hybrid, distance, call.query, fetchK, Reach, score)
             ELSE indexSearch(distance, fetchK, Reach)
  BY DEF Hits1, semanticRetrieve
<1> HIDE DEF C, D, distance, fetchK, hits
<1>7. hits \in Seq(HitsIn(Reach))
  <2>1. CASE mode = "hybrid"
    <3> DEFINE items == Scored(ram.hybrid, call.query, Reach)
    <3>1. score \in [Range(items) -> 1..2]
      BY <2>1 DEF Scores
    <3> HIDE DEF items
    <3>2. \A x \in Range(items) : score[x] \in Int
      BY <3>1
    <3>3. distance \in [DOMAIN C -> Int]
      BY <1>3 DEF D
    <3>4. hybridRetrieve(ram.hybrid, distance, call.query, fetchK, Reach, score) \in Seq(HitsIn(Reach))
      BY <1>1, <1>4, <1>5, <2>1, <3>2, <3>3, HybridIs DEF items
    <3> QED BY <1>6, <2>1, <3>4
  <2>2. CASE mode # "hybrid"
    <3>1. indexSearch(distance, fetchK, Reach) \in Seq(HitsIn(Reach))
      BY <1>2, <1>3, <1>4, IndexSearchIs
    <3> QED BY <1>6, <2>2, <3>1
  <2> QED BY <2>1, <2>2
<1>8. P \in SUBSET DOMAIN hits
  BY DEF Below
<1> HIDE DEF P
<1>9. IsKept(HitsIn(Reach), hits, P, Cardinality(P), Kept(hits, P))
  BY <1>7, <1>8, KeptIs
<1>10. Kept(hits, P) \in Seq(HitsIn(Reach))
  BY <1>9 DEF IsKept
<1>11. collapseChunkHits(Kept(hits, P)) \in Collapsed(Reach)
  BY <1>10, CollapsedIs
<1> QED BY <1>11, RankOf DEF hits, P

(* T[id] are the times at which id was written, C the chunks that were cut: *)
(* what RAM m says comes from there, and so do the files.                   *)
Came(m, T, C) ==
    /\ \A id \in Known(m) : m.meta[id].time \in T[id]
    /\ \A c \in DOMAIN m.index : m.index[c] \in C

FilesCame(fs, T, C) ==
    \A id \in Ids : fs[id] # None => fs[id].time \in T[id] /\ fs[id].chunks \in Seq(C)

Apart(T, now) ==
    /\ T \in [Ids -> SUBSET Nat]
    /\ \A id \in Ids : \A t \in T[id] : t < now
    /\ \A i, j \in Ids : i # j => T[i] \cap T[j] = {}

(* Registering a file keeps this.                                           *)
LEMMA RegisterCame ==
    ASSUME NEW m, NEW ov, Sound(m, ov, mode), NEW T, NEW C, Came(m, T, C), NEW id \in Ids,
           NEW f \in File1, f.time \in T[id], f.chunks \in Seq(C)
    PROVE  Came(registerMemento(m, id, f), T, C)
<1> DEFINE r == registerMemento(m, id, f)
           chunks == f.chunks
           K == KeysOf(id, Len(chunks))
<1>1. m.meta \in [Ids -> Known1 \cup {None}]
  BY RamParts DEF Sound
<1>2. /\ r.meta = [m.meta EXCEPT ![id] = [count |-> Len(chunks), tagged |-> f.tagged, time |-> f.time]]
      /\ r.index = Over([c \in K |-> chunks[c[2] + 1]], m.index)
  BY DEF registerMemento
<1>3. chunks \in Seq(C) /\ Len(chunks) \in Nat
  OBVIOUS
<1>4. \A c \in K : c[2] \in 0..Len(chunks) - 1
  BY <1>3, KeysAre
<1> HIDE DEF r, K, chunks
<1>5. ASSUME NEW i \in Known(r) PROVE r.meta[i].time \in T[i]
  <2>1. i \in Ids /\ r.meta[i] # None
    BY DEF Known
  <2>2. CASE i = id
    BY <1>1, <1>2, <2>1, <2>2
  <2>3. CASE i # id
    <3>1. r.meta[i] = m.meta[i]
      BY <1>1, <1>2, <2>1, <2>3
    <3>2. i \in Known(m)
      BY <2>1, <3>1 DEF Known
    <3> QED BY <3>1, <3>2 DEF Came
  <2> QED BY <2>2, <2>3
<1>6. ASSUME NEW c \in DOMAIN r.index PROVE r.index[c] \in C
  <2>1. DOMAIN r.index = K \cup DOMAIN m.index
        /\ r.index[c] = IF c \in K THEN chunks[c[2] + 1] ELSE m.index[c]
    BY <1>2 DEF Over
  <2>2. CASE c \in K
    <3>1. c[2] + 1 \in 1..Len(chunks)
      BY <1>3, <1>4, <2>2
    <3> QED BY <1>3, <2>1, <2>2, <3>1
  <2>3. CASE c \notin K
    BY <2>1, <2>3 DEF Came
  <2> QED BY <2>2, <2>3
<1> QED BY <1>5, <1>6 DEF Came, r

(* So does unregistering a memento.                                         *)
LEMMA UnregisterCame ==
    ASSUME NEW m, NEW ov, Sound(m, ov, mode), NEW T, NEW C, Came(m, T, C), NEW id \in Ids, NEW count
    PROVE  Came(unregisterMemento(m, id, count), T, C)
<1> DEFINE r == unregisterMemento(m, id, count)
           K == KeysOf(id, count)
<1>1. m.meta \in [Ids -> Known1 \cup {None}]
  BY RamParts DEF Sound
<1>2. r.meta = [m.meta EXCEPT ![id] = None] /\ r.index = Restrict(m.index, DOMAIN m.index \ K)
  BY DEF unregisterMemento
<1> HIDE DEF r, K
<1>3. ASSUME NEW i \in Known(r) PROVE r.meta[i].time \in T[i]
  <2>1. i \in Ids /\ r.meta[i] # None
    BY DEF Known
  <2>2. r.meta[i] = m.meta[i]
    BY <1>1, <1>2, <2>1
  <2>3. i \in Known(m)
    BY <2>1, <2>2 DEF Known
  <2> QED BY <2>2, <2>3 DEF Came
<1>4. ASSUME NEW c \in DOMAIN r.index PROVE r.index[c] \in C
  <2>1. c \in DOMAIN m.index /\ r.index[c] = m.index[c]
    BY <1>2 DEF Restrict
  <2> QED BY <2>1 DEF Came
<1> QED BY <1>3, <1>4 DEF Came, r

(* So does forgetting one.                                                  *)
LEMMA ForgetCame ==
    ASSUME NEW m, NEW ov, Sound(m, ov, mode), NEW T, NEW C, Came(m, T, C), NEW id \in Ids
    PROVE  Came(Forget(m, id), T, C)
BY UnregisterCame DEF Forget

(* So does a sync.                                                          *)
LEMMA SyncCame ==
    ASSUME FilesOK, NEW ov, Sound(ram, ov, mode), NEW T, NEW C, Came(ram, T, C), FilesCame(files, T, C),
           NEW gone, NEW changed, changed \subseteq Stored
    PROVE  Came(Synced(gone, changed), T, C)
<1> DEFINE V == {m \in Rams : Sound(m, ov, mode) /\ Came(m, T, C)}
           s == SortedBy(Ids, <)
           n == Cardinality(Ids)
<1>1. n \in Nat
  BY IdsAssumption, FS_CardinalityType
<1>2. DOMAIN s = 1..n /\ \A i \in 1..n : s[i] \in Ids
  <2>1. Ids \in SUBSET Int /\ IsFiniteSet(Ids)
    BY IdsAssumption
  <2>2. s \in [1..n -> Ids]
    BY <2>1, Ascending
  <2> HIDE DEF s, n
  <2> QED BY <2>2
<1>3. ram \in V
  BY DEF Sound
<1>4. ASSUME NEW m \in V, NEW id \in Ids
      PROVE Reload(gone, changed, m, id) \in V
  <2>1. Sound(m, ov, mode) /\ Came(m, T, C)
    OBVIOUS
  <2>2. Sound(Forget(m, id), ov, mode) /\ id \notin Known(Forget(m, id)) /\ Came(Forget(m, id), T, C)
    BY <2>1, Forgets, ForgetCame
  <2>3. ASSUME id \in changed
        PROVE  /\ Sound(registerMemento(Forget(m, id), id, files[id]), ov, mode)
               /\ Came(registerMemento(Forget(m, id), id, files[id]), T, C)
    <3>1. id \in Stored
      BY <2>3
    <3>2. files[id] \in File1
      BY <3>1, StoredIs
    <3>3. files[id].time \in T[id] /\ files[id].chunks \in Seq(C)
      BY <3>1 DEF FilesCame, Stored
    <3> QED BY <2>2, <3>2, <3>3, Register, RegisterCame
  <2>4. \A r : Sound(r, ov, mode) /\ Came(r, T, C) => r \in V
    BY DEF Sound
  <2>5. Reload(gone, changed, m, id) \in {Forget(m, id), m} \/
        (id \in changed /\ Reload(gone, changed, m, id) = registerMemento(Forget(m, id), id, files[id]))
    BY DEF Reload
  <2> HIDE DEF V
  <2> QED BY <2>1, <2>2, <2>3, <2>4, <2>5
<1> HIDE DEF V, s, n
<1>5. ReloadingReady(n, s, V, ram, gone, changed)
  BY <1>1, <1>2, <1>3, <1>4 DEF ReloadingReady
<1>6. PICK h : ReloadingRun(n, s, V, ram, gone, changed, h)
  BY <1>5, Reloading
<1>7. h[n] \in V
  <2>1. h \in [0..n -> V]
    BY <1>6 DEF ReloadingRun
  <2> QED BY <1>1, <2>1
<1>8. h[n] = Synced(gone, changed)
  BY <1>6 DEF ReloadingRun, s, Synced
<1> QED BY <1>7, <1>8 DEF V

From(T) == Apart(T, clock) /\ Came(ram, T, Chunks) /\ FilesCame(files, T, Chunks)

Provenance == \E T : From(T)

(* What is written now has this time, and its chunks are cut from an input. *)
LEMMA FileCame ==
    ASSUME NEW x \in Inputs, NEW tagged
    PROVE  /\ File(x[1], tagged).time = clock
           /\ File(x[1], tagged).chunks \in Seq(Chunks)
<1> DEFINE s == Written[x[1]]
<1>1. s \in Seq(Chunk1)
  <2>1. x[1] \in Seq(Characters) /\ x[1] \in Texts
    BY TextAssumption DEF Texts
  <2>2. splitChunks(x[1]) \in Seq(Chunk1)
    BY <2>1, SplitChunksType
  <2> QED BY <2>1, <2>2 DEF Written
<1>2. Range(s) \subseteq Chunks
  BY DEF Chunks
<1>3. File(x[1], tagged).time = clock /\ File(x[1], tagged).chunks = s
  BY DEF File
<1> HIDE DEF s
<1>4. \A i \in 1..Len(s) : s[i] \in Chunks
  BY <1>1, <1>2 DEF Range
<1>5. s \in Seq(Chunks)
  BY <1>1, <1>4
<1> QED BY <1>3, <1>5

(* A change of a file takes place at a time of its own.                     *)
LEMMA ChangeCame ==
    ASSUME FilesOK, NEW T, Apart(T, clock), FilesCame(files, T, Chunks), NEW id \in Ids, NEW f, Changes(id, f),
           f # None => f.time = clock /\ f.chunks \in Seq(Chunks)
    PROVE  \E U : /\ Apart(U, clock') /\ FilesCame(files', U, Chunks)
                  /\ clock \in U[id] /\ \A m : Came(m, T, Chunks) => Came(m, U, Chunks)
<1> DEFINE U == [i \in Ids |-> IF i = id THEN T[i] \cup {clock} ELSE T[i]]
<1>1. /\ T \in [Ids -> SUBSET Nat] /\ (\A i \in Ids : \A t \in T[i] : t < clock)
      /\ (\A i, j \in Ids : i # j => T[i] \cap T[j] = {})
  BY DEF Apart
<1>2. clock \in Nat /\ clock' = clock + 1 /\ files' = [files EXCEPT ![id] = f] /\ DOMAIN files = Ids
  BY DEF FilesOK, Changes
<1>3. \A i \in Ids : U[i] = (IF i = id THEN T[i] \cup {clock} ELSE T[i]) /\ T[i] \subseteq U[i]
  OBVIOUS
<1>4. Apart(U, clock')
  <2>1. U \in [Ids -> SUBSET Nat]
    BY <1>1, <1>2
  <2> HIDE DEF U
  <2>2. ASSUME NEW i \in Ids, NEW t \in U[i] PROVE t < clock'
    <3>1. t \in T[i] \/ t = clock
      BY <1>3
    <3>2. t \in Nat /\ (t \in T[i] => t < clock)
      BY <1>1, <1>2, <3>1
    <3> QED BY <1>2, <3>1, <3>2
  <2>3. ASSUME NEW i \in Ids, NEW j \in Ids, i # j PROVE U[i] \cap U[j] = {}
    <3> SUFFICES ASSUME NEW t \in U[i], t \in U[j] PROVE FALSE
      OBVIOUS
    <3>1. T[i] \cap T[j] = {}
      BY <1>1, <2>3
    <3>2. (t \in T[i] \/ (i = id /\ t = clock)) /\ (t \in T[j] \/ (j = id /\ t = clock))
      BY <1>3
    <3>3. clock \notin T[i] /\ clock \notin T[j]
      BY <1>1, <1>2
    <3> QED BY <2>3, <3>1, <3>2, <3>3
  <2> QED BY <2>1, <2>2, <2>3 DEF Apart
<1>5. clock \in U[id]
  OBVIOUS
<1> HIDE DEF U
<1>6. FilesCame(files', U, Chunks)
  <2> SUFFICES ASSUME NEW i \in Ids, files'[i] # None
               PROVE files'[i].time \in U[i] /\ files'[i].chunks \in Seq(Chunks)
    BY DEF FilesCame
  <2>2. CASE i = id
    <3>1. files'[i] = f
      BY <1>2, <2>2
    <3> QED BY <1>5, <2>2, <3>1
  <2>3. CASE i # id
    <3>1. files'[i] = files[i]
      BY <1>2, <2>3
    <3> QED BY <1>3, <3>1 DEF FilesCame
  <2> QED BY <2>2, <2>3
<1>7. \A m : Came(m, T, Chunks) => Came(m, U, Chunks)
  <2> SUFFICES ASSUME NEW m, Came(m, T, Chunks) PROVE Came(m, U, Chunks)
    OBVIOUS
  <2>1. \A i \in Known(m) : i \in Ids
    BY DEF Known
  <2> QED BY <1>3, <2>1 DEF Came
<1> QED BY <1>4, <1>5, <1>6, <1>7

(* Every step keeps the provenance.                                         *)
LEMMA ProvenanceNext == IInv /\ Provenance /\ [Next]_vars => Provenance'
<1> SUFFICES ASSUME IInv, Provenance, [Next]_vars PROVE Provenance'
  OBVIOUS
<1>0. FilesOK /\ Sound(ram, overwritten, mode)
  BY DEF IInv
<1>00. PICK T : Apart(T, clock) /\ Came(ram, T, Chunks) /\ FilesCame(files, T, Chunks)
  BY DEF Provenance, From
<1>a. ASSUME UNCHANGED <<files, clock>>, Came(ram', T, Chunks) PROVE Provenance'
  <2>1. FilesCame(files', T, Chunks)
    BY <1>00, <1>a DEF FilesCame
  <2>2. From(T)'
    BY <1>00, <1>a, <2>1 DEF From
  <2> QED BY <2>2 DEF Provenance
<1>b. ASSUME NEW U, Apart(U, clock'), FilesCame(files', U, Chunks), Came(ram', U, Chunks) PROVE Provenance'
  <2>1. From(U)'
    BY <1>b DEF From
  <2> QED BY <2>1 DEF Provenance
<1>c. ASSUME NEW x \in Inputs, NEW tagged \in BOOLEAN PROVE File(x[1], tagged) \in File1
  <2>1. x[1] \in Texts /\ clock \in Nat
    BY <1>0 DEF Texts, FilesOK
  <2> QED BY <2>1, FileType
<1>1. ASSUME NEW id \in New, NEW x \in Inputs, writeMemento(id, x[1], x[2]) PROVE Provenance'
  <2> DEFINE f == File(x[1], x[2])
  <2>1. f \in File1 /\ f.time = clock /\ f.chunks \in Seq(Chunks) /\ id \in Ids
    BY <1>c, FileCame, TextAssumption DEF New
  <2>2. /\ id \notin Known(ram) /\ Changes(id, f) /\ ram' = registerMemento(ram, id, f)
    BY <1>1 DEF writeMemento
  <2> HIDE DEF f
  <2>3. PICK U : /\ Apart(U, clock') /\ FilesCame(files', U, Chunks)
                 /\ clock \in U[id] /\ \A m : Came(m, T, Chunks) => Came(m, U, Chunks)
    BY <1>0, <1>00, <2>1, <2>2, ChangeCame
  <2>4. Came(registerMemento(ram, id, f), U, Chunks)
    BY <1>0, <1>00, <2>1, <2>2, <2>3, RegisterCame
  <2> QED BY <1>b, <2>2, <2>3, <2>4
<1>2. ASSUME NEW id, NEW x \in Inputs, updateMemento(id, x[1]) PROVE Provenance'
  <2>0. id \in Stored
    BY <1>2 DEF updateMemento
  <2> DEFINE old == files[id]
             f == File(x[1], old.tagged)
             count == Len(old.chunks)
             R == unregisterMemento(ram, id, count)
             more == IF id \in Known(ram) /\ ram.meta[id].count > count THEN overwritten \cup {id} ELSE overwritten
  <2>1. id \in Ids /\ old.tagged \in BOOLEAN /\ count \in Nat
    BY <1>0, <2>0, StoredIs
  <2>2. f \in File1 /\ f.time = clock /\ f.chunks \in Seq(Chunks)
    BY <1>c, <2>1, FileCame
  <2>3. Changes(id, f) /\ ram' = registerMemento(R, id, f)
    BY <1>2 DEF updateMemento
  <2>4. overwritten \subseteq more /\ (id \in Known(ram) /\ ram.meta[id].count > count => id \in more)
    OBVIOUS
  <2> HIDE DEF f, count, more, old
  <2>5. Sound(R, more, mode) /\ Came(R, T, Chunks)
    BY <1>0, <1>00, <2>1, <2>4, Unregister, UnregisterCame
  <2> HIDE DEF R
  <2>6. PICK U : /\ Apart(U, clock') /\ FilesCame(files', U, Chunks)
                 /\ clock \in U[id] /\ \A m : Came(m, T, Chunks) => Came(m, U, Chunks)
    BY <1>0, <1>00, <2>1, <2>2, <2>3, ChangeCame
  <2>7. Came(registerMemento(R, id, f), U, Chunks)
    BY <2>1, <2>2, <2>5, <2>6, RegisterCame
  <2> QED BY <1>b, <2>3, <2>6, <2>7
<1>3. ASSUME NEW id \in Stored \cup New, NEW x \in Inputs, Elsewhere(id, File(x[1], x[2])) PROVE Provenance'
  <2> DEFINE f == File(x[1], x[2])
  <2>1. f.time = clock /\ f.chunks \in Seq(Chunks) /\ id \in Ids
    BY FileCame DEF New, Stored
  <2>2. Changes(id, f) /\ ram' = ram
    BY <1>3 DEF Elsewhere
  <2> HIDE DEF f
  <2>3. PICK U : /\ Apart(U, clock') /\ FilesCame(files', U, Chunks)
                 /\ clock \in U[id] /\ \A m : Came(m, T, Chunks) => Came(m, U, Chunks)
    BY <1>0, <1>00, <2>1, <2>2, ChangeCame
  <2> QED BY <1>00, <1>b, <2>2, <2>3
<1>4. ASSUME NEW id \in Stored, Elsewhere(id, None) PROVE Provenance'
  <2>1. Changes(id, None) /\ ram' = ram /\ id \in Ids
    BY <1>4 DEF Elsewhere, Stored
  <2>2. PICK U : /\ Apart(U, clock') /\ FilesCame(files', U, Chunks)
                 /\ clock \in U[id] /\ \A m : Came(m, T, Chunks) => Came(m, U, Chunks)
    BY <1>0, <1>00, <2>1, ChangeCame
  <2> QED BY <1>00, <1>b, <2>1, <2>2
<1>5. ASSUME NEW id \in Ids, updateMissing(id) PROVE Provenance'
  <2>1. ram' = Forget(ram, id) /\ UNCHANGED <<files, clock>>
    BY <1>5 DEF updateMissing
  <2>2. Came(Forget(ram, id), T, Chunks)
    BY <1>0, <1>00, ForgetCame
  <2> QED BY <1>a, <2>1, <2>2
<1>6. ASSUME NEW id \in Ids, deleteMemento(id) PROVE Provenance'
  <2> DEFINE count == ram.meta[id].count
  <2>1. Changes(id, None) /\ ram' = unregisterMemento(ram, id, count)
    BY <1>6 DEF deleteMemento
  <2> HIDE DEF count
  <2>2. PICK U : /\ Apart(U, clock') /\ FilesCame(files', U, Chunks)
                 /\ clock \in U[id] /\ \A m : Came(m, T, Chunks) => Came(m, U, Chunks)
    BY <1>0, <1>00, <2>1, ChangeCame
  <2>3. Came(unregisterMemento(ram, id, count), T, Chunks)
    BY <1>0, <1>00, UnregisterCame
  <2> QED BY <1>b, <2>1, <2>2, <2>3
<1>7. ASSUME NEW id \in Ids, Read(id) PROVE Provenance'
  <2>1. ram' = (IF id \in Stored THEN ram ELSE Forget(ram, id)) /\ UNCHANGED <<files, clock>>
    BY <1>7 DEF Read
  <2>2. Came(Forget(ram, id), T, Chunks)
    BY <1>0, <1>00, ForgetCame
  <2>3. Came(ram', T, Chunks)
    BY <1>00, <2>1, <2>2
  <2> QED BY <1>a, <2>1, <2>3
<1>8. ASSUME Sync PROVE Provenance'
  <2> DEFINE changed == {id \in Stored : id \in Known(ram) => ram.meta[id].time # files[id].time}
             gone == Known(ram) \ Stored
  <2>1. ram' = Synced(gone, changed) /\ UNCHANGED <<files, clock>>
    BY <1>8 DEF Sync, Synced
  <2>2. changed \subseteq Stored
    OBVIOUS
  <2> HIDE DEF changed, gone
  <2>3. Came(Synced(gone, changed), T, Chunks)
    BY <1>0, <1>00, <2>2, SyncCame
  <2> QED BY <1>a, <2>1, <2>3
<1>9. ASSUME UNCHANGED <<files, ram, clock>> PROVE Provenance'
  BY <1>00, <1>9, <1>a
<1>10. CASE Rank
  BY <1>9, <1>10 DEF Rank
<1>11. CASE UNCHANGED vars
  BY <1>9, <1>11 DEF vars
<1>12. ASSUME NEW kind, NEW q, NEW k, NEW filtered, Ask(kind, q, k, filtered) \/ List(k, filtered) PROVE Provenance'
  BY <1>9, <1>12 DEF Ask, List
<1>13. CASE Next
  BY <1>1, <1>2, <1>3, <1>4, <1>5, <1>6, <1>7, <1>8, <1>10, <1>12, <1>13 DEF Next
<1> QED BY <1>11, <1>13

Hit1   == [chunk : Int, count : Nat]
Calls1 == [pc : {"embed", "read", "done"}, kind : {"recall", "list", "newest"},
           query : Queries \cup {<<>>}, k : Nat, filtered : BOOLEAN, allowed : SUBSET Ids,
           quiet : BOOLEAN, gone : SUBSET Ids, picked : Seq(Ids), unread : SUBSET Ids,
           best : Maps(Ids, Nat), found : Maps(Ids, Hit1)]

NewestFirst(r, m) ==
    \A x \in Range(r.picked), y \in r.allowed \ Range(r.picked) : Newest(m, x) > Newest(m, y)

(* A listing that loads: as many as were asked for are picked, and each is  *)
(* either still to be read, or found, or gone.                              *)
Listing(r, m) ==
    /\ Once(r.picked, Least(r.k, Cardinality(r.allowed)), r.allowed)
    /\ r.unread \subseteq Range(r.picked) /\ DOMAIN r.found \subseteq Range(r.picked)
    /\ Range(r.picked) \subseteq r.unread \cup DOMAIN r.found \cup r.gone
    /\ r.pc = "done" => r.unread = {}
    /\ r.kind = "newest" /\ r.quiet => NewestFirst(r, m)

(* A call: what it may find is stored, or is known to it to be gone.        *)
Asking(r, stored, m) ==
    /\ r \in Calls1
    /\ r.allowed \subseteq stored \cup r.gone
    /\ r.quiet => r.gone = {}
    /\ r.pc = "embed" => r.query \in Queries /\ r.kind # "newest" /\ r.found = <<>>
    /\ r.pc # "embed" /\ r.kind # "recall" => Listing(r, m)

CallOK == call = idle \/ Asking(call, Stored, ram)

(* The parts of a call.                                                     *)
LEMMA CallParts ==
    ASSUME NEW r \in Calls1
    PROVE  /\ r = [pc |-> r.pc, kind |-> r.kind, query |-> r.query, k |-> r.k, filtered |-> r.filtered,
                   allowed |-> r.allowed, quiet |-> r.quiet, gone |-> r.gone, picked |-> r.picked,
                   unread |-> r.unread, best |-> r.best, found |-> r.found]
           /\ r.pc \in {"embed", "read", "done"} /\ r.kind \in {"recall", "list", "newest"}
           /\ r.query \in Queries \cup {<<>>} /\ r.k \in Nat /\ r.filtered \in BOOLEAN
           /\ r.allowed \in SUBSET Ids /\ r.quiet \in BOOLEAN /\ r.gone \in SUBSET Ids
           /\ r.picked \in Seq(Ids) /\ r.unread \in SUBSET Ids
           /\ r.best \in Maps(Ids, Nat) /\ r.found \in Maps(Ids, Hit1)
BY DEF Calls1

(* A call that is told of a change.                                         *)
Told(r, g) == [r EXCEPT !.quiet = FALSE, !.gone = @ \cup g]

(* It stays right: it is no longer quiet, and knows what is gone.           *)
LEMMA ToldKeeps ==
    ASSUME NEW r, NEW S, NEW m, Asking(r, S, m), NEW g \in SUBSET Ids, NEW S2, S \subseteq S2 \cup g, NEW m2
    PROVE  Asking(Told(r, g), S2, m2)
<1> DEFINE q == Told(r, g)
<1>1. r \in Calls1
  BY DEF Asking
<1>2. /\ q \in Calls1
      /\ q.pc = r.pc /\ q.kind = r.kind /\ q.query = r.query /\ q.k = r.k /\ q.allowed = r.allowed
      /\ q.quiet = FALSE /\ q.gone = r.gone \cup g /\ q.picked = r.picked /\ q.unread = r.unread
      /\ q.found = r.found
  <2>1. r.gone \cup g \in SUBSET Ids
    BY <1>1, CallParts
  <2> DEFINE all == r.gone \cup g
  <2>2. q = [r EXCEPT !.quiet = FALSE, !.gone = all]
    BY <1>1 DEF Told, Calls1
  <2> HIDE DEF q, all
  <2>3. all \in SUBSET Ids
    BY <2>1 DEF all
  <2>4. /\ q \in Calls1
        /\ q.pc = r.pc /\ q.kind = r.kind /\ q.query = r.query /\ q.k = r.k /\ q.allowed = r.allowed
        /\ q.quiet = FALSE /\ q.gone = all /\ q.picked = r.picked /\ q.unread = r.unread
        /\ q.found = r.found
    BY <1>1, <2>2, <2>3 DEF Calls1
  <2> QED BY <2>4 DEF all
<1> HIDE DEF q
<1>3. q.pc # "embed" /\ q.kind # "recall" => Listing(q, m2)
  <2> SUFFICES ASSUME q.pc # "embed", q.kind # "recall" PROVE Listing(q, m2)
    OBVIOUS
  <2>1. Listing(r, m)
    BY <1>2 DEF Asking
  <2> QED BY <1>2, <2>1 DEF Listing
<1>4. q.allowed \subseteq S2 \cup q.gone
  BY <1>2 DEF Asking
<1> QED BY <1>2, <1>3, <1>4 DEF Asking, q

(* What RAM and the files become matters to a call only if it is quiet.     *)
LEMMA DisturbedKeeps ==
    ASSUME CallOK, NEW g \in SUBSET Ids, Disturbs(g), Stored \subseteq Stored' \cup g
    PROVE  CallOK'
<1>1. CASE call = idle
  <2>1. call' = idle
    BY <1>1 DEF Disturbs, idle
  <2> QED BY <2>1 DEF CallOK, idle
<1>2. CASE Asking(call, Stored, ram)
  <2>1. call' = idle \/ call' = Told(call, g)
    BY DEF Disturbs, Told
  <2>2. Asking(Told(call, g), Stored', ram')
    BY <1>2, ToldKeeps
  <2>3. CASE call' = idle
    BY <2>3 DEF CallOK, idle
  <2>4. CASE call' = Told(call, g)
    <3>1. Asking(call', Stored', ram')
      BY <2>2, <2>4
    <3> QED BY <3>1 DEF CallOK
  <2> QED BY <2>1, <2>3, <2>4
<1> QED BY <1>1, <1>2 DEF CallOK

(* A call that reads one file more.                                         *)
ReadOf(r, S, id, left, hit) ==
    [r EXCEPT !.unread = left, !.pc = IF left = {} THEN "done" ELSE "read",
              !.found = IF id \in S THEN Put(@, id, hit) ELSE @]

(* It stays right: what was to be read is found, or known to be gone.       *)
LEMMA ReadKeeps ==
    ASSUME NEW r, NEW S \in SUBSET Ids, NEW m, Asking(r, S, m), r.pc = "read", NEW id \in r.unread,
           NEW hit, id \in S => hit \in Hit1, NEW m2, id \in S => m2 = m
    PROVE  Asking(ReadOf(r, S, id, r.unread \ {id}, hit), S, m2)
<1> DEFINE left == r.unread \ {id}
           q == ReadOf(r, S, id, left, hit)
           pc == IF left = {} THEN "done" ELSE "read"
           found == IF id \in S THEN Put(r.found, id, hit) ELSE r.found
<1>1. r \in Calls1 /\ r.unread \in SUBSET Ids /\ r.found \in Maps(Ids, Hit1) /\ r.allowed \in SUBSET Ids
      /\ r.k \in Nat
  BY CallParts DEF Asking
<1>2. found \in Maps(Ids, Hit1) /\ DOMAIN found = IF id \in S THEN DOMAIN r.found \cup {id} ELSE DOMAIN r.found
  <2>1. CASE id \in S
    <3>1. IsPut(Ids, Hit1, r.found, id, hit)
      BY <1>1, <2>1, PutMaps
    <3> QED BY <2>1, <3>1 DEF IsPut
  <2>2. CASE id \notin S
    BY <1>1, <2>2
  <2> QED BY <2>1, <2>2
<1>3. q = [r EXCEPT !.unread = left, !.pc = pc, !.found = found]
  BY <1>1 DEF ReadOf, Calls1
<1>4. left \in SUBSET Ids /\ pc \in {"embed", "read", "done"} /\ pc # "embed" /\ (pc = "done" => left = {})
  BY <1>1
<1>5. left = r.unread \ {id}
  OBVIOUS
<1> HIDE DEF q, left, pc, found
<1>6. /\ q \in Calls1
      /\ q.pc = pc /\ q.kind = r.kind /\ q.query = r.query /\ q.k = r.k /\ q.allowed = r.allowed
      /\ q.quiet = r.quiet /\ q.gone = r.gone /\ q.picked = r.picked /\ q.unread = left
      /\ q.found = found
  BY <1>1, <1>2, <1>3, <1>4 DEF Calls1
<1>7. ASSUME q.kind # "recall" PROVE Listing(q, m2)
  <2>1. Listing(r, m)
    BY <1>6, <1>7 DEF Asking
  <2> DEFINE P == Range(r.picked)
  <2>2. /\ Once(r.picked, Least(r.k, Cardinality(r.allowed)), r.allowed)
        /\ r.unread \subseteq P /\ DOMAIN r.found \subseteq P
        /\ P \subseteq r.unread \cup DOMAIN r.found \cup r.gone
        /\ r.kind = "newest" /\ r.quiet => NewestFirst(r, m)
    BY <2>1 DEF Listing
  <2>3. P \subseteq r.allowed
    BY <2>2, OnceIs
  <2> HIDE DEF P
  <2>4. id \in P /\ id \in r.allowed
    BY <2>2, <2>3
  <2>5. r.allowed \subseteq S \cup r.gone /\ (r.quiet => r.gone = {})
    BY DEF Asking
  <2>6. left \subseteq P /\ DOMAIN found \subseteq P /\ P \subseteq left \cup DOMAIN found \cup r.gone
    BY <1>2, <1>5, <2>2, <2>4, <2>5
  <2>7. q.kind = "newest" /\ q.quiet => NewestFirst(q, m2)
    <3> SUFFICES ASSUME q.kind = "newest", q.quiet PROVE NewestFirst(q, m2)
      OBVIOUS
    <3>1. id \in S
      BY <1>6, <2>4, <2>5
    <3>2. NewestFirst(r, m)
      BY <1>6, <2>2
    <3> QED BY <1>6, <3>1, <3>2 DEF NewestFirst
  <2> QED BY <1>4, <1>6, <2>2, <2>6, <2>7 DEF Listing, P
<1> QED BY <1>4, <1>6, <1>7 DEF Asking, q, left

(* What a filter lets through.                                              *)
LEMMA AllowedIs ==
    ASSUME Sound(ram, overwritten, mode), NEW filtered
    PROVE  /\ Allowed(filtered) \in SUBSET Ids /\ IsFiniteSet(Allowed(filtered))
           /\ Allowed(filtered) \subseteq Known(ram)
           /\ \A id \in Ids : Newest(ram, id) \in Nat
<1>1. Allowed(filtered) \subseteq Known(ram)
  BY DEF Allowed
<1>2. Known(ram) \subseteq Ids /\ IsFiniteSet(Ids)
  BY IdsAssumption DEF Known
<1>3. IsFiniteSet(Allowed(filtered))
  <2> DEFINE A == Allowed(filtered)
  <2>1. A \subseteq Ids
    BY <1>1, <1>2
  <2> HIDE DEF A
  <2>2. IsFiniteSet(A)
    BY <1>2, <2>1, FS_Subset
  <2> QED BY <2>2 DEF A
<1>4. ASSUME NEW id \in Ids PROVE Newest(ram, id) \in Nat
  <2>1. ram.meta[id] # None => ram.meta[id] \in Known1
    BY RamParts DEF Sound
  <2>2. ram.meta[id] # None => ram.meta[id].time \in Nat
    BY <2>1 DEF Known1
  <2> QED BY <2>2 DEF Newest
<1> QED BY <1>1, <1>2, <1>3, <1>4

(* A call that has nothing yet.                                             *)
LEMMA EmptyCall ==
    /\ <<>> \in Seq(Ids) /\ Range(<<>>) = {} /\ DOMAIN <<>> = {}
    /\ <<>> \in Maps(Ids, Nat) /\ <<>> \in Maps(Ids, Hit1)
<1> DEFINE no == <<>>
<1>1. no \in Seq(Ids) /\ DOMAIN no = {} /\ no \in [{} -> Nat] /\ no \in [{} -> Hit1]
  OBVIOUS
<1>2. Range(no) = {}
  BY <1>1 DEF Range
<1> HIDE DEF no
<1>3. no \in Maps(Ids, Nat) /\ no \in Maps(Ids, Hit1)
  BY <1>1, MapsIs
<1> QED BY <1>1, <1>2, <1>3 DEF no

(* A call as it begins.                                                     *)
LEMMA AskedIs ==
    ASSUME Sound(ram, overwritten, mode), NEW pc \in {"embed", "read"}, NEW kind \in {"recall", "list", "newest"},
           NEW q \in Queries \cup {<<>>}, NEW k \in Nat, NEW filtered \in BOOLEAN, NEW picked \in Seq(Ids),
           Range(picked) \in SUBSET Ids
    PROVE  LET r == Asked(pc, kind, q, k, filtered, picked) IN
             /\ r \in Calls1 /\ r.allowed \subseteq Stored \cup r.gone /\ (r.quiet => r.gone = {})
             /\ r.pc = pc /\ r.kind = kind /\ r.query = q /\ r.k = k /\ r.allowed = Allowed(filtered)
             /\ r.picked = picked /\ r.unread = Range(picked) /\ r.found = <<>>
<1> DEFINE r == Asked(pc, kind, q, k, filtered, picked)
           no == <<>>
           A == Allowed(filtered)
           quiet == Known(ram) = Stored
           gone == Known(ram) \ Stored
<1>1. no \in Maps(Ids, Nat) /\ no \in Maps(Ids, Hit1)
  BY EmptyCall
<1>2. A \in SUBSET Ids /\ A \subseteq Known(ram) /\ gone \in SUBSET Ids /\ quiet \in BOOLEAN
  BY AllowedIs DEF Known
<1>3. A \subseteq Stored \cup gone /\ (quiet => gone = {})
  BY <1>2
<1>4. r = [pc |-> pc, kind |-> kind, query |-> q, k |-> k, filtered |-> filtered,
           allowed |-> A, quiet |-> quiet, gone |-> gone,
           picked |-> picked, unread |-> Range(picked), best |-> no, found |-> no]
  BY DEF Asked
<1> HIDE DEF r, no, A, quiet, gone
<1>5. r \in Calls1
  BY <1>1, <1>2, <1>4 DEF Calls1
<1> QED BY <1>3, <1>4, <1>5 DEF r, no, A

(* A call with a query begins right.                                        *)
LEMMA AskKeeps ==
    ASSUME Sound(ram, overwritten, mode), NEW kind \in {"recall", "list"}, NEW q \in Queries, NEW k \in Nat,
           NEW filtered \in BOOLEAN, Ask(kind, q, k, filtered)
    PROVE  CallOK'
<1> DEFINE no == <<>>
           r == Asked("embed", kind, q, k, filtered, no)
<1>1. call' = r /\ files' = files /\ ram' = ram
  BY DEF Ask
<1>2. no \in Seq(Ids) /\ Range(no) = {}
  BY EmptyCall
<1> HIDE DEF no
<1>3. /\ r \in Calls1 /\ r.allowed \subseteq Stored \cup r.gone /\ (r.quiet => r.gone = {})
      /\ r.pc = "embed" /\ r.kind = kind /\ r.query = q /\ r.found = <<>>
  BY <1>2, AskedIs
<1> HIDE DEF r
<1>4. Asking(r, Stored, ram)
  BY <1>3 DEF Asking
<1>5. Stored' = Stored
  BY <1>1 DEF Stored
<1>6. Asking(call', Stored', ram')
  BY <1>1, <1>4, <1>5
<1> QED BY <1>6 DEF CallOK

(* The newest: no two mementos were written at the same time.               *)
LEMMA ListKeeps ==
    ASSUME Sound(ram, overwritten, mode), Provenance, NEW k \in Nat, NEW filtered \in BOOLEAN, List(k, filtered)
    PROVE  CallOK'
<1> DEFINE A == Allowed(filtered)
           age == [id \in Ids |-> Newest(ram, id)]
           picked == topK(SortedBy(A, <), k, age)
           no == <<>>
           r == Asked("read", "newest", no, k, filtered, picked)
           n == Least(k, Cardinality(A))
<1>1. call' = r /\ files' = files /\ ram' = ram
  BY DEF List
<1>2. A \in SUBSET Ids /\ IsFiniteSet(A) /\ A \subseteq Known(ram) /\ \A id \in Ids : Newest(ram, id) \in Nat
  BY AllowedIs
<1>3. no \in Queries \cup {<<>>}
  OBVIOUS
<1>20. \A x \in Ids : age[x] = Newest(ram, x)
  OBVIOUS
<1> HIDE DEF A, age
<1>21. A \in SUBSET Nat
  BY <1>2, IdsAssumption
<1>22. ASSUME NEW x \in A PROVE age[x] \in Int /\ age[x] = Newest(ram, x)
  <2>1. x \in Ids
    BY <1>2
  <2>2. age[x] = Newest(ram, x) /\ Newest(ram, x) \in Nat
    BY <1>2, <1>20, <2>1
  <2> QED BY <2>2
<1>4. A \in SUBSET Nat /\ \A x \in A : age[x] \in Int /\ age[x] = Newest(ram, x)
  BY <1>21, <1>22
<1>5. TopOf(picked, n, A, age)
  BY <1>2, <1>4, TopOfSet
<1> HIDE DEF picked, no
<1>6. Once(picked, n, A) /\ \A x \in A \ Range(picked), y \in Range(picked) : age[x] <= age[y]
  BY <1>5 DEF TopOf
<1>7. picked \in Seq(A) /\ Range(picked) \subseteq A
  BY <1>6, OnceIs
<1>8. picked \in Seq(Ids) /\ Range(picked) \in SUBSET Ids
  BY <1>2, <1>7
<1>9. /\ r \in Calls1 /\ r.allowed \subseteq Stored \cup r.gone /\ (r.quiet => r.gone = {})
      /\ r.pc = "read" /\ r.kind = "newest" /\ r.k = k /\ r.allowed = A
      /\ r.picked = picked /\ r.unread = Range(picked) /\ r.found = <<>>
  <2>1. "read" \in {"embed", "read"} /\ "newest" \in {"recall", "list", "newest"}
    OBVIOUS
  <2> QED BY ONLY <1>3, <1>8, <2>1, AskedIs, k \in Nat, filtered \in BOOLEAN, Sound(ram, overwritten, mode) DEF A, r
<1> HIDE DEF r
<1>10. NewestFirst(r, ram)
  <2>1. PICK T : Apart(T, clock) /\ Came(ram, T, Chunks)
    BY DEF Provenance, From
  <2> SUFFICES ASSUME NEW x \in Range(picked), NEW y \in A \ Range(picked) PROVE Newest(ram, x) > Newest(ram, y)
    BY <1>9 DEF NewestFirst
  <2>2. x \in A /\ x # y /\ x \in Ids /\ y \in Ids /\ x \in Known(ram) /\ y \in Known(ram)
    BY <1>2, <1>7
  <2>3. ram.meta[x].time \in T[x] /\ ram.meta[y].time \in T[y] /\ T[x] \cap T[y] = {}
    BY <2>1, <2>2 DEF Came, Apart
  <2>4. ram.meta[x].time # ram.meta[y].time
    BY <2>3
  <2>5. T[x] \in SUBSET Nat /\ T[y] \in SUBSET Nat
    BY <2>1, <2>2 DEF Apart
  <2>6. ram.meta[x].time \in Nat /\ ram.meta[y].time \in Nat
    BY <2>3, <2>5
  <2>7. ram.meta[x] # None /\ ram.meta[y] # None
    BY <2>2 DEF Known
  <2>8. Newest(ram, x) = ram.meta[x].time + 1 /\ Newest(ram, y) = ram.meta[y].time + 1
    BY <2>7 DEF Newest
  <2>9. Newest(ram, y) <= Newest(ram, x)
    BY <1>4, <1>6, <2>2
  <2> QED BY <2>4, <2>6, <2>8, <2>9
<1>11. DOMAIN r.found = {}
  BY <1>9, EmptyCall
<1>12. Listing(r, ram)
  BY <1>6, <1>9, <1>10, <1>11 DEF Listing, n
<1>13. Asking(r, Stored, ram)
  BY <1>9, <1>12 DEF Asking
<1>14. Stored' = Stored
  BY <1>1 DEF Stored
<1>15. Asking(call', Stored', ram')
  BY <1>1, <1>13, <1>14
<1> QED BY <1>15 DEF CallOK

(* What a listing loads: what the query finds, then the newest of the rest. *)
LEMMA PickedIs ==
    ASSUME Sound(ram, overwritten, mode), call \in Calls1, NEW ranked \in Collapsed(Reach)
    PROVE  /\ Picked(ranked) \in Seq(Ids)
           /\ call.kind # "recall" =>
                Once(Picked(ranked), Least(call.k, Cardinality(call.allowed)), call.allowed)
<1> DEFINE A == call.allowed
           k == call.k
           order == ranked.order
           n == Len(order)
           best == Take(order, k)
           b == Least(n, k)
<1>1. A \in SUBSET Ids /\ k \in Nat
  BY CallParts
<1>2. Reach \in SUBSET Ids /\ (call.kind # "recall" => Reach = A)
  BY <1>1 DEF Reach
<1>3. order \in Seq(Reach) /\ Once(order, n, Reach) /\ n \in Nat
  BY DEF Collapsed
<1> HIDE DEF A, k, order, n
<1>4. best \in Seq(Reach) /\ Len(best) = b /\ \A i \in 1..b : best[i] = order[i]
  BY <1>1, <1>3, TakeIs DEF n
<1>5. b \in Nat /\ b <= n /\ b <= k
  BY <1>1, <1>3 DEF Least
<1> HIDE DEF best, b
<1>6. Once(best, b, Reach)
  <2>1. \A i, j \in 1..b : best[i] = best[j] => i = j
    <3>1. \A i \in 1..b : i \in 1..n
      BY <1>3, <1>5
    <3> QED BY <1>3, <1>4, <3>1 DEF Once
  <2>2. best \in [1..b -> Reach]
    BY <1>4
  <2> QED BY <1>5, <2>1, <2>2 DEF Once
<1>7. CASE call.kind = "recall"
  <2>1. Picked(ranked) = best
    BY <1>7 DEF Picked, best, order, k
  <2>2. best \in Seq(Ids)
    BY <1>2, <1>4
  <2> QED BY <1>7, <2>1, <2>2
<1>8. CASE call.kind # "recall"
  <2> DEFINE S == A \ Range(best)
             age == [id \in Ids |-> Newest(ram, id)]
             rest == topK(SortedBy(S, <), k - b, age)
             c == Cardinality(S)
             a == Cardinality(A)
             l == Least(k - b, c)
  <2>1. Picked(ranked) = best \o rest
    BY <1>4, <1>8 DEF Picked, best, order, k, A
  <2>2. Once(best, b, A)
    BY <1>2, <1>6, <1>8
  <2>3. Range(best) \subseteq A /\ IsFiniteSet(Range(best)) /\ Cardinality(Range(best)) = b
    BY <2>2, OnceIs
  <2>4. IsFiniteSet(A) /\ a \in Nat /\ c = a - b /\ c \in Nat /\ IsFiniteSet(S)
    <3> DEFINE B == Range(best)
    <3>1. IsFiniteSet(A)
      BY <1>1, IdsAssumption, FS_Subset
    <3>2. B \subseteq A /\ Cardinality(B) = b
      BY <2>3
    <3> HIDE DEF B
    <3>3. A \cap B = B
      BY <3>2
    <3>4. Cardinality(A \ B) = Cardinality(A) - Cardinality(A \cap B) /\ IsFiniteSet(A \ B)
      BY <3>1, FS_Difference
    <3>5. Cardinality(A \ B) = Cardinality(A) - b
      BY <3>2, <3>3, <3>4
    <3>6. Cardinality(A) \in Nat /\ Cardinality(A \ B) \in Nat
      BY <3>1, <3>4, FS_CardinalityType
    <3> QED BY <3>1, <3>4, <3>5, <3>6 DEF B
  <2>6. S \subseteq A /\ \A x \in S : x \notin Range(best)
    OBVIOUS
  <2>20. \A x \in Ids : age[x] = Newest(ram, x)
    OBVIOUS
  <2> HIDE DEF S, age, a
  <2>21. S \subseteq Ids
    BY <1>1, <2>6
  <2>22. S \in SUBSET Nat
    BY <2>21, IdsAssumption
  <2>23. k - b \in Nat
    BY <1>1, <1>5
  <2>24. ASSUME NEW x \in S PROVE age[x] \in Int
    <3>1. \A id \in Ids : Newest(ram, id) \in Nat
      BY AllowedIs
    <3>2. x \in Ids
      BY <2>21
    <3>3. age[x] \in Nat
      BY <2>20, <3>1, <3>2
    <3> QED BY <3>3
  <2>5. S \in SUBSET Nat /\ k - b \in Nat /\ \A x \in S : age[x] \in Int
    BY <2>22, <2>23, <2>24
  <2>7. TopOf(rest, l, S, age)
    BY <2>4, <2>5, TopOfSet
  <2> HIDE DEF rest, l
  <2>8. Once(rest, l, S)
    BY <2>7 DEF TopOf
  <2>9. Once(rest, l, A)
    BY <2>6, <2>8 DEF Once
  <2>10. \A i \in 1..b, j \in 1..l : best[i] # rest[j]
    <3> SUFFICES ASSUME NEW i \in 1..b, NEW j \in 1..l, best[i] = rest[j] PROVE FALSE
      OBVIOUS
    <3>1. rest[j] \in S
      BY <2>8 DEF Once
    <3>2. best[i] \in Range(best)
      BY <2>2, OnceIs
    <3> QED BY <2>6, <3>1, <3>2
  <2>11. Once(best \o rest, b + l, A)
    BY <2>2, <2>9, <2>10, OnceJoined
  <2>12. b + l = Least(k, a)
    BY <1>1, <1>5, <2>4 DEF Least, l
  <2>13. best \o rest \in Seq(A)
    BY <2>11, OnceIs
  <2>14. best \o rest \in Seq(Ids)
    BY <1>1, <2>13
  <2> QED BY <2>1, <2>11, <2>12, <2>14 DEF A, k, a
<1> QED BY <1>7, <1>8

(* A call whose query has been embedded.                                    *)
RankedOf(r, picked, best) ==
    [r EXCEPT !.pc = IF picked = <<>> THEN "done" ELSE "read", !.picked = picked,
              !.unread = Range(picked), !.best = best]

(* It stays right, if what is picked is as many as were asked for.          *)
LEMMA RankedIs ==
    ASSUME NEW r, NEW S, NEW m, Asking(r, S, m), r.pc = "embed", NEW picked \in Seq(Ids),
           r.kind # "recall" => Once(picked, Least(r.k, Cardinality(r.allowed)), r.allowed),
           NEW best \in Maps(Ids, Nat)
    PROVE  Asking(RankedOf(r, picked, best), S, m)
<1> DEFINE q == RankedOf(r, picked, best)
           pc == IF picked = <<>> THEN "done" ELSE "read"
           P == Range(picked)
<1>1. /\ r \in Calls1 /\ r.allowed \subseteq S \cup r.gone /\ (r.quiet => r.gone = {})
      /\ r.kind # "newest" /\ r.found = <<>>
  BY DEF Asking
<1>2. P \in SUBSET Ids
  BY DEF Range
<1>3. pc \in {"embed", "read", "done"} /\ pc # "embed" /\ (pc = "done" => picked = <<>>)
  OBVIOUS
<1>4. pc = "done" => P = {}
  BY <1>3, EmptyCall
<1>5. q = [r EXCEPT !.pc = pc, !.picked = picked, !.unread = P, !.best = best]
  BY DEF RankedOf
<1> HIDE DEF q, pc, P
<1>6. /\ q \in Calls1
      /\ q.pc = pc /\ q.kind = r.kind /\ q.query = r.query /\ q.k = r.k /\ q.allowed = r.allowed
      /\ q.quiet = r.quiet /\ q.gone = r.gone /\ q.picked = picked /\ q.unread = P
      /\ q.found = r.found
  BY <1>1, <1>2, <1>3, <1>5 DEF Calls1
<1>7. DOMAIN q.found = {}
  BY <1>1, <1>6, EmptyCall
<1>8. ASSUME q.kind # "recall" PROVE Listing(q, m)
  BY <1>1, <1>4, <1>6, <1>7, <1>8 DEF Listing, P
<1> QED BY <1>1, <1>3, <1>6, <1>8 DEF Asking, q

(* A ranking keeps the call right.                                          *)
LEMMA RankKeeps ==
    ASSUME IInv, Provenance, CallOK, Rank
    PROVE  CallOK'
<1>1. call.pc = "embed" /\ files' = files /\ ram' = ram
  BY DEF Rank
<1>2. call # idle
  BY <1>1 DEF idle
<1>3. Asking(call, Stored, ram)
  BY <1>2 DEF CallOK
<1>4. call \in Calls1 /\ call.query \in Queries /\ call.k \in Nat
  BY <1>1, <1>3, CallParts DEF Asking
<1>5. Sound(ram, overwritten, mode)
  BY DEF IInv
<1>6. \A c \in DOMAIN ram.index : ram.index[c] \in Chunks
  BY DEF Provenance, From, Came
<1> DEFINE NextCall(r) ==
             [call EXCEPT !.pc = IF Picked(r) = <<>> THEN "done" ELSE "read",
                          !.picked = Picked(r), !.unread = Range(Picked(r)), !.best = r.best]
<1>0. \E r \in {rankSemantic(score) : score \in Scores} : call' = NextCall(r)
  BY Zenon DEF Rank
<1> HIDE DEF NextCall
<1>7. PICK score \in Scores : call' = NextCall(rankSemantic(score))
  BY <1>0
<1> DEFINE ranked == rankSemantic(score)
           picked == Picked(ranked)
           best == ranked.best
<1>8. ranked \in Collapsed(Reach)
  BY <1>4, <1>5, <1>6, RankIs
<1>9. call' = RankedOf(call, picked, best)
  BY <1>7 DEF RankedOf, NextCall
<1> HIDE DEF ranked
<1>10. /\ picked \in Seq(Ids)
       /\ call.kind # "recall" => Once(picked, Least(call.k, Cardinality(call.allowed)), call.allowed)
  BY <1>4, <1>5, <1>8, PickedIs
<1>11. best \in Maps(Ids, Nat)
  <2>1. Reach \in SUBSET Ids
    BY <1>4, CallParts DEF Reach
  <2>2. best \in Maps(Reach, Nat)
    BY <1>8 DEF Collapsed
  <2> HIDE DEF best
  <2> QED BY <2>1, <2>2, MapsIs
<1> HIDE DEF picked, best
<1>12. Asking(RankedOf(call, picked, best), Stored, ram)
  BY <1>1, <1>3, <1>10, <1>11, RankedIs
<1>13. Stored' = Stored
  BY <1>1 DEF Stored
<1>14. Asking(call', Stored', ram')
  BY <1>1, <1>9, <1>12, <1>13
<1> QED BY <1>14 DEF CallOK

(* Reading a file keeps the call right.                                     *)
LEMMA ReadCall ==
    ASSUME IInv, CallOK, NEW id \in Ids, Read(id)
    PROVE  CallOK'
<1> DEFINE count == Len(files[id].chunks)
           best == IF id \in DOMAIN call.best THEN call.best[id] ELSE 0
           hit == [chunk |-> IF best < count THEN best ELSE count - 1, count |-> count]
<1>1. /\ call.pc = "read" /\ id \in call.unread /\ files' = files
      /\ (id \in Stored => ram' = ram)
      /\ call' = ReadOf(call, Stored, id, call.unread \ {id}, hit)
  BY DEF Read, ReadOf
<1>2. call # idle
  BY <1>1 DEF idle
<1>3. Asking(call, Stored, ram)
  BY <1>2 DEF CallOK
<1>4. id \in Stored => hit \in Hit1
  <2> SUFFICES ASSUME id \in Stored PROVE hit \in Hit1
    OBVIOUS
  <2>1. count \in Nat
    BY StoredIs DEF IInv
  <2>2. call.best \in Maps(Ids, Nat)
    BY <1>3, CallParts DEF Asking
  <2>3. best \in Nat
    <3>1. CASE id \in DOMAIN call.best
      <4>1. call.best \in [DOMAIN call.best -> Nat]
        BY <2>2, MapsIs
      <4> QED BY <3>1, <4>1
    <3>2. CASE id \notin DOMAIN call.best
      BY <3>2
    <3> QED BY <3>1, <3>2
  <2> HIDE DEF count, best
  <2> QED BY <2>1, <2>3 DEF Hit1
<1> HIDE DEF hit
<1>5. Stored \in SUBSET Ids
  BY DEF Stored
<1>6. Asking(ReadOf(call, Stored, id, call.unread \ {id}, hit), Stored, ram')
  BY <1>1, <1>3, <1>4, <1>5, ReadKeeps
<1>7. Stored' = Stored
  BY <1>1 DEF Stored
<1>8. Asking(call', Stored', ram')
  BY <1>1, <1>6, <1>7
<1> QED BY <1>8 DEF CallOK

(* A vault whose text is none of Inputs is neither written to nor read.     *)
Closed == call = idle /\ ~(calls < MaxCalls)

CallInv == Closed \/ (Provenance /\ CallOK)

LInv == IInv /\ CallInv

(* The first state satisfies it.                                            *)
LEMMA CallInit == Init => CallInv
<1> SUFFICES ASSUME Init PROVE CallInv
  OBVIOUS
<1>1. PICK text \in Texts :
        LET f == [text |-> text, chunks |-> Written[text], tagged |-> FALSE, time |-> 0]
            live == \E x \in Inputs : x[1] = text IN
          /\ files = [id \in Ids |-> IF id = 1 THEN f ELSE None]
          /\ ram = registerMemento(Empty, 1, f)
          /\ clock = (IF live THEN 1 ELSE MaxWrites)
          /\ calls = (IF live THEN 0 ELSE MaxCalls)
  BY DEF Init
<1>2. call = idle /\ 1 \in Ids
  BY IdsAssumption DEF Init
<1>3. CASE ~(\E x \in Inputs : x[1] = text)
  <2>1. calls = MaxCalls /\ MaxCalls \in Nat
    BY <1>1, <1>3, BoundsAssumption
  <2> QED BY <1>2, <2>1 DEF CallInv, Closed
<1>4. CASE \E x \in Inputs : x[1] = text
  <2> DEFINE f == [text |-> text, chunks |-> Written[text], tagged |-> FALSE, time |-> 0]
             T == [id \in Ids |-> IF id = 1 THEN {0} ELSE {}]
  <2>1. /\ files = [id \in Ids |-> IF id = 1 THEN f ELSE None]
        /\ ram = registerMemento(Empty, 1, f) /\ clock = 1
    BY <1>1, <1>4
  <2>2. f.chunks \in Seq(Chunks) /\ f.time = 0 /\ f \in File1
    <3>1. PICK x \in Inputs : x[1] = text
      BY <1>4
    <3>2. File(x[1], FALSE).chunks \in Seq(Chunks) /\ File(x[1], FALSE).chunks = Written[text]
      BY <3>1, FileCame DEF File
    <3>3. Written[text] \in Seq(Chunk1)
      <4>1. text \in Seq(Characters)
        BY TextAssumption DEF Texts
      <4>2. splitChunks(text) \in Seq(Chunk1)
        BY <4>1, SplitChunksType
      <4> QED BY <4>2 DEF Written
    <3> QED BY <3>2, <3>3 DEF File1
  <2>3. /\ T \in [Ids -> SUBSET Nat] /\ T[1] = {0} /\ (\A id \in Ids : id # 1 => T[id] = {})
    BY <1>2
  <2> HIDE DEF T, f
  <2>4. Apart(T, clock)
    BY <2>1, <2>3 DEF Apart
  <2>5. FilesCame(files, T, Chunks)
    <3> SUFFICES ASSUME NEW id \in Ids, files[id] # None
                 PROVE  files[id].time \in T[id] /\ files[id].chunks \in Seq(Chunks)
      BY DEF FilesCame
    <3>1. id = 1 /\ files[id] = f
      BY <2>1
    <3> QED BY <2>2, <2>3, <3>1
  <2>6. Known(Empty) = {} /\ DOMAIN Empty.index = {}
    <3>1. DOMAIN <<>> = {}
      OBVIOUS
    <3> QED BY <3>1 DEF Known, Empty
  <2>7. Came(Empty, T, Chunks)
    BY <2>6 DEF Came
  <2>8. Came(ram, T, Chunks)
    BY <1>2, <2>1, <2>2, <2>3, <2>7, EmptySound, RegisterCame
  <2>9. From(T)
    BY <2>4, <2>5, <2>8 DEF From
  <2> QED BY <1>2, <2>9 DEF CallInv, CallOK, Provenance
<1> QED BY <1>3, <1>4

(* Nothing is stored that is no longer: it is gone, and the call was told.  *)
StaysBut(g) == g \in SUBSET Ids /\ Disturbs(g) /\ Stored \subseteq Stored' \cup g

(* A change of a file takes nothing away but that file.                     *)
LEMMA ChangeStays ==
    ASSUME FilesOK, NEW id \in Ids, NEW f, Changes(id, f)
    PROVE  /\ f # None => Stored \subseteq Stored' \cup {}
           /\ Stored \subseteq Stored' \cup {id}
<1>1. files' = [files EXCEPT ![id] = f] /\ DOMAIN files = Ids
  BY DEF Changes, FilesOK
<1>2. ASSUME NEW i \in Stored, i # id PROVE i \in Stored'
  BY <1>1, <1>2 DEF Stored
<1>3. f # None => id \in Stored'
  BY <1>1 DEF Stored
<1> QED BY <1>2, <1>3

(* Such a vault stays so.                                                   *)
LEMMA ClosedKeeps ==
    ASSUME Closed, [Next]_vars
    PROVE  Closed'
<1>0. call = idle /\ call.pc = "idle" /\ ~(calls < MaxCalls)
  BY DEF Closed, idle
<1>a. ASSUME NEW g, Disturbs(g), calls' = calls PROVE Closed'
  <2>1. call' = idle
    BY <1>0, <1>a DEF Disturbs
  <2> QED BY <1>0, <1>a, <2>1 DEF Closed, idle
<1>b. ASSUME UNCHANGED <<call, calls>> PROVE Closed'
  BY <1>0, <1>b DEF Closed, idle
<1>1. ASSUME NEW id, NEW x, writeMemento(id, x[1], x[2]) PROVE Closed'
  BY <1>a, <1>1 DEF writeMemento
<1>2. ASSUME NEW id, NEW x, updateMemento(id, x[1]) PROVE Closed'
  BY <1>a, <1>2 DEF updateMemento
<1>3. ASSUME NEW id, NEW f, Elsewhere(id, f) PROVE Closed'
  BY <1>a, <1>3 DEF Elsewhere
<1>4. ASSUME NEW id, updateMissing(id) PROVE Closed'
  BY <1>a, <1>4 DEF updateMissing
<1>5. ASSUME NEW id, deleteMemento(id) PROVE Closed'
  BY <1>a, <1>5 DEF deleteMemento
<1>6. ASSUME Sync PROVE Closed'
  BY <1>a, <1>6 DEF Sync
<1>7. ASSUME NEW id, Read(id) PROVE Closed'
  BY <1>0, <1>7 DEF Read
<1>8. CASE Rank
  BY <1>0, <1>8 DEF Rank
<1>9. ASSUME NEW kind, NEW q, NEW k, NEW filtered, Ask(kind, q, k, filtered) \/ List(k, filtered) PROVE Closed'
  BY <1>0, <1>9 DEF Ask, List, Begins
<1>10. CASE UNCHANGED vars
  BY <1>b, <1>10 DEF vars
<1>11. CASE Next
  BY <1>1, <1>2, <1>3, <1>4, <1>5, <1>6, <1>7, <1>8, <1>9, <1>11 DEF Next
<1> QED BY <1>10, <1>11

(* Every step keeps the call right.                                         *)
LEMMA CallNext == IInv /\ Provenance /\ CallOK /\ [Next]_vars => CallOK'
<1> SUFFICES ASSUME IInv, Provenance, CallOK, [Next]_vars PROVE CallOK'
  OBVIOUS
<1>0. FilesOK /\ Sound(ram, overwritten, mode) /\ clock \in Nat
  BY DEF IInv, FilesOK
<1>a. ASSUME NEW g, StaysBut(g) PROVE CallOK'
  BY <1>a, DisturbedKeeps DEF StaysBut
<1>b. ASSUME NEW x \in Inputs, NEW tagged \in BOOLEAN PROVE File(x[1], tagged) # None
  <2>1. x[1] \in Texts
    BY DEF Texts
  <2>2. File(x[1], tagged) \in File1
    BY <1>0, <2>1, FileType
  <2> QED BY <2>2, NoneIs
<1>c. {} \in SUBSET Ids
  OBVIOUS
<1>1. ASSUME NEW id \in New, NEW x \in Inputs, writeMemento(id, x[1], x[2]) PROVE CallOK'
  <2>1. x[2] \in BOOLEAN /\ id \in Ids
    BY TextAssumption DEF New
  <2>2. Changes(id, File(x[1], x[2])) /\ Disturbs({})
    BY <1>1 DEF writeMemento
  <2>3. Stored \subseteq Stored' \cup {}
    BY <1>0, <1>b, <2>1, <2>2, ChangeStays
  <2>4. StaysBut({})
    BY <1>c, <2>2, <2>3 DEF StaysBut
  <2> QED BY <1>a, <2>4
<1>2. ASSUME NEW id, NEW x \in Inputs, updateMemento(id, x[1]) PROVE CallOK'
  <2>0. id \in Stored
    BY <1>2 DEF updateMemento
  <2>1. id \in Ids /\ files[id].tagged \in BOOLEAN
    BY <1>0, <2>0, StoredIs
  <2>2. Changes(id, File(x[1], files[id].tagged)) /\ Disturbs({})
    BY <1>2 DEF updateMemento
  <2>3. Stored \subseteq Stored' \cup {}
    BY <1>0, <1>b, <2>1, <2>2, ChangeStays
  <2>4. StaysBut({})
    BY <1>c, <2>2, <2>3 DEF StaysBut
  <2> QED BY <1>a, <2>4
<1>3. ASSUME NEW id \in Stored \cup New, NEW x \in Inputs, Elsewhere(id, File(x[1], x[2])) PROVE CallOK'
  <2>1. x[2] \in BOOLEAN /\ id \in Ids
    BY TextAssumption DEF New, Stored
  <2> DEFINE f == File(x[1], x[2])
  <2>2. f # None
    BY <1>b, <2>1
  <2>3. Changes(id, f) /\ Disturbs({})
    BY <1>3, <2>2 DEF Elsewhere
  <2>4. Stored \subseteq Stored' \cup {}
    BY <1>0, <2>1, <2>2, <2>3, ChangeStays
  <2>5. StaysBut({})
    BY <1>c, <2>3, <2>4 DEF StaysBut
  <2> QED BY <1>a, <2>5
<1>4. ASSUME NEW id \in Stored, Elsewhere(id, None) PROVE CallOK'
  <2>1. Changes(id, None) /\ Disturbs({id}) /\ id \in Ids
    BY <1>4 DEF Elsewhere, Stored
  <2>2. Stored \subseteq Stored' \cup {id}
    BY <1>0, <2>1, ChangeStays
  <2>3. StaysBut({id})
    BY <2>1, <2>2 DEF StaysBut
  <2> QED BY <1>a, <2>3
<1>5. ASSUME NEW id \in Ids, updateMissing(id) PROVE CallOK'
  <2>1. Disturbs({}) /\ files' = files
    BY <1>5 DEF updateMissing
  <2>2. StaysBut({})
    BY <2>1 DEF StaysBut, Stored
  <2> QED BY <1>a, <2>2
<1>6. ASSUME NEW id \in Ids, deleteMemento(id) PROVE CallOK'
  <2>1. Changes(id, None) /\ Disturbs({id})
    BY <1>6 DEF deleteMemento
  <2>2. Stored \subseteq Stored' \cup {id}
    BY <1>0, <2>1, ChangeStays
  <2>3. StaysBut({id})
    BY <2>1, <2>2 DEF StaysBut
  <2> QED BY <1>a, <2>3
<1>7. ASSUME NEW id \in Ids, Read(id) PROVE CallOK'
  BY <1>7, ReadCall
<1>8. ASSUME Sync PROVE CallOK'
  <2>1. Disturbs({}) /\ files' = files
    BY <1>8 DEF Sync
  <2>2. StaysBut({})
    BY <2>1 DEF StaysBut, Stored
  <2> QED BY <1>a, <2>2
<1>9. CASE Rank
  BY <1>9, RankKeeps
<1>10. CASE UNCHANGED vars
  <2>1. call' = call /\ Stored' = Stored /\ ram' = ram
    BY <1>10 DEF vars, Stored
  <2> QED BY <2>1 DEF CallOK, idle
<1>11. ASSUME NEW kind \in {"recall", "list"}, NEW q \in Queries, NEW k \in Wanted, NEW filtered \in BOOLEAN,
              Ask(kind, q, k, filtered) \/ List(k, filtered)
       PROVE CallOK'
  <2>1. k \in Nat
    BY BoundsAssumption
  <2>2. CASE Ask(kind, q, k, filtered)
    BY <1>0, <2>1, <2>2, AskKeeps
  <2>3. CASE List(k, filtered)
    BY <1>0, <2>1, <2>3, ListKeeps
  <2> QED BY <1>11, <2>2, <2>3
<1>12. CASE Next
  BY <1>1, <1>2, <1>3, <1>4, <1>5, <1>6, <1>7, <1>8, <1>9, <1>11, <1>12 DEF Next
<1> QED BY <1>10, <1>12

(* The first state satisfies the invariant of the reads.                    *)
LEMMA LInvInit == Init => LInv
BY IInvInit, CallInit DEF LInv

(* Every step keeps the invariant of the reads.                             *)
LEMMA LInvNext == LInv /\ [Next]_vars => LInv'
<1> SUFFICES ASSUME IInv, CallInv, [Next]_vars PROVE IInv' /\ CallInv'
  BY DEF LInv
<1>1. IInv'
  BY IInvNext
<1>2. CASE Closed
  <2>1. Closed'
    BY <1>2, ClosedKeeps
  <2> QED BY <1>1, <2>1 DEF CallInv
<1>3. CASE Provenance /\ CallOK
  <2>1. Provenance' /\ CallOK'
    BY <1>3, ProvenanceNext, CallNext
  <2> QED BY <1>1, <2>1 DEF CallInv
<1> QED BY <1>2, <1>3 DEF CallInv

(* When a listing is over, as many as were asked for are found, less those  *)
(* that are gone.                                                           *)
LEMMA ListingFollows == LInv => ListingComplete
<1> SUFFICES ASSUME LInv, call.pc = "done", call.kind # "recall"
             PROVE  LET found == DOMAIN call.found IN
                      /\ found \subseteq call.allowed /\ Cardinality(found) <= call.k
                      /\ Cardinality(found) >= Least(call.k, Cardinality(call.allowed))
                                                 - Cardinality(call.gone \cap call.allowed)
                      /\ call.kind = "newest" /\ call.quiet =>
                           \A id \in found, other \in call.allowed \ found : Newest(ram, id) > Newest(ram, other)
  BY DEF ListingComplete
<1> DEFINE found == DOMAIN call.found
           A == call.allowed
           G == call.gone \cap A
           P == Range(call.picked)
           k == call.k
           l == Least(k, Cardinality(A))
<1>1. call # idle
  BY DEF idle
<1>2. Asking(call, Stored, ram)
  BY <1>1 DEF LInv, CallInv, Closed, CallOK
<1>3. /\ Once(call.picked, l, A) /\ found \subseteq P
      /\ P \subseteq call.unread \cup found \cup call.gone /\ call.unread = {}
      /\ (call.quiet => call.gone = {})
      /\ (call.kind = "newest" /\ call.quiet => NewestFirst(call, ram))
  BY <1>2 DEF Asking, Listing
<1>4. A \in SUBSET Ids /\ k \in Nat /\ call.gone \in SUBSET Ids
  BY <1>2, CallParts DEF Asking
<1>5. P \subseteq A /\ IsFiniteSet(P) /\ Cardinality(P) = l
  BY <1>3, OnceIs
<1>6. G \subseteq A /\ P \subseteq found \cup G /\ (call.quiet => P = found)
  BY <1>3, <1>5
<1>7. call.kind = "newest" /\ call.quiet =>
        \A id \in found, other \in A \ found : Newest(ram, id) > Newest(ram, other)
  BY <1>3, <1>6 DEF NewestFirst
<1> HIDE DEF found, A, G, P, k, l
<1>8. IsFiniteSet(A) /\ Cardinality(A) \in Nat
  BY <1>4, IdsAssumption, FS_Subset, FS_CardinalityType
<1>9. l \in Nat /\ l <= k
  BY <1>4, <1>8 DEF Least, l
<1>10. IsFiniteSet(found) /\ IsFiniteSet(G) /\ Cardinality(found) <= Cardinality(P)
  <2>1. found \subseteq P
    BY <1>3
  <2> QED BY <1>5, <1>6, <1>8, <2>1, FS_Subset
<1>11. Cardinality(found) \in Nat /\ Cardinality(G) \in Nat /\ Cardinality(found \cap G) \in Nat
  BY <1>10, FS_CardinalityType, FS_Intersection
<1>12. /\ IsFiniteSet(found \cup G)
       /\ Cardinality(found \cup G) = Cardinality(found) + Cardinality(G) - Cardinality(found \cap G)
  BY <1>10, FS_Union
<1>13. Cardinality(P) <= Cardinality(found \cup G)
  BY <1>6, <1>12, FS_Subset
<1>14. Cardinality(found) <= k /\ Cardinality(found) >= l - Cardinality(G)
  BY <1>5, <1>9, <1>10, <1>11, <1>12, <1>13, <1>4
<1>15. found \subseteq A
  BY <1>3, <1>5
<1> QED BY <1>7, <1>14, <1>15 DEF found, A, G, k, l

(* The invariant of the reads holds in every reachable state.               *)
THEOREM LInvHolds == Spec => []LInv
BY LInvInit, LInvNext, PTL DEF Spec

(* A listing is complete, whatever is written, deleted and synced while it  *)
(* is under way, whatever the query finds, and for every limit.             *)
THEOREM ListingCorrect == Spec => []ListingComplete
BY LInvHolds, ListingFollows, PTL
=============================================================================
