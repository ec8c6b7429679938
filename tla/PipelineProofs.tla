--------------------------- MODULE PipelineProofs ---------------------------
(***************************************************************************)
(* Proofs about Merge and Pipeline, for any requests, engines, weights,    *)
(* pages, rows and times to live: what a search answers was fetched for    *)
(* its question and fused from the engines' pages whatever order they came *)
(* in, and a search that has ended has one row in the log and one terminal *)
(* frame on its stream, a meta that orders only what the stream was sent.  *)
(***************************************************************************)
EXTENDS Pipeline, FiniteSetTheorems, SequenceTheorems, WellFoundedInduction, TLAPS

-----------------------------------------------------------------------------
(* Places in a strict order, given as a set of pairs.                      *)
Strict(S, R) ==
  /\ IsFiniteSet(S)
  /\ \A a \in S : <<a, a>> \notin R
  /\ \A a, b \in S : a # b => <<a, b>> \in R \/ <<b, a>> \in R
  /\ \A a, b, c \in S : <<a, b>> \in R /\ <<b, c>> \in R => <<a, c>> \in R

Beyond(S, R, k) == {l \in S : <<l, k>> \in R}

LEMMA Smaller ==
  ASSUME NEW S, IsFiniteSet(S), NEW T, T \subseteq S, NEW x \in S, x \notin T
  PROVE  IsFiniteSet(T) /\ Cardinality(T) \in Nat /\ Cardinality(S) \in Nat /\ Cardinality(T) < Cardinality(S)
<1>1. T \in SUBSET S
  OBVIOUS
<1>2. IsFiniteSet(T) /\ Cardinality(T) <= Cardinality(S) /\ (Cardinality(S) = Cardinality(T) => S = T)
  BY <1>1, FS_Subset
<1>3. Cardinality(S) \in Nat /\ Cardinality(T) \in Nat
  BY <1>2, FS_CardinalityType
<1> QED
  BY <1>2, <1>3

LEMMA BeyondGrows ==
  ASSUME NEW S, NEW R, Strict(S, R), NEW a \in S, NEW b \in S, <<a, b>> \in R
  PROVE  /\ Cardinality(Beyond(S, R, a)) \in Nat /\ Cardinality(Beyond(S, R, b)) \in Nat
         /\ Cardinality(Beyond(S, R, a)) < Cardinality(Beyond(S, R, b))
<1>1. Beyond(S, R, a) \subseteq Beyond(S, R, b) /\ a \in Beyond(S, R, b) /\ a \notin Beyond(S, R, a)
  BY DEF Strict, Beyond
<1>2. IsFiniteSet(Beyond(S, R, b))
  BY FS_Subset DEF Strict, Beyond
<1> QED
  BY <1>1, <1>2, Smaller

LEMMA Places ==
  ASSUME NEW S, NEW R, Strict(S, R)
  PROVE  /\ Cardinality(S) \in Nat
         /\ \A k \in S : Cardinality(Beyond(S, R, k)) \in 0..Cardinality(S) - 1
         /\ \A k, l \in S : Cardinality(Beyond(S, R, k)) = Cardinality(Beyond(S, R, l)) => k = l
         /\ \A n \in 1..Cardinality(S) : \E k \in S : Cardinality(Beyond(S, R, k)) = n - 1
<1> DEFINE size == Cardinality(S)
           place == [k \in S |-> Cardinality(Beyond(S, R, k)) + 1]
<1>1. size \in Nat
  BY FS_CardinalityType DEF Strict
<1>2. \A k \in S : Cardinality(Beyond(S, R, k)) \in 0..size - 1
  <2> TAKE k \in S
  <2>1. Beyond(S, R, k) \subseteq S /\ k \notin Beyond(S, R, k)
    BY DEF Strict, Beyond
  <2>2. Cardinality(Beyond(S, R, k)) \in Nat /\ Cardinality(Beyond(S, R, k)) < size
    BY <2>1, Smaller DEF Strict
  <2> QED
    BY <1>1, <2>2
<1>3. \A k, l \in S : Cardinality(Beyond(S, R, k)) = Cardinality(Beyond(S, R, l)) => k = l
  <2> TAKE k, l \in S
  <2>1. ASSUME <<k, l>> \in R PROVE Cardinality(Beyond(S, R, k)) # Cardinality(Beyond(S, R, l))
    BY <2>1, BeyondGrows
  <2>2. ASSUME <<l, k>> \in R PROVE Cardinality(Beyond(S, R, k)) # Cardinality(Beyond(S, R, l))
    BY <2>2, BeyondGrows
  <2> QED
    BY <2>1, <2>2 DEF Strict
<1>4. place \in Injection(S, 1..size)
  <2>1. place \in [S -> 1..size]
    BY <1>1, <1>2
  <2>2. \A k, l \in S : place[k] = place[l] => k = l
    BY <1>1, <1>2, <1>3
  <2> QED
    BY <2>1, <2>2 DEF Injection, IsInjective
<1>5. IsFiniteSet(1..size) /\ Cardinality(1..size) = size
  BY <1>1, FS_Interval
<1>6. place \in Surjection(S, 1..size)
  BY <1>4, <1>5, FS_Injection
<1>7. \A n \in 1..size : \E k \in S : Cardinality(Beyond(S, R, k)) = n - 1
  <2> TAKE n \in 1..size
  <2>1. PICK k \in S : place[k] = n
    BY <1>6 DEF Surjection
  <2> QED
    BY <1>1, <1>2, <2>1
<1> QED
  BY <1>1, <1>2, <1>3, <1>7

LEMMA ImageSize ==
  ASSUME NEW A, IsFiniteSet(A), NEW r, \A m, n \in A : r[m] = r[n] => m = n
  PROVE  IsFiniteSet({r[m] : m \in A}) /\ Cardinality({r[m] : m \in A}) = Cardinality(A)
<1> DEFINE f == [m \in A |-> r[m]]
           B == {r[m] : m \in A}
<1>1. f \in Bijection(A, B)
  BY DEF Bijection, Injection, IsInjective, Surjection
<1>2. ExistsBijection(A, B)
  BY <1>1 DEF ExistsBijection
<1> QED
  BY <1>2, FS_Bijection

\* r lists S in the order R.
Lists(r, S, R) ==
  /\ r \in [1..Cardinality(S) -> S]
  /\ \A n \in 1..Cardinality(S) : Cardinality(Beyond(S, R, r[n])) = n - 1

LEMMA ListOrders ==
  ASSUME NEW S, NEW R, Strict(S, R), NEW r, Lists(r, S, R)
  PROVE  /\ \A m, n \in 1..Cardinality(S) : r[m] = r[n] => m = n
         /\ \A m, n \in 1..Cardinality(S) : <<r[m], r[n]>> \in R <=> m < n
         /\ \A k \in S : \E n \in 1..Cardinality(S) : r[n] = k
<1> DEFINE size == Cardinality(S)
<1>0. size \in Nat /\ r \in [1..size -> S]
  BY Places DEF Lists
<1>1. ASSUME NEW m \in 1..size, NEW n \in 1..size, r[m] = r[n] PROVE m = n
  <2>1. m - 1 = n - 1
    BY <1>1 DEF Lists
  <2> QED
    BY <2>1
<1>2. ASSUME NEW m \in 1..size, NEW n \in 1..size, <<r[m], r[n]>> \in R PROVE m < n
  <2>1. Cardinality(Beyond(S, R, r[m])) < Cardinality(Beyond(S, R, r[n]))
    BY <1>0, <1>2, BeyondGrows
  <2>2. m - 1 < n - 1
    BY <2>1 DEF Lists
  <2> QED
    BY <2>2
<1>3. ASSUME NEW m \in 1..size, NEW n \in 1..size, m < n PROVE <<r[m], r[n]>> \in R
  <2>1. r[m] # r[n] /\ r[m] \in S /\ r[n] \in S
    BY <1>0, <1>1, <1>3
  <2>2. ~(<<r[n], r[m]>> \in R)
    BY <1>2, <1>3
  <2> QED
    BY <2>1, <2>2 DEF Strict
<1>4. ASSUME NEW k \in S PROVE \E n \in 1..size : r[n] = k
  <2>1. Cardinality(Beyond(S, R, k)) \in 0..size - 1
    BY Places
  <2>2. PICK n \in 1..size : n - 1 = Cardinality(Beyond(S, R, k))
    <3> DEFINE place == Cardinality(Beyond(S, R, k)) + 1
    <3>1. place \in 1..size /\ place - 1 = Cardinality(Beyond(S, R, k))
      BY <1>0, <2>1
    <3> QED
      BY <3>1
  <2>3. r[n] \in S /\ Cardinality(Beyond(S, R, r[n])) = Cardinality(Beyond(S, R, k))
    BY <1>0, <2>2 DEF Lists
  <2> QED
    BY <2>3, Places
<1> QED
  BY <1>1, <1>2, <1>3, <1>4

\* Up to a place of the list, counted in the list or in the order.
UpTo(r, n, T) == {m \in 1..n : r[m] \in T}

LEMMA CountedUpTo ==
  ASSUME NEW S, NEW R, Strict(S, R), NEW r, Lists(r, S, R),
         NEW T, T \subseteq S, NEW n \in 1..Cardinality(S), r[n] \in T
  PROVE  /\ Cardinality(UpTo(r, n, T)) = Cardinality(Beyond(T, R, r[n])) + 1
         /\ Cardinality(Beyond(T, R, r[n])) \in Nat
<1> DEFINE size == Cardinality(S)
           upto == {m \in 1..n : r[m] \in T}
           before == {l \in T : <<l, r[n]>> \in R}
<1>0. size \in Nat /\ n \in 1..size
  BY Places
<1>1. \A m \in 1..n : m \in 1..size
  BY <1>0
<1>2. {r[m] : m \in upto} = before \cup {r[n]}
  <2>1. ASSUME NEW m \in upto PROVE r[m] \in before \cup {r[n]}
    <3>1. m < n \/ m = n
      BY <1>0
    <3> QED
      BY <1>1, <3>1, ListOrders
  <2>2. ASSUME NEW l \in before PROVE l \in {r[m] : m \in upto}
    <3>1. PICK m \in 1..size : r[m] = l
      BY ListOrders
    <3>2. m < n
      BY <3>1, ListOrders
    <3>3. m \in 1..n
      BY <1>0, <3>2
    <3> QED
      BY <3>1, <3>3
  <2>3. r[n] \in {r[m] : m \in upto}
    <3>1. n \in upto
      BY <1>0
    <3> QED
      BY <3>1
  <2> HIDE DEF upto, before
  <2> QED
    BY <2>1, <2>2, <2>3
<1>3. IsFiniteSet(upto)
  <2>1. IsFiniteSet(1..n) /\ upto \in SUBSET (1..n)
    BY <1>0, FS_Interval
  <2> QED
    BY <2>1, FS_Subset
<1>4. Cardinality({r[m] : m \in upto}) = Cardinality(upto)
  <2>1. \A i, j \in upto : r[i] = r[j] => i = j
    BY <1>1, ListOrders
  <2> HIDE DEF upto
  <2> QED
    BY <1>3, <2>1, ImageSize
<1>5. r[n] \notin before
  BY ListOrders, <1>0
<1>6. IsFiniteSet(before)
  <2>1. before \in SUBSET S
    OBVIOUS
  <2> HIDE DEF before
  <2> QED
    BY <2>1, FS_Subset DEF Strict
<1> HIDE DEF before, upto
<1>7. Cardinality(before \cup {r[n]}) = Cardinality(before) + 1
  BY <1>5, <1>6, FS_AddElement
<1>8. Cardinality(before) \in Nat
  BY <1>6, FS_CardinalityType
<1> QED
  BY <1>2, <1>4, <1>7, <1>8 DEF before, upto, UpTo, Beyond

Uncrowded(S, R) ==
  {k \in S : CollapseAfter = 0 \/ Cardinality({l \in S : l.host = k.host /\ <<l, k>> \in R}) < CollapseAfter}

LEMMA Collapsed ==
  ASSUME NEW S, NEW R, Strict(S, R), NEW r, Lists(r, S, R)
  PROVE  LET T == Uncrowded(S, R)
         IN Collapse(r) = [n \in 1..Cardinality(T) |-> CHOOSE k \in T : Cardinality(Beyond(T, R, k)) = n - 1]
<1> DEFINE size == Cardinality(S)
           T == Uncrowded(S, R)
           Kept(n) == \/ CollapseAfter = 0
                      \/ Cardinality({m \in 1..n : r[m].host = r[n].host}) <= CollapseAfter
           kept == {n \in 1..size : Kept(n)}
<1>0. size \in Nat /\ r \in [1..size -> S] /\ DOMAIN r = 1..size /\ CollapseAfter \in Nat
  BY Places, MergeAssumption DEF Lists
<1>1. T \subseteq S /\ Strict(T, R)
  BY FS_Subset DEF Uncrowded, Strict
<1>2. ASSUME NEW n \in 1..size PROVE Kept(n) <=> r[n] \in T
  <2> DEFINE H == {l \in S : l.host = r[n].host}
  <2>1. r[n] \in H /\ H \subseteq S
    BY <1>0
  <2>2. {m \in 1..n : r[m].host = r[n].host} = {m \in 1..n : r[m] \in H}
    <3>1. \A m \in 1..n : r[m] \in S
      BY <1>0
    <3> QED
      BY <3>1
  <2>3. {l \in S : l.host = r[n].host /\ <<l, r[n]>> \in R} = {l \in H : <<l, r[n]>> \in R}
    OBVIOUS
  <2>4. /\ Cardinality(UpTo(r, n, H)) = Cardinality(Beyond(H, R, r[n])) + 1
        /\ Cardinality(Beyond(H, R, r[n])) \in Nat
    <3> HIDE DEF H
    <3> QED
      BY <2>1, CountedUpTo
  <2>5. r[n] \in S
    BY <1>0
  <2>6. Cardinality({m \in 1..n : r[m].host = r[n].host}) <= CollapseAfter
          <=> Cardinality({l \in S : l.host = r[n].host /\ <<l, r[n]>> \in R}) < CollapseAfter
    <3> DEFINE a == Cardinality(UpTo(r, n, H))
               b == Cardinality(Beyond(H, R, r[n]))
    <3>1. {m \in 1..n : r[m].host = r[n].host} = UpTo(r, n, H)
      BY <2>2 DEF UpTo
    <3>2. {l \in S : l.host = r[n].host /\ <<l, r[n]>> \in R} = Beyond(H, R, r[n])
      BY <2>3 DEF Beyond
    <3>3. a = b + 1 /\ b \in Nat
      BY <2>4
    <3> HIDE DEF a, b
    <3>4. a <= CollapseAfter <=> b < CollapseAfter
      BY <1>0, <3>3
    <3> QED
      BY <3>1, <3>2, <3>4 DEF a, b
  <2> QED
    BY <2>5, <2>6 DEF Uncrowded
<1>3. Cardinality(kept) = Cardinality(T)
  <2>1. {r[n] : n \in kept} = T
    <3>1. \A n \in kept : r[n] \in T
      BY <1>2
    <3>2. ASSUME NEW k \in T PROVE \E n \in kept : r[n] = k
      <4>1. PICK n \in 1..size : r[n] = k
        BY <1>1, ListOrders
      <4> QED
        BY <1>2, <4>1
    <3> HIDE DEF kept
    <3> QED
      BY <3>1, <3>2
  <2>2. IsFiniteSet(kept)
    <3>1. IsFiniteSet(1..size) /\ kept \in SUBSET (1..size)
      BY <1>0, FS_Interval
    <3> QED
      BY <3>1, FS_Subset
  <2>3. \A m, n \in kept : r[m] = r[n] => m = n
    BY ListOrders
  <2> HIDE DEF kept
  <2> QED
    BY <2>1, <2>2, <2>3, ImageSize
<1>4. ASSUME NEW n \in 1..size, Kept(n)
      PROVE  /\ Cardinality({j \in kept : j <= n}) = Cardinality(Beyond(T, R, r[n])) + 1
             /\ Cardinality(Beyond(T, R, r[n])) \in Nat
  <2>1. \A j \in 1..n : j \in 1..size
    BY <1>0
  <2>2. {j \in kept : j <= n} = {j \in 1..n : r[j] \in T}
    <3>1. \A j : j \in kept /\ j <= n <=> j \in 1..n /\ Kept(j)
      BY <1>0, <2>1
    <3>2. \A j \in 1..n : Kept(j) <=> r[j] \in T
      BY <1>2, <2>1
    <3> HIDE DEF kept, Kept
    <3> QED
      BY <3>1, <3>2
  <2>3. r[n] \in T
    BY <1>2, <1>4
  <2>4. /\ Cardinality(UpTo(r, n, T)) = Cardinality(Beyond(T, R, r[n])) + 1
        /\ Cardinality(Beyond(T, R, r[n])) \in Nat
    <3> HIDE DEF T
    <3> QED
      BY <1>1, <2>3, CountedUpTo
  <2> QED
    BY <2>2, <2>4 DEF UpTo
<1>5. ASSUME NEW m \in 1..Cardinality(T)
      PROVE  r[Nth(kept, m)] = CHOOSE k \in T : Cardinality(Beyond(T, R, k)) = m - 1
  <2> DEFINE At(n) == Cardinality({j \in kept : j <= n}) = m
             n0 == Nth(kept, m)
             Has(k) == Cardinality(Beyond(T, R, k)) = m - 1
             k0 == CHOOSE k \in T : Has(k)
  <2>0. m \in Nat
    BY <1>1, Places
  <2>1. \E k \in T : Has(k)
    <3> HIDE DEF T
    <3> QED
      BY <1>1, Places
  <2>2. k0 \in T /\ Has(k0)
    <3> HIDE DEF T, Has
    <3> QED
      BY <2>1
  <2>3. PICK n \in 1..size : r[n] = k0
    <3> HIDE DEF k0
    <3> QED
      BY <1>1, <2>2, ListOrders
  <2>4. Kept(n)
    BY <1>2, <2>2, <2>3
  <2>5. At(n)
    <3>1. Cardinality({j \in kept : j <= n}) = Cardinality(Beyond(T, R, k0)) + 1
      BY <1>4, <2>3, <2>4
    <3>2. Cardinality(Beyond(T, R, k0)) = m - 1
      BY <2>2
    <3> HIDE DEF kept, T, k0
    <3> QED
      BY <2>0, <3>1, <3>2
  <2>6. n0 \in kept /\ At(n0)
    <3>1. n \in kept
      BY <2>4
    <3> HIDE DEF kept
    <3> QED
      BY <2>5, <3>1 DEF Nth
  <2>7. r[n0] \in T /\ Has(r[n0])
    <3>1. Kept(n0) /\ n0 \in 1..size /\ Cardinality({j \in kept : j <= n0}) = m
      BY <2>6
    <3> HIDE DEF n0
    <3>2. r[n0] \in T
      BY <1>2, <3>1
    <3>3. /\ m = Cardinality(Beyond(T, R, r[n0])) + 1
          /\ Cardinality(Beyond(T, R, r[n0])) \in Nat
      BY <1>4, <3>1
    <3> HIDE DEF Kept, kept, T
    <3>4. Has(r[n0])
      BY <3>3
    <3> QED
      BY <3>2, <3>4
  <2>8. r[n0] = k0
    <3> HIDE DEF T, n0, k0
    <3> QED
      BY <1>1, <2>2, <2>7, Places
  <2> QED
    BY <2>8
<1>6. Collapse(r) = [m \in 1..Cardinality(kept) |-> r[Nth(kept, m)]]
  BY <1>0 DEF Collapse
<1> HIDE DEF kept, Kept, T
<1> QED
  BY <1>3, <1>5, <1>6 DEF T

-----------------------------------------------------------------------------
(* Recursion over numbers: what an equation of the source's loops makes.   *)

LEMMA LeastNumber ==
    ASSUME NEW T, T \subseteq Nat, T # {}
    PROVE  \E x \in T : \A y \in T : ~(y < x)
<1> DEFINE R == OpToRel(<, Nat)
<1>1. IsWellFoundedOn(R, Nat)
  BY NatLessThanWellFounded
<1>2. \A x, y \in Nat : y < x => <<y, x>> \in R
  BY DEF OpToRel
<1> HIDE DEF R
<1>3. \E x \in T : \A y \in T : ~ (<<y, x>> \in R)
  BY <1>1, WFMin
<1> QED
  BY <1>2, <1>3

LEMMA NumbersUpTo ==
    ASSUME NEW n \in Nat, NEW T, 0 \in T, \A k \in 0..(n - 1) : k \in T => k + 1 \in T
    PROVE  0..n \subseteq T
<1> DEFINE Out == {k \in 0..n : k \notin T}
<1>1. ASSUME Out # {} PROVE FALSE
  <2>0. Out \subseteq Nat
    OBVIOUS
  <2>1. PICK k \in Out : \A j \in Out : ~(j < k)
    <3> HIDE DEF Out
    <3> QED
      BY <1>1, <2>0, LeastNumber
  <2>2. k \in 1..n /\ k - 1 \in 0..(n - 1) /\ k - 1 \notin Out
    BY <2>1
  <2>3. k - 1 \in T /\ (k - 1) + 1 = k
    BY <2>2
  <2> QED
    BY <2>1, <2>2, <2>3
<1>2. \A k \in 0..n : k \in T
  BY <1>1
<1> QED
  BY <1>2

\* A sum of addends, term after term.
Sums(addends, n, g) == g = [m \in 0..n |-> IF m = 0 THEN 0 ELSE g[m - 1] + addends[m]]

LEMMA SumsExist ==
  ASSUME NEW n \in Nat, NEW addends \in [1..n -> Nat]
  PROVE  \E g \in [0..n -> Nat] : Sums(addends, n, g)
<1> DEFINE T == {m \in 0..n : \E g \in [0..m -> Nat] : Sums(addends, m, g)}
<1>0. \A m \in 0..n : m \in T <=> \E g \in [0..m -> Nat] : Sums(addends, m, g)
  OBVIOUS
<1> HIDE DEF T
<1>1. 0 \in T
  <2> DEFINE g == [m \in 0..0 |-> 0]
  <2>0. \A m \in 0..0 : m = 0
    OBVIOUS
  <2>1. Sums(addends, 0, g) /\ g \in [0..0 -> Nat]
    BY <2>0 DEF Sums
  <2> HIDE DEF g
  <2>2. \E x \in [0..0 -> Nat] : Sums(addends, 0, x)
    BY <2>1
  <2>3. 0 \in 0..n
    OBVIOUS
  <2> QED
    BY <1>0, <2>2, <2>3
<1>2. ASSUME NEW m \in 0..(n - 1), m \in T PROVE m + 1 \in T
  <2>0. m \in 0..n /\ m + 1 \in 0..n /\ m + 1 \in 1..n
    OBVIOUS
  <2>1. PICK g \in [0..m -> Nat] : Sums(addends, m, g)
    BY <1>0, <1>2, <2>0
  <2> DEFINE h == [i \in 0..(m + 1) |-> IF i = 0 THEN 0 ELSE g[i - 1] + addends[i]]
  <2>2. \A i \in 0..m : h[i] = g[i] /\ i \in 0..(m + 1)
    BY <2>1 DEF Sums
  <2>3. \A i \in 0..(m + 1) : i # 0 => i - 1 \in 0..m /\ i \in 1..n
    OBVIOUS
  <2>4. \A i \in 0..(m + 1) : h[i] = IF i = 0 THEN 0 ELSE h[i - 1] + addends[i]
    <3>1. \A i \in 0..(m + 1) : i # 0 => h[i - 1] = g[i - 1]
      BY <2>2, <2>3
    <3> QED
      BY <3>1
  <2>5. h \in [0..(m + 1) -> Nat]
    BY <2>3
  <2>6. Sums(addends, m + 1, h)
    <3> DEFINE again == [i \in 0..(m + 1) |-> IF i = 0 THEN 0 ELSE h[i - 1] + addends[i]]
    <3>1. \A i \in 0..(m + 1) : h[i] = again[i]
      BY <2>4
    <3>2. h = again
      BY <3>1
    <3> QED
      BY <3>2 DEF Sums
  <2> HIDE DEF h
  <2> QED
    BY <1>0, <2>0, <2>5, <2>6
<1>3. n \in T
  <2>1. 0..n \subseteq T
    BY <1>1, <1>2, NumbersUpTo
  <2> QED
    BY <2>1
<1> QED
  BY <1>0, <1>3

LEMMA SumUpTold == ASSUME NEW f \in [Engines -> Nat] PROVE SumUp(f) \in Nat
<1> DEFINE n == Cardinality(Engines)
           Made(g) == g = [m \in 0..n |-> IF m = 0 THEN 0 ELSE g[m - 1] + f[m]]
           upto == CHOOSE g : Made(g)
<1>1. n \in Nat /\ f \in [1..n -> Nat]
  BY MergeAssumption, FS_CardinalityType
<1>2. PICK g \in [0..n -> Nat] : Sums(f, n, g)
  <2> HIDE DEF n
  <2> QED
    BY <1>1, SumsExist
<1>3. Made(upto)
  <2>1. Made(g)
    BY <1>2 DEF Sums
  <2> HIDE DEF Made
  <2> QED
    BY <2>1
<1>4. \A m \in 0..n : upto[m] \in Nat
  <2> DEFINE T == {m \in 0..n : upto[m] \in Nat}
  <2>1. 0 \in T
    <3>1. 0 \in 0..n
      BY <1>1
    <3>2. upto[0] = 0
      <4> HIDE DEF upto
      <4> QED
        BY <1>3, <3>1
    <3> HIDE DEF upto, n
    <3> QED
      BY <3>1, <3>2
  <2>2. ASSUME NEW m \in 0..(n - 1), m \in T PROVE m + 1 \in T
    <3>1. m + 1 \in 0..n /\ m + 1 \in 1..n /\ (m + 1) - 1 = m /\ m + 1 # 0
      BY <1>1
    <3>2. upto[m + 1] = upto[m] + f[m + 1]
      <4> HIDE DEF upto
      <4> QED
        BY <1>3, <3>1
    <3>3. f[m + 1] \in Nat /\ upto[m] \in Nat
      BY <1>1, <2>2, <3>1
    <3> HIDE DEF upto
    <3> QED
      BY <3>1, <3>2, <3>3
  <2>3. 0..n \subseteq T
    <3> HIDE DEF T, n
    <3> QED
      BY <1>1, <2>1, <2>2, NumbersUpTo
  <2> QED
    BY <2>3
<1>5. SumUp(f) = upto[n]
  BY DEF SumUp
<1> HIDE DEF upto
<1> QED
  BY <1>1, <1>4, <1>5

LEMMA ContributionNat == ASSUME NEW idx \in Engines, NEW rank \in Nat \ {0} PROVE Contribution(idx, rank) \in Nat
<1>1. Weight[idx] \in Nat /\ Scale \in Nat /\ RrfK + rank \in Nat \ {0}
  BY MergeAssumption
<1>2. Weight[idx] * Scale \in Nat
  BY <1>1
<1>3. \A a \in Nat, b \in Nat \ {0} : a \div b \in Nat
  OBVIOUS
<1> QED
  BY <1>1, <1>2, <1>3 DEF Contribution

LEMMA GivenTold ==
  ASSUME NEW idx \in Engines, NEW page \in Seq(DOMAIN Parts), NEW k
  PROVE  /\ Given(page, idx, k)[0] = 0
         /\ \A rank \in 0..Len(page) : Given(page, idx, k)[rank] \in Nat
         /\ \A rank \in 1..Len(page) :
              Given(page, idx, k)[rank] =
                Given(page, idx, k)[rank - 1] + (IF Canonical[page[rank]] = k THEN Contribution(idx, rank) ELSE 0)
<1> DEFINE n == Len(page)
           gives == [rank \in 1..n |-> IF Canonical[page[rank]] = k THEN Contribution(idx, rank) ELSE 0]
           Made(g) == g = [rank \in 0..n |-> IF rank = 0 THEN 0
                             ELSE g[rank - 1] + (IF Canonical[page[rank]] = k THEN Contribution(idx, rank) ELSE 0)]
           upto == CHOOSE g : Made(g)
<1>1. n \in Nat
  OBVIOUS
<1>2. gives \in [1..n -> Nat]
  <2>1. \A rank \in 1..n : Contribution(idx, rank) \in Nat
    <3> HIDE DEF n
    <3> QED
      BY <1>1, ContributionNat
  <2> QED
    BY <2>1
<1>3. PICK g \in [0..n -> Nat] : Sums(gives, n, g)
  <2> HIDE DEF n, gives
  <2> QED
    BY <1>1, <1>2, SumsExist
<1>4. Made(g)
  <2> HIDE DEF n
  <2>1. \A rank \in 0..n : rank # 0 => rank \in 1..n
    BY <1>1
  <2>2. [rank \in 0..n |-> IF rank = 0 THEN 0 ELSE g[rank - 1] + gives[rank]]
          = [rank \in 0..n |-> IF rank = 0 THEN 0
               ELSE g[rank - 1] + (IF Canonical[page[rank]] = k THEN Contribution(idx, rank) ELSE 0)]
    BY <2>1
  <2> HIDE DEF gives
  <2> QED
    BY <1>3, <2>2 DEF Sums
<1>5. Made(upto)
  <2> HIDE DEF Made
  <2> QED
    BY <1>4
<1>6. Given(page, idx, k) = upto
  BY DEF Given
<1> HIDE DEF upto
<1>7. upto[0] = 0 /\ \A rank \in 1..n : upto[rank] = upto[rank - 1] + (IF Canonical[page[rank]] = k THEN Contribution(idx, rank) ELSE 0)
  <2>1. \A rank \in 1..n : rank # 0 /\ rank \in 0..n
    BY <1>1
  <2> HIDE DEF n
  <2> QED
    BY <1>1, <1>5, <2>1
<1>8. \A m \in 0..n : upto[m] \in Nat
  <2> DEFINE T == {m \in 0..n : upto[m] \in Nat}
  <2>1. 0 \in T
    <3>1. 0 \in 0..n /\ upto[0] = 0
      BY <1>1, <1>7
    <3> HIDE DEF n
    <3> QED
      BY <3>1
  <2>2. ASSUME NEW m \in 0..(n - 1), m \in T PROVE m + 1 \in T
    <3>1. m + 1 \in 0..n /\ m + 1 \in 1..n /\ (m + 1) - 1 = m /\ m + 1 # 0
      BY <1>1
    <3>2. upto[m + 1] = upto[m] + (IF Canonical[page[m + 1]] = k THEN Contribution(idx, m + 1) ELSE 0)
      BY <1>7, <3>1
    <3>3. Contribution(idx, m + 1) \in Nat /\ upto[m] \in Nat
      <4>1. m + 1 \in Nat \ {0}
        OBVIOUS
      <4> QED
        BY <2>2, <4>1, ContributionNat
    <3> HIDE DEF n
    <3> QED
      BY <3>1, <3>2, <3>3
  <2>3. 0..n \subseteq T
    <3> HIDE DEF T, n
    <3> QED
      BY <1>1, <2>1, <2>2, NumbersUpTo
  <2> QED
    BY <2>3
<1> QED
  BY <1>6, <1>7, <1>8

LEMMA GivenNothing ==
  ASSUME NEW idx \in Engines, NEW page \in Seq(DOMAIN Parts), NEW k,
         NEW m \in 0..Len(page), \A rank \in 1..m : Canonical[page[rank]] # k
  PROVE  Given(page, idx, k)[m] = 0
<1> DEFINE g == Given(page, idx, k)
           T == {rank \in 0..m : g[rank] = 0}
<1>1. m \in Nat /\ Len(page) \in Nat /\ m <= Len(page)
  OBVIOUS
<1>2. g[0] = 0 /\ \A rank \in 1..Len(page) :
        g[rank] = g[rank - 1] + (IF Canonical[page[rank]] = k THEN Contribution(idx, rank) ELSE 0)
  BY GivenTold
<1> HIDE DEF g
<1>3. 0 \in T
  BY <1>1, <1>2
<1>4. ASSUME NEW rank \in 0..(m - 1), rank \in T PROVE rank + 1 \in T
  <2>1. rank + 1 \in 1..m /\ rank + 1 \in 1..Len(page) /\ (rank + 1) - 1 = rank /\ g[rank] = 0
    BY <1>1, <1>4
  <2>2. g[rank + 1] = g[(rank + 1) - 1] + 0
    BY <1>2, <2>1
  <2> QED
    BY <2>1, <2>2
<1>5. 0..m \subseteq T
  <2> HIDE DEF T
  <2> QED
    BY <1>1, <1>3, <1>4, NumbersUpTo
<1> QED
  BY <1>1, <1>5 DEF g

LEMMA SpotOrder ==
  /\ Engines \subseteq Nat
  /\ \A p \in Nat \X Nat : ~Before(p, p)
  /\ \A p, q \in Nat \X Nat : p # q => Before(p, q) \/ Before(q, p)
  /\ \A p, q \in Nat \X Nat : ~(Before(p, q) /\ Before(q, p))
  /\ \A p, q, r \in Nat \X Nat : Before(p, q) /\ Before(q, r) => Before(p, r)
<1>1. Engines \subseteq Nat
  <2>1. Cardinality(Engines) \in Nat
    BY MergeAssumption, FS_CardinalityType
  <2> QED
    BY <2>1, MergeAssumption
<1>2. \A p, q \in Nat \X Nat : p = q <=> p[1] = q[1] /\ p[2] = q[2]
  OBVIOUS
<1>3. \A p \in Nat \X Nat : p[1] \in Nat /\ p[2] \in Nat
  OBVIOUS
<1>4. \A p \in Nat \X Nat : ~Before(p, p)
  BY <1>3 DEF Before
<1>5. \A p, q \in Nat \X Nat : p # q => Before(p, q) \/ Before(q, p)
  BY <1>2, <1>3 DEF Before
<1>6. \A p, q \in Nat \X Nat : ~(Before(p, q) /\ Before(q, p))
  BY <1>3 DEF Before
<1>7. \A p, q, r \in Nat \X Nat : Before(p, q) /\ Before(q, r) => Before(p, r)
  BY <1>3 DEF Before
<1> QED
  BY <1>1, <1>4, <1>5, <1>6, <1>7

\* What is known of the merge of pages, of each engine up to a rank.
Entry ==
  [url : DOMAIN Parts, by : Engines, contributions : [Engines -> Nat],
   best : Nat, bestOrder : Engines \X Nat, firstSeen : Engines \X Nat]

SpotsTo(pgs, upto, k) ==
  {s \in Engines \X Nat : s[2] \in 1..upto[s[1]] /\ Canonical[UrlAt(pgs, s)] = k}

Tells(e, k, pgs, upto) ==
  /\ e \in Entry
  /\ e.bestOrder \in SpotsTo(pgs, upto, k)
  /\ e.best = Worth(e.bestOrder) /\ e.url = UrlAt(pgs, e.bestOrder) /\ e.by = e.bestOrder[1]
  /\ e.firstSeen \in SpotsTo(pgs, upto, k)
  /\ \A s \in SpotsTo(pgs, upto, k) : ~Before(s, e.firstSeen) /\ ~Better(Worth(s), s, e)
  /\ \A idx \in Engines : e.contributions[idx] = Given(pgs[idx], idx, k)[upto[idx]]

Merged(held, pgs, upto) ==
  /\ \A k : k \in DOMAIN held <=> SpotsTo(pgs, upto, k) # {}
  /\ \A k \in DOMAIN held : Tells(held[k], k, pgs, upto)

LEMMA AddsOne ==
  ASSUME NEW held, NEW pgs \in [Engines -> Seq(DOMAIN Parts)], NEW upto \in [Engines -> Nat],
         \A j \in Engines : upto[j] <= Len(pgs[j]), Merged(held, pgs, upto),
         NEW idx \in Engines, NEW rank \in 1..Len(pgs[idx]), rank = upto[idx] + 1
  PROVE  Merged(AddOne(held, idx, rank, pgs[idx][rank]), pgs, [upto EXCEPT ![idx] = rank])
<1> DEFINE url == pgs[idx][rank]
           key == Canonical[url]
           here == <<idx, rank>>
           c == Contribution(idx, rank)
           onto == [upto EXCEPT ![idx] = rank]
           known == key \in DOMAIN held
           old == IF known THEN held[key]
                  ELSE [url |-> url, by |-> idx, contributions |-> [j \in Engines |-> 0],
                        best |-> c, bestOrder |-> here, firstSeen |-> here]
           new == IF Better(c, here, old)
                  THEN [old EXCEPT !.url = url, !.by = idx, !.best = c, !.bestOrder = here]
                  ELSE old
           told == [new EXCEPT !.contributions[idx] = @ + c,
                               !.firstSeen = IF Before(here, @) THEN here ELSE @]
           next == AddOne(held, idx, rank, url)
<1>1. next = [k \in DOMAIN held \cup {key} |-> IF k # key THEN held[k] ELSE told]
  BY DEF AddOne
<1>2. /\ url \in DOMAIN Parts /\ rank \in Nat \ {0} /\ upto[idx] \in Nat /\ upto[idx] = rank - 1
      /\ here \in Engines \X Nat /\ here[1] = idx /\ here[2] = rank
      /\ UrlAt(pgs, here) = url /\ Worth(here) = c /\ c \in Nat
      /\ onto[idx] = rank /\ (\A j \in Engines : j # idx => onto[j] = upto[j])
  <2>1. pgs[idx] \in Seq(DOMAIN Parts) /\ upto[idx] \in Nat
    OBVIOUS
  <2>2. rank \in Nat \ {0} /\ upto[idx] = rank - 1
    BY <2>1
  <2>3. url \in DOMAIN Parts
    BY <2>1
  <2>4. c \in Nat
    BY <2>2, ContributionNat
  <2> QED
    BY <2>1, <2>2, <2>3, <2>4 DEF UrlAt, Worth
<1> HIDE DEF url, c, here, onto, known, old, new, told, next, key
\* The spots.
<1>3. /\ SpotsTo(pgs, onto, key) = SpotsTo(pgs, upto, key) \cup {here}
      /\ \A k : k # key => SpotsTo(pgs, onto, k) = SpotsTo(pgs, upto, k)
  <2>1. \A s \in Engines \X Nat : s[2] \in 1..onto[s[1]] <=> s[2] \in 1..upto[s[1]] \/ s = here
    <3> TAKE s \in Engines \X Nat
    <3>1. s[1] \in Engines /\ s[2] \in Nat /\ s = <<s[1], s[2]>>
      OBVIOUS
    <3>2. CASE s[1] = idx
      <4>1. s = here <=> s[2] = rank
        BY <3>1, <3>2, <1>2 DEF here
      <4>2. s[2] \in 1..rank <=> s[2] \in 1..(rank - 1) \/ s[2] = rank
        BY <3>1, <1>2
      <4> QED
        BY <4>1, <4>2, <3>2, <1>2
    <3>3. CASE s[1] # idx
      BY <3>1, <3>3, <1>2
    <3> QED
      BY <3>2, <3>3
  <2>2. Canonical[UrlAt(pgs, here)] = key
    BY <1>2 DEF key
  <2>3. ASSUME NEW k PROVE \A s : s \in SpotsTo(pgs, onto, k) <=> s \in SpotsTo(pgs, upto, k) \/ (s = here /\ k = key)
    BY <2>1, <2>2, <1>2 DEF SpotsTo
  <2>4. SpotsTo(pgs, onto, key) = SpotsTo(pgs, upto, key) \cup {here}
    <3>1. \A s : s \in SpotsTo(pgs, onto, key) <=> s \in SpotsTo(pgs, upto, key) \/ s = here
      BY <2>3
    <3> QED
      BY <3>1
  <2>5. ASSUME NEW k, k # key PROVE SpotsTo(pgs, onto, k) = SpotsTo(pgs, upto, k)
    <3>1. \A s : s \in SpotsTo(pgs, onto, k) <=> s \in SpotsTo(pgs, upto, k)
      BY <2>3, <2>5
    <3> QED
      BY <3>1
  <2> QED
    BY <2>4, <2>5
\* What is given.
<1>4. \A k : Given(pgs[idx], idx, k)[rank] = Given(pgs[idx], idx, k)[upto[idx]] + (IF key = k THEN c ELSE 0)
  <2> TAKE k
  <2>1. pgs[idx] \in Seq(DOMAIN Parts) /\ rank - 1 = upto[idx]
    BY <1>2
  <2> QED
    BY <2>1, GivenTold DEF key, c, url
<1>5. \A k : \A j \in Engines : Given(pgs[j], j, k)[onto[j]] =
         IF j = idx /\ k = key THEN Given(pgs[j], j, k)[upto[j]] + c ELSE Given(pgs[j], j, k)[upto[j]]
  <2> TAKE k
  <2> TAKE j \in Engines
  <2>1. Given(pgs[j], j, k)[upto[j]] \in Nat
    <3>1. pgs[j] \in Seq(DOMAIN Parts) /\ upto[j] \in 0..Len(pgs[j])
      OBVIOUS
    <3> QED
      BY <3>1, GivenTold
  <2>2. CASE j = idx
    BY <1>2, <1>4, <2>1, <2>2
  <2>3. CASE j # idx
    BY <1>2, <2>3
  <2> QED
    BY <2>2, <2>3
\* The entry of another key stays.
<1>6. ASSUME NEW k \in DOMAIN held, k # key PROVE Tells(next[k], k, pgs, onto)
  <2>1. next[k] = held[k] /\ Tells(held[k], k, pgs, upto)
    BY <1>1, <1>6 DEF Merged
  <2> QED
    BY <1>3, <1>5, <1>6, <2>1 DEF Tells
\* What the key had, or has from here.
<1>7. /\ old \in Entry
      /\ old.bestOrder \in SpotsTo(pgs, onto, key)
      /\ old.best = Worth(old.bestOrder) /\ old.url = UrlAt(pgs, old.bestOrder) /\ old.by = old.bestOrder[1]
      /\ old.firstSeen \in SpotsTo(pgs, onto, key)
      /\ \A s \in SpotsTo(pgs, upto, key) : ~Before(s, old.firstSeen) /\ ~Better(Worth(s), s, old)
      /\ \A j \in Engines : old.contributions[j] = Given(pgs[j], j, key)[upto[j]]
  <2>1. CASE known
    <3>1. old = held[key] /\ Tells(held[key], key, pgs, upto)
      BY <2>1 DEF old, known, Merged
    <3> QED
      BY <3>1, <1>3 DEF Tells
  <2>2. CASE ~known
    <3>1. old = [url |-> url, by |-> idx, contributions |-> [j \in Engines |-> 0],
                 best |-> c, bestOrder |-> here, firstSeen |-> here]
      BY <2>2 DEF old
    <3>2. SpotsTo(pgs, upto, key) = {}
      BY <2>2 DEF known, Merged
    <3>3. ASSUME NEW j \in Engines PROVE Given(pgs[j], j, key)[upto[j]] = 0
      <4>1. pgs[j] \in Seq(DOMAIN Parts) /\ upto[j] \in 0..Len(pgs[j])
        OBVIOUS
      <4>2. \A m \in 1..upto[j] : Canonical[pgs[j][m]] # key
        <5> TAKE m \in 1..upto[j]
        <5>1. <<j, m>> \in Engines \X Nat /\ <<j, m>>[1] = j /\ <<j, m>>[2] = m
          OBVIOUS
        <5>2. <<j, m>> \notin SpotsTo(pgs, upto, key)
          BY <3>2
        <5> QED
          BY <5>1, <5>2 DEF SpotsTo, UrlAt
      <4> QED
        BY <4>1, <4>2, GivenNothing
    <3>4. old \in Entry
      BY <3>1, <1>2 DEF Entry
    <3> QED
      BY <3>1, <3>2, <3>3, <3>4, <1>2, <1>3
  <2> QED
    BY <2>1, <2>2
<1>8. \A s \in SpotsTo(pgs, onto, key) : s \in Nat \X Nat /\ Worth(s) \in Nat
  <2> TAKE s \in SpotsTo(pgs, onto, key)
  <2>1. s[1] \in Engines /\ s[2] \in Nat \ {0} /\ s \in Engines \X Nat
    <3>1. s \in Engines \X Nat /\ s[2] \in 1..onto[s[1]]
      BY DEF SpotsTo
    <3>2. onto[s[1]] \in Nat
      BY <3>1, <1>2
    <3> QED
      BY <3>1, <3>2
  <2> QED
    BY <2>1, SpotOrder, ContributionNat DEF Worth
<1>9. /\ new \in Entry /\ new.firstSeen = old.firstSeen /\ new.contributions = old.contributions
      /\ new.bestOrder \in SpotsTo(pgs, onto, key)
      /\ new.best = Worth(new.bestOrder) /\ new.url = UrlAt(pgs, new.bestOrder) /\ new.by = new.bestOrder[1]
      /\ \A s \in SpotsTo(pgs, onto, key) : ~Better(Worth(s), s, new)
  <2>1. CASE Better(c, here, old)
    <3>1. new = [old EXCEPT !.url = url, !.by = idx, !.best = c, !.bestOrder = here]
      BY <2>1 DEF new
    <3>2. /\ new \in Entry /\ new.firstSeen = old.firstSeen /\ new.contributions = old.contributions
          /\ new.best = c /\ new.bestOrder = here /\ new.url = url /\ new.by = idx
      BY <3>1, <1>2, <1>7 DEF Entry
    <3>3. ASSUME NEW s \in SpotsTo(pgs, onto, key) PROVE ~Better(Worth(s), s, new)
      <4>1. s \in Nat \X Nat /\ Worth(s) \in Nat /\ here \in Nat \X Nat /\ c \in Nat
            /\ old.bestOrder \in Nat \X Nat /\ old.best \in Nat
        BY <1>2, <1>3, <1>7, <1>8
      <4>2. CASE s = here
        BY <4>2, <3>2, <4>1, <1>2, SpotOrder DEF Better
      <4>3. CASE s # here
        <5>1. ~Better(Worth(s), s, old)
          BY <4>3, <1>3, <1>7
        <5>2. CASE c > old.best
          BY <5>1, <5>2, <4>1, <3>2 DEF Better
        <5>3. CASE c = old.best /\ Before(here, old.bestOrder)
          <6>1. Worth(s) < c \/ (Worth(s) = c /\ ~Before(s, old.bestOrder))
            BY <5>1, <5>3, <4>1 DEF Better
          <6>2. ~Before(s, old.bestOrder) => ~Before(s, here)
            BY <5>3, <4>1, SpotOrder
          <6> QED
            BY <6>1, <6>2, <4>1, <3>2 DEF Better
        <5> QED
          BY <2>1, <5>2, <5>3 DEF Better
      <4> QED
        BY <4>2, <4>3
    <3> QED
      BY <3>2, <3>3, <1>2, <1>3
  <2>2. CASE ~Better(c, here, old)
    <3>1. new = old
      BY <2>2 DEF new
    <3> QED
      BY <3>1, <2>2, <1>2, <1>3, <1>7
  <2> QED
    BY <2>1, <2>2
<1>10. /\ told \in Entry
       /\ told.bestOrder = new.bestOrder /\ told.best = new.best /\ told.url = new.url /\ told.by = new.by
       /\ told.firstSeen = (IF Before(here, old.firstSeen) THEN here ELSE old.firstSeen)
       /\ \A j \in Engines : told.contributions[j] = old.contributions[j] + (IF j = idx THEN c ELSE 0)
  <2> DEFINE more == [new.contributions EXCEPT ![idx] = @ + c]
             first == IF Before(here, new.firstSeen) THEN here ELSE new.firstSeen
  <2>1. more \in [Engines -> Nat] /\ \A j \in Engines : more[j] = old.contributions[j] + (IF j = idx THEN c ELSE 0)
    <3>1. new.contributions \in [Engines -> Nat] /\ new.contributions = old.contributions
      BY <1>9 DEF Entry
    <3> QED
      BY <3>1, <1>2
  <2>2. first \in Engines \X Nat
    BY <1>2, <1>9 DEF Entry
  <2>3. told = [[new EXCEPT !.contributions = more] EXCEPT !.firstSeen = first]
    BY <1>9 DEF told, Entry
  <2> HIDE DEF more, first
  <2>4. /\ told \in Entry /\ told.bestOrder = new.bestOrder /\ told.best = new.best /\ told.url = new.url
        /\ told.by = new.by /\ told.firstSeen = first /\ told.contributions = more
    BY <1>9, <2>1, <2>2, <2>3 DEF Entry
  <2> QED
    BY <1>9, <2>1, <2>4 DEF first
<1>11. Tells(told, key, pgs, onto)
  <2>1. \A s \in SpotsTo(pgs, onto, key) : ~Better(Worth(s), s, told)
    BY <1>9, <1>10 DEF Better
  <2>2. told.firstSeen \in SpotsTo(pgs, onto, key)
    BY <1>3, <1>7, <1>10
  <2>3. ASSUME NEW s \in SpotsTo(pgs, onto, key) PROVE ~Before(s, told.firstSeen)
    <3>1. s \in Nat \X Nat /\ here \in Nat \X Nat /\ old.firstSeen \in Nat \X Nat
      BY <1>3, <1>7, <1>8
    <3>2. s = here \/ ~Before(s, old.firstSeen)
      BY <1>3, <1>7
    <3> QED
      BY <3>1, <3>2, <1>10, SpotOrder
  <2>4. ASSUME NEW j \in Engines PROVE told.contributions[j] = Given(pgs[j], j, key)[onto[j]]
    <3>1. old.contributions[j] \in Nat
      BY <1>7 DEF Entry
    <3> QED
      BY <3>1, <1>2, <1>5, <1>7, <1>10
  <2> QED
    BY <2>1, <2>2, <2>3, <2>4, <1>9, <1>10 DEF Tells
<1>12. \A k : k \in DOMAIN next <=> SpotsTo(pgs, onto, k) # {}
  <2> TAKE k
  <2>1. k \in DOMAIN next <=> k \in DOMAIN held \/ k = key
    BY <1>1
  <2>2. k \in DOMAIN held <=> SpotsTo(pgs, upto, k) # {}
    BY DEF Merged
  <2> QED
    BY <2>1, <2>2, <1>3
<1>13. \A k \in DOMAIN next : Tells(next[k], k, pgs, onto)
  <2> TAKE k \in DOMAIN next
  <2>1. CASE k = key
    BY <1>1, <1>11, <2>1
  <2>2. CASE k # key
    BY <1>1, <1>6, <2>2
  <2> QED
    BY <2>1, <2>2
<1> QED
  BY <1>12, <1>13 DEF Merged, next, onto, url

\* The loop of add, rank after rank.
Adding(held, idx, page) ==
  LET after[rank \in 0..Len(page)] ==
        IF rank = 0 THEN held ELSE AddOne(after[rank - 1], idx, rank, page[rank])
  IN after

LEMMA AddingTold ==
  ASSUME NEW held, NEW idx, NEW page, Len(page) \in Nat
  PROVE  /\ Adding(held, idx, page)[0] = held
         /\ \A rank \in 1..Len(page) :
              Adding(held, idx, page)[rank] = AddOne(Adding(held, idx, page)[rank - 1], idx, rank, page[rank])
<1> DEFINE Made(n, g) == g = [r \in 0..n |-> IF r = 0 THEN held ELSE AddOne(g[r - 1], idx, r, page[r])]
           T == {n \in 0..Len(page) : \E g : Made(n, g)}
<1>0. \A n \in 0..Len(page) : n \in T <=> \E g : Made(n, g)
  OBVIOUS
<1> HIDE DEF T
<1>1. 0 \in T
  <2> DEFINE g == [r \in 0..0 |-> held]
  <2>0. \A r \in 0..0 : r = 0
    OBVIOUS
  <2>1. Made(0, g)
    BY <2>0
  <2>2. 0 \in 0..Len(page)
    OBVIOUS
  <2> HIDE DEF Made
  <2> QED
    BY <1>0, <2>1, <2>2
<1>2. ASSUME NEW n \in 0..(Len(page) - 1), n \in T PROVE n + 1 \in T
  <2>0. n \in 0..Len(page) /\ n + 1 \in 0..Len(page)
    OBVIOUS
  <2>1. PICK g : Made(n, g)
    <3> HIDE DEF Made
    <3> QED
      BY <1>0, <1>2, <2>0
  <2> DEFINE h == [r \in 0..(n + 1) |-> IF r = 0 THEN held ELSE AddOne(g[r - 1], idx, r, page[r])]
  <2>2. \A r \in 0..n : h[r] = g[r] /\ r \in 0..(n + 1)
    BY <2>1
  <2>3. \A r \in 0..(n + 1) : r # 0 => r - 1 \in 0..n
    OBVIOUS
  <2>4. \A r \in 0..(n + 1) : h[r] = IF r = 0 THEN held ELSE AddOne(h[r - 1], idx, r, page[r])
    <3>1. \A r \in 0..(n + 1) : r # 0 => h[r - 1] = g[r - 1]
      BY <2>2, <2>3
    <3> QED
      BY <3>1
  <2>5. Made(n + 1, h)
    <3> DEFINE again == [r \in 0..(n + 1) |-> IF r = 0 THEN held ELSE AddOne(h[r - 1], idx, r, page[r])]
    <3>1. \A r \in 0..(n + 1) : h[r] = again[r]
      BY <2>4
    <3>2. h = again
      BY <3>1
    <3> QED
      BY <3>2
  <2> HIDE DEF Made, h
  <2> QED
    BY <1>0, <2>0, <2>5
<1>3. Len(page) \in T
  <2>1. 0..Len(page) \subseteq T
    BY <1>1, <1>2, NumbersUpTo
  <2> QED
    BY <2>1
<1>4. Made(Len(page), Adding(held, idx, page))
  <2>1. \E g : Made(Len(page), g)
    BY <1>0, <1>3
  <2>2. Made(Len(page), CHOOSE g : Made(Len(page), g))
    BY <2>1
  <2> QED
    BY <2>2 DEF Adding
<1> QED
  BY <1>4

Lengths(pgs) == [j \in Engines |-> Len(pgs[j])]
MergedAll(held, pgs) == Merged(held, pgs, Lengths(pgs))

LEMMA AddsPage ==
  ASSUME NEW held, NEW pgs \in [Engines -> Seq(DOMAIN Parts)], MergedAll(held, pgs),
         NEW idx \in Engines, pgs[idx] = <<>>, NEW page \in Seq(DOMAIN Parts)
  PROVE  MergedAll(Add(held, idx, page), [pgs EXCEPT ![idx] = page])
<1> DEFINE all == [pgs EXCEPT ![idx] = page]
           from == Lengths(pgs)
           upto(r) == [from EXCEPT ![idx] = r]
           after == Adding(held, idx, page)
<1>1. /\ all \in [Engines -> Seq(DOMAIN Parts)] /\ from \in [Engines -> Nat] /\ from[idx] = 0
      /\ all[idx] = page /\ Len(page) \in Nat
      /\ \A j \in Engines : j # idx => all[j] = pgs[j]
  BY DEF Lengths
<1>2. Merged(held, all, from)
  <2>1. \A s \in Engines \X Nat : s[2] \in 1..from[s[1]] => s[1] # idx
    BY <1>1
  <2>2. \A s \in Engines \X Nat : s[1] # idx => UrlAt(all, s) = UrlAt(pgs, s)
    BY <1>1 DEF UrlAt
  <2>3. ASSUME NEW k PROVE SpotsTo(all, from, k) = SpotsTo(pgs, from, k)
    <3> HIDE DEF all, from
    <3> QED
      BY <2>1, <2>2 DEF SpotsTo
  <2>4. ASSUME NEW k, NEW j \in Engines PROVE Given(all[j], j, k)[from[j]] = Given(pgs[j], j, k)[from[j]]
    <3>1. CASE j = idx
      <4>1. pgs[j] \in Seq(DOMAIN Parts) /\ all[j] \in Seq(DOMAIN Parts) /\ from[j] = 0
        BY <1>1, <3>1
      <4> QED
        BY <4>1, GivenTold
    <3>2. CASE j # idx
      BY <1>1, <3>2
    <3> QED
      BY <3>1, <3>2
  <2>5. \A k \in DOMAIN held : held[k].bestOrder \in Engines \X Nat /\ held[k].bestOrder[2] \in 1..from[held[k].bestOrder[1]]
    BY DEF MergedAll, Merged, Tells, SpotsTo
  <2>6. \A k \in DOMAIN held : UrlAt(all, held[k].bestOrder) = UrlAt(pgs, held[k].bestOrder)
    BY <2>1, <2>2, <2>5
  <2>7. Merged(held, pgs, from)
    BY DEF MergedAll
  <2> HIDE DEF all, from
  <2>8. \A k \in DOMAIN held : Tells(held[k], k, all, from)
    BY <2>3, <2>4, <2>6, <2>7 DEF Merged, Tells
  <2> QED
    BY <2>3, <2>7, <2>8 DEF Merged
<1>3. after[0] = held /\ \A r \in 1..Len(page) : after[r] = AddOne(after[r - 1], idx, r, page[r])
  BY <1>1, AddingTold
<1> HIDE DEF all, from, after
<1> DEFINE T == {r \in 0..Len(page) : Merged(after[r], all, upto(r))}
<1>0. \A r \in 0..Len(page) : r \in T <=> Merged(after[r], all, upto(r))
  OBVIOUS
<1>4. 0 \in T
  <2>1. upto(0) = from
    BY <1>1
  <2>2. Merged(after[0], all, upto(0))
    BY <1>2, <1>3, <2>1
  <2>3. 0 \in 0..Len(page)
    BY <1>1
  <2> HIDE DEF T, upto
  <2> QED
    BY <1>0, <2>2, <2>3
<1>5. ASSUME NEW r \in 0..(Len(page) - 1), r \in T PROVE r + 1 \in T
  <2>1. PICK n : n = r + 1
    OBVIOUS
  <2>2. n \in 1..Len(all[idx]) /\ n \in 0..Len(page) /\ n - 1 = r /\ n \in 1..Len(page)
    BY <1>1, <2>1
  <2>3. upto(r) \in [Engines -> Nat] /\ upto(r)[idx] = r /\ upto(n) = [upto(r) EXCEPT ![idx] = n]
    <3>1. r \in Nat /\ n \in Nat
      BY <2>1
    <3>2. upto(r) \in [Engines -> Nat] /\ upto(n) \in [Engines -> Nat] /\ upto(r)[idx] = r /\ upto(n)[idx] = n
      BY <1>1, <3>1
    <3>3. \A j \in Engines : j # idx => upto(r)[j] = from[j] /\ upto(n)[j] = from[j]
      BY <1>1
    <3> DEFINE g == upto(r)
               h == upto(n)
    <3>4. g \in [Engines -> Nat] /\ h \in [Engines -> Nat] /\ g[idx] = r /\ h[idx] = n
          /\ \A j \in Engines : j # idx => g[j] = h[j]
      BY <3>2, <3>3
    <3> HIDE DEF g, h, upto
    <3>5. h = [g EXCEPT ![idx] = n]
      BY <3>1, <3>4
    <3> QED
      BY <3>4, <3>5 DEF g, h
  <2>4. \A j \in Engines : upto(r)[j] <= Len(all[j])
    <3> TAKE j \in Engines
    <3>1. CASE j = idx
      BY <3>1, <1>1, <2>2
    <3>2. CASE j # idx
      BY <3>2, <1>1 DEF from, Lengths
    <3> QED
      BY <3>1, <3>2
  <2>5. Merged(after[r], all, upto(r)) /\ n = upto(r)[idx] + 1
    BY <1>5, <2>1, <2>3
  <2> DEFINE onto == upto(r)
  <2>6. upto(n) = [onto EXCEPT ![idx] = n]
    BY <2>3
  <2>7. onto \in [Engines -> Nat] /\ (\A j \in Engines : onto[j] <= Len(all[j])) /\ Merged(after[r], all, onto)
        /\ n = onto[idx] + 1
    BY <2>3, <2>4, <2>5
  <2> HIDE DEF onto, upto
  <2>8. Merged(AddOne(after[r], idx, n, all[idx][n]), all, [onto EXCEPT ![idx] = n])
    BY <1>1, <2>2, <2>7, AddsOne
  <2>9. after[n] = AddOne(after[r], idx, n, all[idx][n])
    BY <1>1, <1>3, <2>2
  <2> QED
    BY <2>1, <2>2, <2>6, <2>8, <2>9
<1>6. Merged(after[Len(page)], all, upto(Len(page)))
  <2> HIDE DEF T
  <2>1. 0..Len(page) \subseteq T
    BY <1>1, <1>4, <1>5, NumbersUpTo
  <2>2. Len(page) \in 0..Len(page)
    BY <1>1
  <2> HIDE DEF upto
  <2> QED
    BY <1>0, <2>1, <2>2
<1>7. upto(Len(page)) = Lengths(all)
  BY <1>1 DEF Lengths, all, from
<1>8. Add(held, idx, page) = after[Len(page)]
  BY DEF Add, after, Adding
<1> QED
  BY <1>6, <1>7, <1>8 DEF MergedAll, all

-----------------------------------------------------------------------------
(* What finish makes of the merge of all pages.                            *)

LEMMA SpotsAre ==
  ASSUME NEW pgs \in [Engines -> Seq(DOMAIN Parts)]
  PROVE  /\ IsFiniteSet(Spots(pgs))
         /\ \A s : s \in Spots(pgs) <=> s \in Engines \X Nat /\ s[2] \in 1..Len(pgs[s[1]])
         /\ \A k : Finds(pgs, k) = SpotsTo(pgs, Lengths(pgs), k)
<1> DEFINE of(idx) == {idx} \X DOMAIN pgs[idx]
           each == {of(idx) : idx \in Engines}
<1>1. Spots(pgs) = UNION each
  BY DEF Spots
<1>2. IsFiniteSet(each)
  <2> DEFINE f == [idx \in Engines |-> of(idx)]
  <2>1. f \in Surjection(Engines, each)
    <3> HIDE DEF of
    <3> QED
      BY DEF Surjection
  <2> QED
    BY <2>1, FS_Surjection, MergeAssumption
<1>3. ASSUME NEW T \in each PROVE IsFiniteSet(T)
  <2>1. PICK idx \in Engines : T = {idx} \X DOMAIN pgs[idx]
    OBVIOUS
  <2>2. Len(pgs[idx]) \in Nat /\ DOMAIN pgs[idx] = 1..Len(pgs[idx])
    BY LenProperties
  <2>3. IsFiniteSet(DOMAIN pgs[idx])
    BY <2>2, FS_Interval
  <2> QED
    BY <2>1, <2>3, FS_Singleton, FS_Product
<1>4. \A s : s \in Spots(pgs) <=> s \in Engines \X Nat /\ s[2] \in 1..Len(pgs[s[1]])
  <2>1. \A idx \in Engines : DOMAIN pgs[idx] = 1..Len(pgs[idx]) /\ Len(pgs[idx]) \in Nat
    BY LenProperties
  <2>2. ASSUME NEW s \in Spots(pgs) PROVE s \in Engines \X Nat /\ s[2] \in 1..Len(pgs[s[1]])
    <3>1. PICK idx \in Engines : s \in of(idx)
      BY <1>1
    <3> QED
      BY <2>1, <3>1
  <2>3. ASSUME NEW s \in Engines \X Nat, s[2] \in 1..Len(pgs[s[1]]) PROVE s \in Spots(pgs)
    <3>1. s \in of(s[1]) /\ s[1] \in Engines
      BY <2>1, <2>3
    <3> HIDE DEF of
    <3> QED
      BY <1>1, <3>1
  <2> QED
    BY <2>2, <2>3
<1>5. ASSUME NEW k PROVE Finds(pgs, k) = SpotsTo(pgs, Lengths(pgs), k)
  <2>1. \A s \in Engines \X Nat : Lengths(pgs)[s[1]] = Len(pgs[s[1]])
    BY DEF Lengths
  <2>2. \A s : s \in Finds(pgs, k) <=> s \in SpotsTo(pgs, Lengths(pgs), k)
    BY <1>4, <2>1 DEF Finds, SpotsTo
  <2> QED
    BY <2>2
<1> HIDE DEF each
<1>6. IsFiniteSet(Spots(pgs))
  BY <1>1, <1>2, <1>3, FS_UNION
<1> QED
  BY <1>4, <1>5, <1>6

\* The merge's keys, and what it holds of each, are those of the pages.
LEMMA KeysAre ==
  ASSUME NEW held, NEW pgs \in [Engines -> Seq(DOMAIN Parts)], MergedAll(held, pgs)
  PROVE  /\ IsFiniteSet(DOMAIN held)
         /\ DOMAIN held = {Canonical[UrlAt(pgs, s)] : s \in Spots(pgs)}
<1>1. \A k : k \in DOMAIN held <=> \E s \in Spots(pgs) : Canonical[UrlAt(pgs, s)] = k
  <2>1. \A k : k \in DOMAIN held <=> Finds(pgs, k) # {}
    BY SpotsAre DEF MergedAll, Merged
  <2> QED
    BY <2>1 DEF Finds
<1>2. DOMAIN held = {Canonical[UrlAt(pgs, s)] : s \in Spots(pgs)}
  BY <1>1
<1>3. [s \in Spots(pgs) |-> Canonical[UrlAt(pgs, s)]] \in Surjection(Spots(pgs), DOMAIN held)
  BY <1>1 DEF Surjection
<1> QED
  BY <1>2, <1>3, SpotsAre, FS_Surjection

LEMMA HeldIs ==
  ASSUME NEW held, NEW pgs \in [Engines -> Seq(DOMAIN Parts)], MergedAll(held, pgs), NEW k \in DOMAIN held
  PROVE  /\ Total(pgs, k) = SumUp(held[k].contributions) /\ Total(pgs, k) \in Nat
         /\ First(pgs, k) = held[k].firstSeen /\ held[k].firstSeen \in Nat \X Nat
         /\ Canonical[UrlAt(pgs, held[k].firstSeen)] = k
         /\ Shown(pgs, k) = held[k].bestOrder
         /\ held[k].url = UrlAt(pgs, Shown(pgs, k)) /\ held[k].by = Shown(pgs, k)[1]
         /\ held[k].url \in DOMAIN Parts /\ held[k].by \in Engines
         /\ Canonical[held[k].url] = k
<1> DEFINE e == held[k]
           F == Finds(pgs, k)
<1>1. /\ e \in Entry /\ e.bestOrder \in F /\ e.firstSeen \in F
      /\ e.best = Worth(e.bestOrder) /\ e.url = UrlAt(pgs, e.bestOrder) /\ e.by = e.bestOrder[1]
      /\ \A s \in F : ~Before(s, e.firstSeen) /\ ~Better(Worth(s), s, e)
      /\ \A idx \in Engines : e.contributions[idx] = Given(pgs[idx], idx, k)[Len(pgs[idx])]
  <2>1. Tells(e, k, pgs, Lengths(pgs)) /\ F = SpotsTo(pgs, Lengths(pgs), k)
    BY SpotsAre DEF MergedAll, Merged
  <2>2. \A idx \in Engines : Lengths(pgs)[idx] = Len(pgs[idx])
    BY DEF Lengths
  <2> QED
    BY <2>1, <2>2 DEF Tells
<1>2. \A s \in F : s \in Nat \X Nat /\ s \in Engines \X (Nat \ {0}) /\ Worth(s) \in Nat /\ Canonical[UrlAt(pgs, s)] = k
  <2> TAKE s \in F
  <2>1. s \in Engines \X Nat /\ s[2] \in 1..Len(pgs[s[1]]) /\ Canonical[UrlAt(pgs, s)] = k
    BY SpotsAre DEF Finds
  <2>2. s[1] \in Engines /\ s[2] \in Nat \ {0} /\ s = <<s[1], s[2]>>
    BY <2>1
  <2>3. Worth(s) \in Nat
    BY <2>2, ContributionNat DEF Worth
  <2> QED
    BY <2>1, <2>2, <2>3, SpotOrder
<1>3. Total(pgs, k) = SumUp(e.contributions) /\ SumUp(e.contributions) \in Nat
  <2>1. e.contributions \in [Engines -> Nat]
    BY <1>1 DEF Entry
  <2>2. e.contributions = [idx \in Engines |-> Given(pgs[idx], idx, k)[Len(pgs[idx])]]
    BY <1>1, <2>1
  <2> QED
    BY <2>1, <2>2, SumUpTold DEF Total
<1>4. First(pgs, k) = e.firstSeen
  <2> DEFINE Is(s) == \A t \in F \ {s} : Before(s, t)
  <2>1. e.firstSeen \in F /\ Is(e.firstSeen)
    BY <1>1, <1>2, SpotOrder
  <2>2. \A s \in F : Is(s) => s = e.firstSeen
    BY <1>1, <1>2, SpotOrder
  <2>3. First(pgs, k) = CHOOSE s \in F : Is(s)
    BY DEF First
  <2> HIDE DEF Is, F, e
  <2> QED
    BY <2>1, <2>2, <2>3
<1>5. Shown(pgs, k) = e.bestOrder
  <2> DEFINE Is(s) == \A t \in F \ {s} : Worth(t) < Worth(s) \/ (Worth(t) = Worth(s) /\ Before(s, t))
  <2>1. e.bestOrder \in F /\ Is(e.bestOrder)
    <3>1. ASSUME NEW t \in F \ {e.bestOrder}
          PROVE  Worth(t) < Worth(e.bestOrder) \/ (Worth(t) = Worth(e.bestOrder) /\ Before(e.bestOrder, t))
      <4>1. Worth(t) \in Nat /\ Worth(e.bestOrder) \in Nat /\ t \in Nat \X Nat /\ e.bestOrder \in Nat \X Nat
        BY <1>1, <1>2
      <4>2. ~(Worth(t) > Worth(e.bestOrder)) /\ ~(Worth(t) = Worth(e.bestOrder) /\ Before(t, e.bestOrder))
        BY <1>1 DEF Better
      <4>3. Before(t, e.bestOrder) \/ Before(e.bestOrder, t)
        BY <4>1, SpotOrder
      <4> HIDE DEF F, e
      <4> QED
        BY <4>1, <4>2, <4>3
    <3> QED
      BY <1>1, <3>1
  <2>2. ASSUME NEW s \in F, Is(s) PROVE s = e.bestOrder
    <3>1. SUFFICES ASSUME s # e.bestOrder PROVE FALSE
      OBVIOUS
    <3>2. s \in Nat \X Nat /\ Worth(s) \in Nat /\ e.bestOrder \in Nat \X Nat /\ Worth(e.bestOrder) \in Nat
      BY <1>1, <1>2
    <3>3. Worth(s) < Worth(e.bestOrder) \/ (Worth(s) = Worth(e.bestOrder) /\ Before(e.bestOrder, s))
      BY <2>1, <3>1
    <3>4. Worth(e.bestOrder) < Worth(s) \/ (Worth(e.bestOrder) = Worth(s) /\ Before(s, e.bestOrder))
      BY <2>2, <1>1, <3>1
    <3>5. ~(Before(s, e.bestOrder) /\ Before(e.bestOrder, s))
      BY <3>2, SpotOrder
    <3> HIDE DEF Is, F, e
    <3> QED
      BY <3>2, <3>3, <3>4, <3>5
  <2>3. Shown(pgs, k) = CHOOSE s \in F : Is(s)
    BY DEF Shown
  <2> HIDE DEF Is, F, e
  <2> QED
    BY <2>1, <2>2, <2>3
<1>6. e.url \in DOMAIN Parts /\ e.by \in Engines
  BY <1>1 DEF Entry
<1> QED
  BY <1>1, <1>2, <1>3, <1>4, <1>5, <1>6

Order(held) == {p \in (DOMAIN held) \X (DOMAIN held) : Above(held, p[1], p[2])}

LEMMA Ordered ==
  ASSUME NEW held, NEW pgs \in [Engines -> Seq(DOMAIN Parts)], MergedAll(held, pgs)
  PROVE  /\ Strict(DOMAIN held, Order(held))
         /\ \A k, l \in DOMAIN held : <<k, l>> \in Order(held) <=> Over(pgs, k, l)
         /\ Lists(Ranked(held), DOMAIN held, Order(held))
<1> DEFINE K == DOMAIN held
           R == Order(held)
<1>1. \A k, l \in K : <<k, l>> \in R <=> Above(held, k, l)
  BY DEF Order
<1>2. \A k, l \in K : Over(pgs, k, l) <=> Above(held, k, l)
  BY HeldIs DEF Over, Above
<1>3. Strict(K, R)
  <2>1. \A k \in K : ~Over(pgs, k, k)
    <3> TAKE k \in K
    <3>1. Total(pgs, k) \in Nat /\ First(pgs, k) \in Nat \X Nat
      BY HeldIs
    <3> QED
      BY <3>1, SpotOrder DEF Over
  <2>2. \A k, l \in K : k # l => Over(pgs, k, l) \/ Over(pgs, l, k)
    <3> TAKE k, l \in K
    <3>1. /\ Total(pgs, k) \in Nat /\ First(pgs, k) \in Nat \X Nat
          /\ Total(pgs, l) \in Nat /\ First(pgs, l) \in Nat \X Nat
          /\ k # l => First(pgs, k) # First(pgs, l)
      BY HeldIs
    <3>2. k # l => Before(First(pgs, k), First(pgs, l)) \/ Before(First(pgs, l), First(pgs, k))
      BY <3>1, SpotOrder
    <3>3. \/ Total(pgs, k) > Total(pgs, l) \/ Total(pgs, l) > Total(pgs, k)
          \/ Total(pgs, k) = Total(pgs, l)
      BY <3>1
    <3> QED
      BY <3>2, <3>3 DEF Over
  <2>3. \A a, b, c \in K : Over(pgs, a, b) /\ Over(pgs, b, c) => Over(pgs, a, c)
    <3> TAKE a, b, c \in K
    <3>1. /\ Total(pgs, a) \in Nat /\ First(pgs, a) \in Nat \X Nat
          /\ Total(pgs, b) \in Nat /\ First(pgs, b) \in Nat \X Nat
          /\ Total(pgs, c) \in Nat /\ First(pgs, c) \in Nat \X Nat
      BY HeldIs
    <3>2. Before(First(pgs, a), First(pgs, b)) /\ Before(First(pgs, b), First(pgs, c))
            => Before(First(pgs, a), First(pgs, c))
      BY <3>1, SpotOrder
    <3> QED
      BY <3>1, <3>2 DEF Over
  <2>4. IsFiniteSet(K)
    BY KeysAre
  <2> QED
    BY <1>1, <1>2, <2>1, <2>2, <2>3, <2>4 DEF Strict
<1>4. Lists(Ranked(held), K, R)
  <2>1. \A k \in K : {l \in K : Above(held, l, k)} = Beyond(K, R, k)
    BY <1>1 DEF Beyond
  <2>2. ASSUME NEW n \in 1..Cardinality(K)
        PROVE  Ranked(held)[n] \in K /\ Cardinality(Beyond(K, R, Ranked(held)[n])) = n - 1
    <3> DEFINE Is(k) == Cardinality({l \in K : Above(held, l, k)}) = n - 1
    <3>1. PICK k \in K : Cardinality(Beyond(K, R, k)) = n - 1
      <4> HIDE DEF K, R
      <4> QED
        BY <1>3, Places
    <3>2. Is(k)
      BY <2>1, <3>1
    <3>3. Ranked(held)[n] = CHOOSE x \in K : Is(x)
      BY DEF Ranked
    <3>4. Ranked(held)[n] \in K /\ Is(Ranked(held)[n])
      <4> HIDE DEF Is, K
      <4> QED
        BY <3>2, <3>3
    <3> QED
      BY <2>1, <3>4
  <2>3. Ranked(held) = [n \in 1..Cardinality(K) |-> Ranked(held)[n]]
    <3> DEFINE nth(n) == CHOOSE k \in K : Cardinality({l \in K : Above(held, l, k)}) = n - 1
    <3>1. Ranked(held) = [n \in 1..Cardinality(K) |-> nth(n)]
      BY DEF Ranked
    <3> HIDE DEF nth, K
    <3> QED
      BY <3>1
  <2> HIDE DEF K, R
  <2>4. Ranked(held) \in [1..Cardinality(K) -> K]
    BY <2>2, <2>3
  <2> QED
    BY <2>2, <2>4 DEF Lists
<1> QED
  BY <1>1, <1>2, <1>3, <1>4

Result == [url : DOMAIN Parts, by : Engines]

LEMMA FinishIsFused ==
  ASSUME NEW held, NEW pgs \in [Engines -> Seq(DOMAIN Parts)], MergedAll(held, pgs)
  PROVE  /\ Finish(held) = Fused(pgs)
         /\ Finish(held) \in Seq(Result)
         /\ \A n \in DOMAIN Finish(held) :
              \E k \in DOMAIN held : Finish(held)[n] = [url |-> held[k].url, by |-> held[k].by]
<1> DEFINE K == DOMAIN held
           R == Order(held)
           T == Uncrowded(K, R)
           all == {Canonical[UrlAt(pgs, s)] : s \in Spots(pgs)}
           Crowd(k) == Cardinality({l \in all : l.host = k.host /\ Over(pgs, l, k)})
           shown == {k \in all : CollapseAfter = 0 \/ Crowd(k) < CollapseAfter}
           pick(n) == CHOOSE k \in T : Cardinality(Beyond(T, R, k)) = n - 1
           choice(n) == CHOOSE j \in shown : Cardinality({l \in shown : Over(pgs, l, j)}) = n - 1
<1>1. all = K /\ \A k, l \in K : <<k, l>> \in R <=> Over(pgs, k, l)
  BY KeysAre, Ordered
<1>2. shown = T
  <2>1. \A k \in K : {l \in all : l.host = k.host /\ Over(pgs, l, k)} = {l \in K : l.host = k.host /\ <<l, k>> \in R}
    BY <1>1
  <2> HIDE DEF all, R
  <2> QED
    BY <1>1, <2>1 DEF Uncrowded
<1>3. T \subseteq K
  BY DEF Uncrowded
<1>4. \A j \in T : {l \in shown : Over(pgs, l, j)} = Beyond(T, R, j)
  <2> HIDE DEF T, R, shown
  <2> QED
    BY <1>1, <1>2, <1>3 DEF Beyond
<1>5. Collapse(Ranked(held)) = [n \in 1..Cardinality(T) |-> pick(n)]
  <2>1. Strict(K, R) /\ Lists(Ranked(held), K, R)
    BY Ordered
  <2> HIDE DEF K, R
  <2> QED
    BY <2>1, Collapsed
<1>6. \A n : pick(n) = choice(n)
  <2> TAKE n
  <2> HIDE DEF T, R, shown
  <2>1. \A j : j \in T /\ Cardinality(Beyond(T, R, j)) = n - 1
                 <=> j \in shown /\ Cardinality({l \in shown : Over(pgs, l, j)}) = n - 1
    BY <1>2, <1>4
  <2> QED
    BY <2>1
<1>7. ASSUME NEW n \in 1..Cardinality(T) PROVE pick(n) \in K
  <2>1. \E k \in T : Cardinality(Beyond(T, R, k)) = n - 1
    <3>1. Strict(T, R)
      <4>1. Strict(K, R)
        BY Ordered
      <4> HIDE DEF K, R, T
      <4> QED
        BY <1>3, <4>1, FS_Subset DEF Strict
    <3> HIDE DEF T, R
    <3> QED
      BY <3>1, Places
  <2> HIDE DEF T, R, K
  <2> QED
    BY <1>3, <2>1
<1> DEFINE ranked == Collapse(Ranked(held))
<1>8. Finish(held) = [n \in DOMAIN ranked |-> [url |-> held[ranked[n]].url, by |-> held[ranked[n]].by]]
  BY DEF Finish
<1>9. Fused(pgs) = [n \in 1..Cardinality(shown) |->
                      [url |-> UrlAt(pgs, Shown(pgs, choice(n))), by |-> Shown(pgs, choice(n))[1]]]
  BY DEF Fused
<1> HIDE DEF T, R, K, pick, choice, shown, ranked
<1>10. DOMAIN ranked = 1..Cardinality(T) /\ \A n \in 1..Cardinality(T) : ranked[n] = choice(n) /\ choice(n) \in K
  BY <1>5, <1>6, <1>7 DEF ranked
<1>11. \A n \in 1..Cardinality(T) :
         [url |-> held[ranked[n]].url, by |-> held[ranked[n]].by]
           = [url |-> UrlAt(pgs, Shown(pgs, choice(n))), by |-> Shown(pgs, choice(n))[1]]
  BY <1>10, HeldIs DEF K
<1>12. Finish(held) = Fused(pgs)
  BY <1>2, <1>8, <1>9, <1>10, <1>11
<1>13. ASSUME NEW n \in DOMAIN Finish(held)
       PROVE  \E k \in DOMAIN held : Finish(held)[n] = [url |-> held[k].url, by |-> held[k].by]
  BY <1>8, <1>10, <1>13 DEF K
<1>14. Finish(held) \in Seq(Result)
  <2>1. Cardinality(T) \in Nat
    <3>1. IsFiniteSet(K) /\ T \subseteq K
      BY <1>3, KeysAre DEF K
    <3> QED
      BY <3>1, FS_Subset, FS_CardinalityType
  <2>2. DOMAIN Finish(held) = 1..Cardinality(T) /\ Finish(held) = [n \in DOMAIN Finish(held) |-> Finish(held)[n]]
    BY <1>8, <1>10
  <2>3. \A n \in DOMAIN Finish(held) : Finish(held)[n] \in Result
    BY <1>13, HeldIs DEF Result
  <2>4. Finish(held) \in [1..Cardinality(T) -> Result]
    BY <2>2, <2>3
  <2> QED
    BY <2>1, <2>4
<1> QED
  BY <1>12, <1>13, <1>14

-----------------------------------------------------------------------------
(* Sequences of frames, whatever is in a frame.                            *)

IsSeq(s) == \E S : s \in Seq(S)

LEMMA Joined ==
  ASSUME NEW s, NEW u, IsSeq(s), IsSeq(u)
  PROVE  /\ IsSeq(s \o u)
         /\ Len(s) \in Nat /\ Len(u) \in Nat /\ Len(s \o u) = Len(s) + Len(u)
         /\ \A n \in 1..Len(s) : (s \o u)[n] = s[n]
         /\ \A n \in 1..Len(u) : (s \o u)[Len(s) + n] = u[n]
<1>1. PICK S : s \in Seq(S)
  BY DEF IsSeq
<1>2. PICK U : u \in Seq(U)
  BY DEF IsSeq
<1>3. s \in Seq(S \cup U) /\ u \in Seq(S \cup U)
  BY <1>1, <1>2
<1>4. s \o u \in Seq(S \cup U)
  BY <1>3
<1> QED
  BY <1>3, <1>4 DEF IsSeq

LEMMA OneFrame == ASSUME NEW x PROVE IsSeq(<<x>>) /\ Len(<<x>>) = 1 /\ <<x>>[1] = x
<1>1. <<x>> \in Seq({x})
  OBVIOUS
<1> QED
  BY <1>1 DEF IsSeq

LEMMA NoFrame == IsSeq(<<>>) /\ Len(<<>>) = 0 /\ \A s : IsSeq(s) => s \o <<>> = s /\ <<>> \o s = s
<1>1. <<>> \in Seq({})
  OBVIOUS
<1>2. ASSUME NEW s, IsSeq(s) PROVE s \o <<>> = s /\ <<>> \o s = s
  <2>1. PICK S : s \in Seq(S)
    BY <1>2 DEF IsSeq
  <2> QED
    BY <2>1, ConcatEmptySeq
<1> QED
  BY <1>1, <1>2 DEF IsSeq

\* A stream that has only sent results, and one that has ended with results.
Batches(ev) == \A n \in 1..Len(ev) : ev[n].kind = "results"
EndsWith(ev, frame) ==
  /\ Len(ev) > 0 /\ ev[Len(ev)] = frame
  /\ \A n \in 1..Len(ev) - 1 : ev[n].kind = "results"

LEMMA BatchesThen ==
  ASSUME NEW ev, NEW frame, IsSeq(ev), Batches(ev)
  PROVE  IsSeq(ev \o <<frame>>) /\ EndsWith(ev \o <<frame>>, frame)
<1>1. /\ IsSeq(ev \o <<frame>>) /\ Len(ev) \in Nat /\ Len(ev \o <<frame>>) = Len(ev) + 1
      /\ \A n \in 1..Len(ev) : (ev \o <<frame>>)[n] = ev[n]
      /\ (ev \o <<frame>>)[Len(ev) + 1] = frame
  BY OneFrame, Joined
<1> QED
  BY <1>1 DEF Batches, EndsWith

LEMMA MoreBatches ==
  ASSUME NEW ev, NEW more, IsSeq(ev), IsSeq(more), Batches(ev), Batches(more)
  PROVE  IsSeq(ev \o more) /\ Batches(ev \o more)
<1>1. /\ IsSeq(ev \o more) /\ Len(ev) \in Nat /\ Len(more) \in Nat
      /\ Len(ev \o more) = Len(ev) + Len(more)
      /\ \A n \in 1..Len(ev) : (ev \o more)[n] = ev[n]
      /\ \A n \in 1..Len(more) : (ev \o more)[Len(ev) + n] = more[n]
  BY Joined
<1>2. ASSUME NEW n \in 1..Len(ev \o more) PROVE (ev \o more)[n].kind = "results"
  <2>1. CASE n \in 1..Len(ev)
    BY <1>1, <2>1 DEF Batches
  <2>2. CASE n \notin 1..Len(ev)
    <3>1. n - Len(ev) \in 1..Len(more) /\ Len(ev) + (n - Len(ev)) = n
      BY <1>1, <2>2
    <3>2. (ev \o more)[n] = more[n - Len(ev)]
      BY <1>1, <3>1
    <3> QED
      BY <3>1, <3>2 DEF Batches
  <2> QED
    BY <2>1, <2>2
<1> QED
  BY <1>1, <1>2 DEF Batches

\* What emit_response sends: batches, and meta.
LEMMA EmitEnds ==
  ASSUME NEW o, o.row.ok \subseteq Engines
  PROVE  IsSeq(Emit(o)) /\ EndsWith(Emit(o), Meta(o.results))
<1> DEFINE from(S) == {n \in DOMAIN o.results : o.results[n].by \in S}
           urls(S) == [m \in 1..Cardinality(from(S)) |-> o.results[Nth(from(S), m)].url]
           shown   == {idx \in o.row.ok : from({idx}) # {}}
           rest    == Engines \ o.row.ok
           batches == [n \in 1..Cardinality(shown) |-> Batch(Nth(shown, n), urls({Nth(shown, n)}))]
           last    == IF from(rest) = {} THEN <<>> ELSE <<Batch(0, urls(rest))>>
<1>1. Emit(o) = batches \o last \o <<Meta(o.results)>>
  BY DEF Emit
<1>2. Cardinality(shown) \in Nat
  <2>1. IsFiniteSet(Engines) /\ shown \subseteq Engines
    BY MergeAssumption
  <2> HIDE DEF shown
  <2> QED
    BY <2>1, FS_Subset, FS_CardinalityType
<1>3. IsSeq(batches) /\ Batches(batches)
  <2> DEFINE frame(n) == Batch(Nth(shown, n), urls({Nth(shown, n)}))
             frames == {frame(n) : n \in 1..Cardinality(shown)}
             count  == Cardinality(shown)
  <2> HIDE DEF urls, shown
  <2>1. \A n \in 1..count : batches[n].kind = "results"
    BY DEF Batch
  <2>2. batches \in [1..count -> frames] /\ count \in Nat
    BY <1>2
  <2> HIDE DEF batches, frames, count
  <2>3. batches \in Seq(frames) /\ Len(batches) = count
    BY <2>2
  <2> QED
    BY <2>1, <2>3 DEF IsSeq, Batches
<1>4. IsSeq(last) /\ Batches(last)
  <2> HIDE DEF from, rest, urls
  <2>1. CASE from(rest) = {}
    BY <2>1, NoFrame DEF Batches
  <2>2. CASE from(rest) # {}
    BY <2>2, OneFrame DEF Batches, Batch
  <2> QED
    BY <2>1, <2>2
<1> HIDE DEF batches, last
<1> QED
  BY <1>1, <1>3, <1>4, MoreBatches, BatchesThen

-----------------------------------------------------------------------------
(* The inductive invariant.                                                *)

\* What o answers request a with was fetched for a, or for a query like its.
AnswersFor(a, o) ==
  \/ o.row.asked = a
  \/ SameButQuery(a, o.row.asked) /\ Similar(a.query, o.row.asked.query)

Shaped ==
  /\ DOMAIN rows = Asks /\ DOMAIN outcome = Tasks /\ DOMAIN pages = Tasks
  /\ DOMAIN events = Requests

\* A row is under the ask it was fetched for: no serve stores it elsewhere.
RowsTold == \A a \in Asks : rows[a] # None => rows[a].asked = a /\ rows[a].ok \subseteq Engines

\* A task that has concluded has something to answer its ask with; a search
\* keeps it.
TaskTold(t) ==
  /\ at[t] = "complete" => outcome[t].kind \in {"cache", "network", "error"}
  /\ (t[2] = "search" \/ at[t] = "complete") /\ outcome[t].kind \in {"cache", "network"} =>
       AnswersFor(Of(t), outcome[t]) /\ outcome[t].row.ok \subseteq Engines

Unsent == {"lookup", "missed", "seeking", "following", "lexical", "queued", "overflow", "hit"}

\* A led flight has told the stream of its leader all but an error.
Concluded(r) ==
  LET o == outcome[Search(r)] IN
  IF o.kind = "error" THEN events[r] = <<>>
  ELSE r \in Streams => EndsWith(events[r], Meta(o.results))

\* Where a search is says what its stream has sent.
StreamTold(r) ==
  LET t == Search(r) o == outcome[t] IN
  /\ IsSeq(events[r])
  /\ r \notin Streams => events[r] = <<>>
  /\ at[t] \notin {"waiting", "entering"}
  /\ at[t] = "hit" => o.kind = "cache"
  /\ at[t] = "respond" => o.kind \in {"cache", "network", "error"}
  /\ at[t] \in Unsent => events[r] = <<>>
  /\ at[t] = "fetching" => Batches(events[r]) /\ (events[r] # <<>> => Answered(t) # {})
  /\ at[t] = "complete" => Concluded(r)
  /\ at[t] = "respond" => events[r] = <<>> \/ Concluded(r)
  /\ at[t] = "idle" =>
       \/ o \in {Nothing, Error("unknown engines")} /\ events[r] = <<>>
       \/ r \in Streams => IF o.kind = "error" THEN events[r] = <<[kind |-> "error"]>>
                           ELSE EndsWith(events[r], Meta(o.results))

\* The row is written as the search ends.
LogTold(r) ==
  LET t == Search(r) IN
  /\ at[t] # "idle" => logged[r] = <<>>
  /\ at[t] = "idle" /\ outcome[t] # Nothing /\ RecordHistory => logged[r] = <<outcome[t].kind>>

IInv ==
  /\ TypeOK /\ Shaped /\ RowsTold
  /\ \A t \in Tasks : TaskTold(t)
  /\ \A r \in Requests : StreamTold(r) /\ LogTold(r)

\* Tasks by their names.
LEMMA TaskNames ==
  /\ \A r \in Requests : /\ Search(r) \in Tasks /\ Refresh(r) \in Tasks
                         /\ Search(r)[1] = r /\ Refresh(r)[1] = r
                         /\ Search(r)[2] = "search" /\ Refresh(r)[2] = "refresh"
  /\ \A r, s : Search(r) # Refresh(s) /\ (Search(r) = Search(s) <=> r = s)
  /\ \A t \in Tasks : /\ t[1] \in Requests /\ t[2] \in {"search", "refresh"}
                      /\ t[2] = "search" => t = Search(t[1])
                      /\ t[2] = "refresh" => t = Refresh(t[1])
  BY DEF Tasks, Search, Refresh

LEMMA Kinds ==
  /\ \A e : Error(e).kind = "error" /\ Error(e) # Nothing
  /\ Nothing.kind = "nothing"
  /\ \A row, tier, stale : LET o == Served(row, tier, stale) IN
       /\ o.kind = "cache" /\ o.row = row /\ o.stale = stale /\ o.results = row.results
       /\ o # Nothing
  BY DEF Error, Nothing, Served

\* Who is not touched stays as told.
LEMMA StreamStays ==
  ASSUME NEW r \in Requests, StreamTold(r), LogTold(r),
         UNCHANGED <<at[Search(r)], outcome[Search(r)], pages[Search(r)], events[r], logged[r]>>
  PROVE  StreamTold(r)' /\ LogTold(r)'
<1>1. Answered(Search(r))' = Answered(Search(r))
  BY DEF Answered
<1> QED
  BY <1>1 DEF StreamTold, LogTold, Concluded

LEMMA TaskStays ==
  ASSUME NEW t \in Tasks, TaskTold(t), UNCHANGED <<at[t], outcome[t], ask[t[1]]>>
  PROVE  TaskTold(t)'
  BY DEF TaskTold, Of

\* A step of a task on its way: no row is written, nothing is answered.
LEMMA OnTheWay ==
  ASSUME IInv, NEW t \in Tasks, NEW to, Go(t, to),
         UNCHANGED <<rows, ask, pages, outcome, events, logged>>, Shaped', TypeOK',
         to # "complete",
         t[2] = "search" => to \in Unsent \ {"hit"} /\ at[t] \in Unsent
  PROVE  IInv'
<1>1. RowsTold'
  BY DEF IInv, RowsTold
<1>2. at' = [at EXCEPT ![t] = to] /\ at \in [Tasks -> {at[s] : s \in Tasks}]
  BY DEF Go, IInv, TypeOK
<1>3. ASSUME NEW s \in Tasks PROVE TaskTold(s)'
  BY <1>2, TaskNames DEF TaskTold, IInv, Of
<1>4. ASSUME NEW r \in Requests PROVE StreamTold(r)' /\ LogTold(r)'
  <2>1. StreamTold(r) /\ LogTold(r) /\ Search(r) \in Tasks /\ Search(r)[2] = "search"
    BY TaskNames DEF IInv
  <2>2. CASE Search(r) = t
    BY <1>2, <2>1, <2>2 DEF StreamTold, LogTold, Unsent
  <2>3. CASE Search(r) # t
    <3>1. at'[Search(r)] = at[Search(r)]
      BY <1>2, <2>1, <2>3
    <3> QED
      BY <2>1, <3>1 DEF StreamTold, LogTold, Concluded, Answered
  <2> QED
    BY <2>2, <2>3
<1> QED
  BY <1>1, <1>3, <1>4 DEF IInv

-----------------------------------------------------------------------------
(* Types.                                                                  *)

LEMMA TasksMove ==
  ASSUME TypeOK, NEW t \in Tasks, NEW to,
         to \in Phases,
         Go(t, to)
  PROVE  at' \in [Tasks -> Phases]
  BY DEF TypeOK, Go

LEMMA NextTypeOK == ASSUME IInv, [Next]_vars PROVE TypeOK' /\ Shaped'
<1> USE PipelineAssumption, TaskNames
<1>0. /\ TypeOK /\ Shaped /\ RowsTold
      /\ \A r \in Requests : LogTold(r)
      /\ \A t \in Tasks : Of(t) \in Asks
  BY DEF IInv, TypeOK, Of
<1>1. ASSUME NEW r \in Requests, Begin(r) PROVE TypeOK' /\ Shaped'
  <2>1. PICK a \in Asks :
          LET refused == a.pin # NoPin /\ ~(a.pin \subseteq Engines) IN
          /\ ask' = [ask EXCEPT ![r] = a]
          /\ Go(Search(r), IF refused THEN "idle" ELSE "lookup")
          /\ Conclude(Search(r), IF refused THEN Error("unknown engines") ELSE Nothing)
          /\ logged' = [logged EXCEPT ![r] = IF refused /\ RecordHistory THEN <<"error">> ELSE <<>>]
    BY <1>1 DEF Begin
  <2>2. at' \in [Tasks -> Phases]
    BY <1>0, <2>1, TasksMove DEF Phases
  <2>3. ask' \in [Requests -> Asks]
    BY <1>0, <2>1 DEF TypeOK, Phases
  <2>4. logged' \in [Requests -> Seq({"cache", "network", "error"})]
    <3>1. <<>> \in Seq({"cache", "network", "error"}) /\ <<"error">> \in Seq({"cache", "network", "error"})
      OBVIOUS
    <3>2. PICK row \in Seq({"cache", "network", "error"}) : logged' = [logged EXCEPT ![r] = row]
      BY <2>1, <3>1
    <3> QED
      BY <1>0, <3>2 DEF TypeOK
  <2>5. /\ UNCHANGED <<now, rows, slot, fetches, pages>>
        /\ events' = [events EXCEPT ![r] = <<>>]
    BY <1>1 DEF Begin
  <2>6. DOMAIN outcome' = Tasks
    BY <1>0, <2>1 DEF Conclude, Shaped
  <2> QED
    BY <1>0, <2>2, <2>3, <2>4, <2>5, <2>6 DEF TypeOK, Shaped
<1>2. ASSUME NEW r \in Requests, Lookup(r) \/ StaleLookup(r) PROVE TypeOK' /\ Shaped'
  <2>1. PICK to \in {"hit", "missed", "seeking"} : Go(Search(r), to)
    BY <1>2 DEF Lookup, StaleLookup
  <2>2. at' \in [Tasks -> Phases]
    BY <1>0, <2>1, TasksMove DEF Phases
  <2>3. UNCHANGED <<now, rows, slot, fetches, ask, pages, events, logged>> /\ DOMAIN outcome' = Tasks
    BY <1>0, <1>2 DEF Lookup, StaleLookup, Conclude, Shaped
  <2> QED
    BY <1>0, <2>2, <2>3 DEF TypeOK, Shaped
<1>3. ASSUME NEW r \in Requests, Hit(r) PROVE TypeOK' /\ Shaped'
  <2>1. at' = [at EXCEPT ![Search(r)] = "idle",
                         ![Refresh(r)] = IF outcome[Search(r)].stale THEN "waiting" ELSE @]
        /\ UNCHANGED <<now, rows, slot, fetches, ask, flight>>
        /\ Log(r, "cache") /\ DOMAIN events' = Requests
    BY <1>0, <1>3 DEF Hit, Send, Shaped
  <2>2. at' \in [Tasks -> Phases]
    BY <1>0, <2>1 DEF TypeOK, Phases
  <2>3. logged' \in [Requests -> Seq({"cache", "network", "error"})]
    BY <1>0, <2>1 DEF TypeOK, Log
  <2> QED
    BY <1>0, <2>1, <2>2, <2>3 DEF TypeOK, Shaped, flight
<1>4. ASSUME NEW r \in Requests, Enter(r) PROVE TypeOK' /\ Shaped'
  <2>1. PICK to \in {"lexical", "following"} : Go(Search(r), to)
    BY <1>4 DEF Enter
  <2>2. at' \in [Tasks -> Phases]
    BY <1>0, <2>1, TasksMove DEF Phases
  <2>3. UNCHANGED <<now, rows, fetches, ask, flight, events, logged>>
        /\ slot' \in [Asks -> Tasks \cup {None}]
    <3>1. slot' = [slot EXCEPT ![ask[r]] = Search(r)] \/ slot' = slot
      BY <1>4 DEF Enter
    <3>2. slot \in [Asks -> Tasks \cup {None}] /\ Search(r) \in Tasks
      BY <1>0 DEF TypeOK
    <3>3. slot' \in [Asks -> Tasks \cup {None}]
      BY <3>1, <3>2
    <3>4. UNCHANGED <<now, rows, fetches, ask, flight, events, logged>>
      BY <1>4 DEF Enter
    <3> QED
      BY <3>3, <3>4
  <2> QED
    BY <1>0, <2>2, <2>3 DEF TypeOK, Shaped, flight
<1>5. ASSUME NEW r \in Requests, Respond(r) PROVE TypeOK' /\ Shaped'
  <2>1. at' \in [Tasks -> Phases]
    BY <1>0, <1>5, TasksMove DEF Phases, Respond
  <2>2. outcome[Search(r)].kind \in {"cache", "network", "error"}
    BY <1>5 DEF IInv, StreamTold, Respond
  <2>3. logged' \in [Requests -> Seq({"cache", "network", "error"})]
    BY <1>0, <1>5, <2>2 DEF TypeOK, Log, Respond
  <2>4. UNCHANGED <<now, rows, slot, fetches, ask, flight>> /\ DOMAIN events' = Requests
    BY <1>0, <1>5 DEF Respond, Send, Shaped
  <2> QED
    BY <1>0, <2>1, <2>3, <2>4 DEF TypeOK, Shaped, flight
<1>6. ASSUME NEW r \in Requests, RefreshWaits(r) PROVE TypeOK' /\ Shaped'
  <2>1. at' \in [Tasks -> Phases]
    BY <1>0, <1>6, TasksMove DEF Phases, RefreshWaits
  <2> QED
    BY <1>0, <1>6, <2>1 DEF TypeOK, Shaped, flight, RefreshWaits
<1>7. ASSUME NEW t \in Tasks, StartFetch(t)
      PROVE  /\ at' \in [Tasks -> Phases]
             /\ fetches' \in 0..MaxFetches /\ DOMAIN pages' = Tasks
  <2>1. at' \in [Tasks -> Phases]
    BY <1>0, <1>7, TasksMove DEF Phases, StartFetch
  <2>2. fetches' \in 0..MaxFetches
    BY <1>0, <1>7 DEF StartFetch, TypeOK
  <2> QED
    BY <1>0, <1>7, <2>1, <2>2 DEF StartFetch, Shaped
<1>8. ASSUME NEW r \in Requests, RefreshEnters(r) PROVE TypeOK' /\ Shaped'
  <2>1. CASE slot[ask[r]] = None
    <3>1. slot' \in [Asks -> Tasks \cup {None}] /\ StartFetch(Refresh(r))
          /\ UNCHANGED <<now, rows, ask, outcome, events, logged>>
      BY SMTT(30), <1>0, <1>8, <2>1 DEF RefreshEnters, TypeOK
    <3> QED
      BY <1>0, <1>7, <3>1 DEF TypeOK, Shaped
  <2>2. CASE slot[ask[r]] # None
    <3>1. Go(Refresh(r), "idle")
          /\ UNCHANGED <<now, rows, slot, fetches, ask, pages, outcome, events, logged>>
      BY <1>8, <2>2 DEF RefreshEnters
    <3>2. at' \in [Tasks -> Phases]
      BY <1>0, <3>1, TasksMove DEF Phases
    <3> QED
      BY <1>0, <3>1, <3>2 DEF TypeOK, Shaped
  <2> QED
    BY <2>1, <2>2
<1>9. ASSUME NEW t \in Tasks,
             LexicalHit(t) \/ LexicalMiss(t) \/ NotAdmitted(t) \/ Overflow(t)
      PROVE  TypeOK' /\ Shaped'
  <2>1. PICK to \in {"complete", "queued", "overflow"} : Go(t, to)
    BY <1>9 DEF LexicalHit, LexicalMiss, NotAdmitted, Overflow
  <2>2. at' \in [Tasks -> Phases]
    BY <1>0, <2>1, TasksMove DEF Phases
  <2>3. UNCHANGED <<now, rows, slot, fetches, ask, pages, logged>>
    BY <1>9 DEF LexicalHit, LexicalMiss, NotAdmitted, Overflow, flight
  <2>4. DOMAIN outcome' = Tasks
    BY <1>0, <1>9 DEF LexicalHit, LexicalMiss, NotAdmitted, Overflow, flight, Conclude, Shaped
  <2>5. DOMAIN events' = Requests
    BY <1>0, <1>9 DEF LexicalHit, LexicalMiss, NotAdmitted, Overflow, Send, Shaped
  <2> QED
    BY <1>0, <2>2, <2>3, <2>4, <2>5 DEF TypeOK, Shaped
<1>10. ASSUME NEW t \in Tasks, Admitted(t) PROVE TypeOK' /\ Shaped'
  BY <1>0, <1>7, <1>10 DEF TypeOK, Shaped, Admitted
<1>11. ASSUME NEW t \in Tasks, Report(t) PROVE TypeOK' /\ Shaped'
  <2>1. UNCHANGED <<now, rows, slot, fetches, at, ask, outcome, logged>>
    BY <1>11 DEF Report
  <2>2. DOMAIN pages' = Tasks /\ DOMAIN events' = Requests
    BY <1>0, <1>11 DEF Report, Send, Shaped
  <2> QED
    BY <1>0, <2>1, <2>2 DEF TypeOK, Shaped
<1>12. ASSUME NEW t \in Tasks, FinishFetch(t) PROVE TypeOK' /\ Shaped'
  <2>1. UNCHANGED <<now, slot, fetches, ask, logged>> /\ Go(t, "complete")
    BY <1>12 DEF FinishFetch
  <2>2. at' \in [Tasks -> Phases]
    BY <1>0, <2>1, TasksMove DEF Phases
  <2>3. DOMAIN pages' = Tasks /\ DOMAIN outcome' = Tasks /\ DOMAIN events' = Requests
    BY <1>0, <1>12 DEF FinishFetch, Send, Conclude, Shaped
  <2>4. UNCHANGED rows \/ \E row : /\ rows' = [rows EXCEPT ![Of(t)] = row]
                                   /\ row.asked = Of(t)
                                   /\ \E ttl \in {TTL, DegradedTTL} : ttl <= TTL /\ row.expires = now + ttl
    <3> DEFINE ok       == {idx \in Answered(t) : pages[t][idx] # <<>>}
               degraded == \E idx \in DOMAIN pages[t] : pages[t][idx] \in {Failed, <<>>}
               ttl      == IF degraded /\ DegradedTTL < TTL THEN DegradedTTL ELSE TTL
               row      == [asked |-> Of(t), results |-> Finish(acc[t]), ok |-> ok,
                            pages |-> [idx \in Engines |-> IF idx \in ok THEN pages[t][idx] ELSE <<>>],
                            expires |-> now + ttl]
    <3>1. UNCHANGED rows \/ rows' = [rows EXCEPT ![Of(t)] = row]
      BY <1>12 DEF FinishFetch
    <3>2. row.asked = Of(t) /\ row.expires = now + ttl
      OBVIOUS
    <3> HIDE DEF row, ok, degraded
    <3>3. ttl \in {TTL, DegradedTTL} /\ ttl <= TTL
      OBVIOUS
    <3> QED
      BY <3>1, <3>2, <3>3
  <2>5. /\ DOMAIN rows' = Asks
        /\ \A a \in Asks : rows'[a] # None =>
             rows'[a].expires \in 0..(EndOfTime + TTL) /\ rows'[a].asked \in Asks
    <3>1. CASE UNCHANGED rows
      BY <1>0, <3>1 DEF TypeOK, Shaped
    <3>2. ASSUME NEW row, NEW ttl \in {TTL, DegradedTTL}, ttl <= TTL,
                 rows' = [rows EXCEPT ![Of(t)] = row], row.asked = Of(t), row.expires = now + ttl
          PROVE  /\ DOMAIN rows' = Asks
                 /\ \A a \in Asks : rows'[a] # None =>
                      rows'[a].expires \in 0..(EndOfTime + TTL) /\ rows'[a].asked \in Asks
      <4>1. row.expires \in 0..(EndOfTime + TTL)
        BY <1>0, <3>2 DEF TypeOK
      <4>2. DOMAIN rows' = Asks /\ \A a \in Asks : rows'[a] = IF a = Of(t) THEN row ELSE rows[a]
        BY <1>0, <3>2 DEF Shaped
      <4> QED
        BY <1>0, <3>2, <4>1, <4>2 DEF TypeOK
    <3> QED
      BY <2>4, <3>1, <3>2
  <2> QED
    BY <1>0, <2>1, <2>2, <2>3, <2>5 DEF TypeOK, Shaped
<1>13. ASSUME NEW t \in Tasks, Complete(t) PROVE TypeOK' /\ Shaped'
  <2>1. UNCHANGED <<now, rows, fetches, ask, pages, acc, events, logged>>
        /\ slot' = [slot EXCEPT ![Of(t)] = None] /\ DOMAIN outcome' = Tasks
    BY <1>13 DEF Complete
  <2>2. /\ at' = [s \in Tasks |-> at'[s]]
        /\ \A s \in Tasks : at'[s] \in {"respond", "idle", "waiting", at[s]}
    <3> DEFINE W == {s \in Tasks : at[s] = "following" /\ slot[Of(t)] = t /\ Of(s) = Of(t)}
               F(s) == IF s \in W THEN "respond"
                       ELSE IF s = t THEN IF t[2] = "refresh" THEN "idle" ELSE "respond"
                       ELSE IF s = Refresh(t[1]) /\ outcome[t].kind = "cache" /\ outcome[t].stale
                            THEN "waiting"
                       ELSE at[s]
    <3>1. at' = [s \in Tasks |-> F(s)]
      BY <1>13 DEF Complete
    <3>2. \A s : F(s) \in {"respond", "idle", "waiting", at[s]}
      <4> HIDE DEF W
      <4> QED
        OBVIOUS
    <3> HIDE DEF F
    <3> QED
      BY <3>1, <3>2
  <2>3. at' \in [Tasks -> Phases]
    BY <1>0, <2>2 DEF TypeOK, Phases
  <2> QED
    BY <1>0, <2>1, <2>3 DEF TypeOK, Shaped
<1>14. CASE Tick
  BY <1>0, <1>14 DEF Tick, TypeOK, Shaped, flight
<1>15. CASE UNCHANGED vars
  BY <1>0, <1>15 DEF vars, flight, TypeOK, Shaped
<1> QED
  BY <1>1, <1>2, <1>3, <1>4, <1>5, <1>6, <1>8, <1>9, <1>10, <1>11, <1>12, <1>13, <1>14, <1>15
     DEF Next, FlightStep

-----------------------------------------------------------------------------
(* The steps of a request.                                                 *)

LEMMA BeginInv == ASSUME IInv, NEW r \in Requests, Begin(r), TypeOK', Shaped' PROVE IInv'
<1> USE TaskNames, Kinds
<1> DEFINE t == Search(r)
<1>1. PICK a \in Asks :
        LET refused == a.pin # NoPin /\ ~(a.pin \subseteq Engines) IN
        /\ ask' = [ask EXCEPT ![r] = a]
        /\ Go(t, IF refused THEN "idle" ELSE "lookup")
        /\ Conclude(t, IF refused THEN Error("unknown engines") ELSE Nothing)
        /\ logged' = [logged EXCEPT ![r] = IF refused /\ RecordHistory THEN <<"error">> ELSE <<>>]
  BY DEF Begin
<1>2. /\ at[t] = "idle" /\ at[Refresh(r)] = "idle"
      /\ events' = [events EXCEPT ![r] = <<>>] /\ UNCHANGED <<rows, pages>>
  BY DEF Begin
<1>3. RowsTold'
  BY <1>2 DEF IInv, RowsTold
<1>4. /\ outcome'[t] \in {Error("unknown engines"), Nothing} /\ at'[t] \in {"idle", "lookup"}
      /\ \A s \in Tasks : s # t => outcome'[s] = outcome[s] /\ at'[s] = at[s]
      /\ \A q \in Requests : q # r => ask'[q] = ask[q] /\ events'[q] = events[q] /\ logged'[q] = logged[q]
      /\ events'[r] = <<>>
  <2>1. /\ DOMAIN outcome = Tasks /\ DOMAIN at = Tasks /\ DOMAIN ask = Requests
        /\ DOMAIN events = Requests /\ DOMAIN logged = Requests
    BY DEF IInv, TypeOK, Shaped
  <2>2. outcome'[t] \in {Error("unknown engines"), Nothing} /\ at'[t] \in {"idle", "lookup"}
    BY <1>1, <2>1 DEF Go, Conclude
  <2>3. \A s \in Tasks : s # t => outcome'[s] = outcome[s] /\ at'[s] = at[s]
    BY <1>1, <2>1 DEF Go, Conclude
  <2>4. \A q \in Requests : q # r => ask'[q] = ask[q] /\ logged'[q] = logged[q]
    <3>1. PICK l : logged' = [logged EXCEPT ![r] = l]
      BY <1>1
    <3>2. ask' = [ask EXCEPT ![r] = a]
      BY <1>1
    <3> QED
      BY <2>1, <3>1, <3>2
  <2>5. events'[r] = <<>> /\ \A q \in Requests : q # r => events'[q] = events[q]
    BY <1>2, <2>1
  <2> QED
    BY <2>2, <2>3, <2>4, <2>5
<1>5. ASSUME NEW s \in Tasks PROVE TaskTold(s)'
  <2>1. CASE s = t
    <3>1. at'[s] # "complete"
      BY <1>4, <2>1
    <3>2. outcome'[s] = Error("unknown engines") \/ outcome'[s] = Nothing
      BY <1>4, <2>1
    <3>3. outcome'[s].kind \notin {"cache", "network"}
      BY <3>2
    <3> QED
      BY <3>1, <3>3 DEF TaskTold
  <2>2. CASE s = Refresh(r)
    BY <1>2, <1>4, <2>2 DEF TaskTold
  <2>3. CASE s # t /\ s # Refresh(r)
    <3>1. s[1] # r /\ s[1] \in Requests
      BY <2>3
    <3> QED
      BY <1>4, <2>3, <3>1, TaskStays DEF IInv
  <2> QED
    BY <2>1, <2>2, <2>3
<1>6. StreamTold(r)'
  <2>1. /\ outcome'[t] = Nothing \/ at'[t] = "idle"
        /\ IsSeq(<<>>)
    BY <1>1, <1>4, NoFrame DEF IInv, TypeOK, Shaped, Go, Conclude
  <2> QED
    BY <1>4, <2>1 DEF StreamTold, Unsent
<1>7. LogTold(r)'
  <2> DEFINE refused == a.pin # NoPin /\ ~(a.pin \subseteq Engines)
  <2>1. CASE refused
    <3>1. outcome'[t].kind = "error" /\ at'[t] = "idle" /\ (RecordHistory => logged'[r] = <<"error">>)
      BY <1>1, <2>1 DEF IInv, TypeOK, Shaped, Go, Conclude
    <3> QED
      BY <3>1 DEF LogTold
  <2>2. CASE ~ refused
    <3>1. at'[t] = "lookup" /\ logged'[r] = <<>>
      BY <1>1, <2>2 DEF IInv, TypeOK, Shaped, Go, Conclude
    <3> QED
      BY <3>1 DEF LogTold
  <2> QED
    BY <2>1, <2>2
<1>8. ASSUME NEW q \in Requests, q # r PROVE StreamTold(q)' /\ LogTold(q)'
  <2>1. Search(q) \in Tasks /\ Search(q) # t
    BY <1>8
  <2>2. UNCHANGED <<at[Search(q)], outcome[Search(q)], pages[Search(q)], events[q], logged[q]>>
    BY <1>2, <1>4, <1>8, <2>1
  <2>3. StreamTold(q) /\ LogTold(q)
    BY DEF IInv
  <2> QED
    BY <2>2, <2>3, StreamStays
<1> QED
  BY <1>3, <1>5, <1>6, <1>7, <1>8 DEF IInv

\* A serve from the first tier, fresh or stale.
LEMMA LookupInv ==
  ASSUME IInv, NEW r \in Requests, Lookup(r) \/ StaleLookup(r), TypeOK', Shaped' PROVE IInv'
<1> USE TaskNames, Kinds
<1> DEFINE t == Search(r)
           row == rows[ask[r]]
<1>1. /\ at[t] \in {"lookup", "missed"} /\ UNCHANGED <<rows, ask, pages, events, logged>>
  BY DEF Lookup, StaleLookup
<1>2. CASE UNCHANGED outcome /\ \E to \in {"missed", "seeking"} : Go(t, to)
  BY <1>1, <1>2, OnTheWay DEF Unsent
<1>3. CASE /\ row # None /\ Go(t, "hit")
           /\ \E stale \in BOOLEAN : Conclude(t, Served(row, 1, stale))
  <2>1. PICK stale \in BOOLEAN : Conclude(t, Served(row, 1, stale))
    BY <1>3
  <2>2. /\ outcome'[t] = Served(row, 1, stale) /\ at'[t] = "hit"
        /\ \A s \in Tasks : s # t => outcome'[s] = outcome[s] /\ at'[s] = at[s]
    BY <1>3, <2>1 DEF IInv, TypeOK, Shaped, Go, Conclude
  <2>3. ask[r] \in Asks /\ row.asked = ask[r] /\ row.ok \subseteq Engines
    BY <1>3 DEF IInv, TypeOK, RowsTold
  <2>4. TaskTold(t)'
    BY <1>1, <2>2, <2>3 DEF TaskTold, AnswersFor, Of
  <2>5. ASSUME NEW s \in Tasks, s # t PROVE TaskTold(s)'
    BY <1>1, <2>2, <2>5, TaskStays DEF IInv
  <2>6. StreamTold(r)' /\ LogTold(r)'
    <3>1. events[r] = <<>> /\ IsSeq(events[r]) /\ logged[r] = <<>> /\ r \in Requests
      BY <1>1 DEF IInv, StreamTold, LogTold, Unsent
    <3>2. at'[t] = "hit" /\ outcome'[t].kind = "cache" /\ UNCHANGED <<events, logged>>
      BY <1>1, <2>2
    <3> QED
      BY <3>1, <3>2 DEF StreamTold, LogTold
  <2>7. ASSUME NEW q \in Requests, q # r PROVE StreamTold(q)' /\ LogTold(q)'
    BY <1>1, <2>2, <2>7, StreamStays DEF IInv
  <2>8. RowsTold'
    BY <1>1 DEF IInv, RowsTold
  <2> QED
    BY <2>4, <2>5, <2>6, <2>7, <2>8 DEF IInv
<1> QED
  BY <1>2, <1>3 DEF Lookup, StaleLookup, Fresh, WithinGrace

LEMMA HitInv == ASSUME IInv, NEW r \in Requests, Hit(r), TypeOK', Shaped' PROVE IInv'
<1> USE TaskNames, Kinds
<1> DEFINE t == Search(r)
           o == outcome[t]
<1>1. /\ at[t] = "hit" /\ Send(r, IF r \in Streams THEN Emit(o) ELSE <<>>) /\ Log(r, "cache")
      /\ at' = [at EXCEPT ![t] = "idle", ![Refresh(r)] = IF o.stale THEN "waiting" ELSE @]
      /\ UNCHANGED <<rows, ask, pages, outcome>>
  BY DEF Hit, Streaming, flight
<1>2. /\ at'[t] = "idle" /\ at'[Refresh(r)] \in {"waiting", at[Refresh(r)]}
      /\ \A s \in Tasks : s # t /\ s # Refresh(r) => at'[s] = at[s]
      /\ \A q \in Requests : q # r => events'[q] = events[q] /\ logged'[q] = logged[q]
      /\ events'[r] = events[r] \o (IF r \in Streams THEN Emit(o) ELSE <<>>)
      /\ logged'[r] = IF RecordHistory THEN Append(logged[r], "cache") ELSE logged[r]
  BY <1>1 DEF IInv, TypeOK, Shaped, Send, Log
<1>3. /\ o.kind = "cache" /\ events[r] = <<>> /\ logged[r] = <<>> /\ o.row.ok \subseteq Engines
  BY <1>1 DEF IInv, StreamTold, LogTold, Unsent, TaskTold
<1>4. ASSUME NEW s \in Tasks PROVE TaskTold(s)'
  <2>1. at'[s] = "complete" => at[s] = "complete"
    <3>1. CASE s = t \/ s = Refresh(r)
      BY <1>2, <3>1
    <3>2. CASE s # t /\ s # Refresh(r)
      BY <1>2, <3>2
    <3> QED
      BY <3>1, <3>2
  <2> QED
    BY <1>1, <2>1 DEF IInv, TaskTold, Of
<1>5. StreamTold(r)'
  <2>1. CASE r \in Streams
    <3>1. IsSeq(Emit(o)) /\ EndsWith(Emit(o), Meta(o.results)) /\ events'[r] = Emit(o)
      BY <1>2, <1>3, <2>1, EmitEnds, NoFrame
    <3> QED
      BY <1>1, <1>2, <1>3, <2>1, <3>1 DEF StreamTold, Unsent
  <2>2. CASE r \notin Streams
    <3>1. events'[r] = <<>> /\ IsSeq(<<>>)
      BY <1>2, <1>3, <2>2, NoFrame
    <3> QED
      BY <1>1, <1>2, <1>3, <2>2, <3>1 DEF StreamTold, Unsent
  <2> QED
    BY <2>1, <2>2
<1>6. LogTold(r)'
  BY <1>1, <1>2, <1>3 DEF LogTold
<1>7. ASSUME NEW q \in Requests, q # r PROVE StreamTold(q)' /\ LogTold(q)'
  <2>1. Search(q) \in Tasks /\ Search(q) # t /\ Search(q) # Refresh(r)
    BY <1>7
  <2>2. UNCHANGED <<at[Search(q)], outcome[Search(q)], pages[Search(q)], events[q], logged[q]>>
    BY <1>1, <1>2, <1>7, <2>1
  <2>3. StreamTold(q) /\ LogTold(q)
    BY DEF IInv
  <2> QED
    BY <2>2, <2>3, StreamStays
<1>8. RowsTold'
  BY <1>1 DEF IInv, RowsTold
<1> QED
  BY <1>4, <1>5, <1>6, <1>7, <1>8 DEF IInv

LEMMA RespondInv == ASSUME IInv, NEW r \in Requests, Respond(r), TypeOK', Shaped' PROVE IInv'
<1> USE TaskNames, Kinds
<1> DEFINE t == Search(r)
           o == outcome[t]
           sent == IF r \notin Streams THEN <<>>
                   ELSE IF o.kind = "error" THEN <<[kind |-> "error"]>>
                   ELSE IF events[r] # <<>> THEN <<>> ELSE Emit(o)
<1>1. /\ at[t] = "respond" /\ Go(t, "idle") /\ Log(r, IF o.kind = "error" THEN "error" ELSE o.kind)
      /\ Send(r, sent) /\ UNCHANGED <<rows, ask, pages, outcome>>
  BY DEF Respond, Streaming, flight
<1>2. /\ at'[t] = "idle" /\ \A s \in Tasks : s # t => at'[s] = at[s]
      /\ \A q \in Requests : q # r => events'[q] = events[q] /\ logged'[q] = logged[q]
      /\ events'[r] = events[r] \o sent
      /\ logged'[r] = IF RecordHistory THEN Append(logged[r], o.kind) ELSE logged[r]
  BY <1>1 DEF IInv, TypeOK, Shaped, Send, Log, Go
<1>3. /\ o.kind \in {"cache", "network", "error"} /\ logged[r] = <<>> /\ IsSeq(events[r])
      /\ r \notin Streams => events[r] = <<>>
      /\ o.kind # "error" => o.row.ok \subseteq Engines
      /\ events[r] = <<>> \/ Concluded(r)
  BY <1>1 DEF IInv, StreamTold, LogTold, TaskTold
<1>4. ASSUME NEW s \in Tasks PROVE TaskTold(s)'
  BY <1>1, <1>2 DEF IInv, TaskTold, Of
<1>5. StreamTold(r)'
  <2>1. IsSeq(events'[r]) /\ (r \notin Streams => events'[r] = <<>>)
        /\ (r \in Streams => IF o.kind = "error" THEN events'[r] = <<[kind |-> "error"]>>
                             ELSE EndsWith(events'[r], Meta(o.results)))
    <3>1. CASE r \notin Streams
      BY <1>2, <1>3, <3>1, NoFrame
    <3>2. CASE r \in Streams /\ o.kind = "error"
      <4>1. events[r] = <<>>
        BY <1>3, <3>2 DEF Concluded
      <4>2. IsSeq(<<[kind |-> "error"]>>)
        BY OneFrame
      <4> QED
        BY <1>2, <3>2, <4>1, <4>2, NoFrame
    <3>3. CASE r \in Streams /\ o.kind # "error" /\ events[r] # <<>>
      <4>1. EndsWith(events[r], Meta(o.results)) /\ events'[r] = events[r]
        BY <1>2, <1>3, <3>3, NoFrame DEF Concluded
      <4> QED
        BY <1>3, <3>3, <4>1
    <3>4. CASE r \in Streams /\ o.kind # "error" /\ events[r] = <<>>
      <4>1. IsSeq(Emit(o)) /\ EndsWith(Emit(o), Meta(o.results))
        BY <1>3, <3>4, EmitEnds
      <4>2. events'[r] = Emit(o)
        BY <1>2, <3>4, <4>1, NoFrame
      <4> QED
        BY <3>4, <4>1, <4>2
    <3> QED
      BY <3>1, <3>2, <3>3, <3>4
  <2> HIDE DEF sent
  <2> QED
    BY <1>1, <1>2, <2>1 DEF StreamTold, Unsent
<1>6. LogTold(r)'
  BY <1>1, <1>2, <1>3 DEF LogTold
<1>7. ASSUME NEW q \in Requests, q # r PROVE StreamTold(q)' /\ LogTold(q)'
  <2>1. Search(q) \in Tasks /\ Search(q) # t /\ Search(q) # Refresh(r)
    BY <1>7
  <2>2. UNCHANGED <<at[Search(q)], outcome[Search(q)], pages[Search(q)], events[q], logged[q]>>
    BY <1>1, <1>2, <1>7, <2>1
  <2>3. StreamTold(q) /\ LogTold(q)
    BY DEF IInv
  <2> QED
    BY <2>2, <2>3, StreamStays
<1>8. RowsTold'
  BY <1>1 DEF IInv, RowsTold
<1> QED
  BY <1>4, <1>5, <1>6, <1>7, <1>8 DEF IInv

-----------------------------------------------------------------------------
(* The steps of a flight.                                                  *)

\* A flight is served from a row.
LEMMA ServeInv ==
  ASSUME IInv, NEW t \in Tasks, NEW o, TypeOK', Shaped', at[t] \in Unsent,
         o.kind = "cache", AnswersFor(Of(t), o), o.row.ok \subseteq Engines,
         Conclude(t, o), Send(t[1], IF Streaming(t) THEN Emit(o) ELSE <<>>),
         Go(t, "complete"), UNCHANGED <<rows, ask, pages, logged>>
  PROVE  IInv'
<1> USE TaskNames
<1> DEFINE r == t[1]
           sent == IF Streaming(t) THEN Emit(o) ELSE <<>>
<1>1. /\ at'[t] = "complete" /\ outcome'[t] = o
      /\ \A s \in Tasks : s # t => outcome'[s] = outcome[s] /\ at'[s] = at[s]
      /\ \A q \in Requests : q # r => events'[q] = events[q]
      /\ events'[r] = events[r] \o sent
  BY DEF IInv, TypeOK, Shaped, Go, Conclude, Send
<1>2. TaskTold(t)'
  BY <1>1 DEF TaskTold, Of
<1>3. ASSUME NEW s \in Tasks, s # t PROVE TaskTold(s)'
  BY <1>1, <1>3 DEF IInv, TaskTold, Of
<1>4. ASSUME NEW q \in Requests, q # r \/ t = Refresh(r) PROVE StreamTold(q)' /\ LogTold(q)'
  <2>1. Search(q) \in Tasks /\ Search(q) # t
    BY <1>4
  <2>2. StreamTold(q) /\ LogTold(q) /\ IsSeq(events[q])
    BY DEF IInv, StreamTold
  <2>3. events'[q] = events[q]
    <3>1. CASE q = r
      <4>1. t[2] = "refresh"
        BY <1>4, <3>1
      <4>2. sent = <<>>
        BY <4>1 DEF Streaming
      <4> HIDE DEF sent
      <4>3. events'[q] = events[q] \o <<>>
        BY <1>1, <3>1, <4>2
      <4> QED
        BY <2>2, <4>3, NoFrame
    <3> QED
      BY <1>1, <3>1
  <2>4. UNCHANGED <<at[Search(q)], outcome[Search(q)], pages[Search(q)], events[q], logged[q]>>
    BY <1>1, <2>1, <2>3
  <2> QED
    BY <2>2, <2>4, StreamStays
<1>5. CASE t = Search(r)
  <2>1. r \in Requests /\ events[r] = <<>> /\ logged[r] = <<>>
    BY <1>5 DEF IInv, StreamTold, LogTold, Unsent
  <2>2. IsSeq(Emit(o)) /\ EndsWith(Emit(o), Meta(o.results)) /\ IsSeq(<<>>)
    BY EmitEnds, NoFrame
  <2>3. events'[r] = IF r \in Streams THEN Emit(o) ELSE <<>>
    BY <1>1, <1>5, <2>1, <2>2, NoFrame DEF Streaming
  <2>4. StreamTold(r)' /\ LogTold(r)'
    BY <1>1, <1>5, <2>1, <2>2, <2>3 DEF StreamTold, LogTold, Unsent, Concluded
  <2>5. RowsTold'
    BY DEF IInv, RowsTold
  <2> QED
    BY <1>2, <1>3, <1>4, <2>4, <2>5 DEF IInv
<1>6. CASE t = Refresh(r)
  <2>1. RowsTold'
    BY DEF IInv, RowsTold
  <2> QED
    BY <1>2, <1>3, <1>4, <1>6, <2>1 DEF IInv
<1> QED
  BY <1>5, <1>6

\* A flight ends in an error before it has fetched anything.
LEMMA FailInv ==
  ASSUME IInv, NEW t \in Tasks, NEW e, TypeOK', Shaped', at[t] \in Unsent,
         Conclude(t, Error(e)), Go(t, "complete"), UNCHANGED <<rows, ask, pages, events, logged>>
  PROVE  IInv'
<1> USE TaskNames, Kinds
<1>1. /\ at'[t] = "complete" /\ outcome'[t].kind = "error"
      /\ \A s \in Tasks : s # t => outcome'[s] = outcome[s] /\ at'[s] = at[s]
  BY DEF IInv, TypeOK, Shaped, Go, Conclude
<1>2. ASSUME NEW s \in Tasks PROVE TaskTold(s)'
  BY <1>1 DEF IInv, TaskTold, Of
<1>3. ASSUME NEW q \in Requests PROVE StreamTold(q)' /\ LogTold(q)'
  <2>1. StreamTold(q) /\ LogTold(q)
    BY DEF IInv
  <2>2. CASE Search(q) = t
    BY <1>1, <2>1, <2>2 DEF StreamTold, LogTold, Unsent, Concluded
  <2>3. CASE Search(q) # t
    BY <1>1, <2>1, <2>3, StreamStays
  <2> QED
    BY <2>2, <2>3
<1>4. RowsTold'
  BY DEF IInv, RowsTold
<1> QED
  BY <1>2, <1>3, <1>4 DEF IInv

\* A fan-out begins.
LEMMA StartInv ==
  ASSUME IInv, NEW t \in Tasks, TypeOK', Shaped', StartFetch(t),
         t[2] = "search" => at[t] = "queued",
         UNCHANGED <<rows, ask, outcome, events, logged>>
  PROVE  IInv'
<1> USE TaskNames
<1>1. /\ at'[t] = "fetching"
      /\ \A s \in Tasks : s # t => pages'[s] = pages[s] /\ at'[s] = at[s]
  BY DEF IInv, TypeOK, Shaped, Go, StartFetch
<1>2. ASSUME NEW s \in Tasks PROVE TaskTold(s)'
  BY <1>1 DEF IInv, TaskTold, Of
<1>3. ASSUME NEW q \in Requests PROVE StreamTold(q)' /\ LogTold(q)'
  <2>1. StreamTold(q) /\ LogTold(q)
    BY DEF IInv
  <2>2. CASE Search(q) = t
    <3>1. Batches(<<>>)
      BY NoFrame DEF Batches
    <3>2. t[2] = "search"
      BY <2>2
    <3>3. events[q] = <<>> /\ logged[q] = <<>>
      BY <2>1, <2>2, <3>2 DEF StreamTold, LogTold, Unsent
    <3> QED
      BY <1>1, <2>1, <2>2, <3>1, <3>3 DEF StreamTold, LogTold, Unsent
  <2>3. CASE Search(q) # t
    BY <1>1, <2>1, <2>3, StreamStays
  <2> QED
    BY <2>2, <2>3
<1>4. RowsTold'
  BY DEF IInv, RowsTold
<1> QED
  BY <1>2, <1>3, <1>4 DEF IInv

LEMMA WaitInv ==
  ASSUME IInv, TypeOK', Shaped', NEW r \in Requests, Enter(r) \/ RefreshWaits(r) \/ RefreshEnters(r)
  PROVE  IInv'
<1> USE TaskNames
<1>1. CASE Enter(r)
  <2>1. PICK to \in {"lexical", "following"} : Go(Search(r), to)
    BY <1>1 DEF Enter
  <2>2. at[Search(r)] = "seeking" /\ UNCHANGED <<rows, ask, pages, outcome, events, logged>>
    BY <1>1 DEF Enter, flight
  <2> QED
    BY <2>1, <2>2, OnTheWay DEF Unsent
<1>2. CASE RefreshWaits(r) \/ (RefreshEnters(r) /\ slot[ask[r]] # None)
  <2>1. PICK to \in {"entering", "idle"} : Go(Refresh(r), to)
    BY <1>2 DEF RefreshWaits, RefreshEnters
  <2>2. UNCHANGED <<rows, ask, pages, outcome, events, logged>>
    BY <1>2 DEF RefreshWaits, RefreshEnters, flight
  <2> QED
    BY <2>1, <2>2, OnTheWay
<1>3. CASE RefreshEnters(r) /\ slot[ask[r]] = None
  <2>1. StartFetch(Refresh(r)) /\ UNCHANGED <<rows, ask, outcome, events, logged>>
    BY <1>3 DEF RefreshEnters
  <2> QED
    BY <2>1, StartInv
<1> QED
  BY <1>1, <1>2, <1>3

LEMMA FlightInv ==
  ASSUME IInv, TypeOK', Shaped', NEW t \in Tasks,
         LexicalHit(t) \/ LexicalMiss(t) \/ Admitted(t) \/ NotAdmitted(t) \/ Overflow(t)
  PROVE  IInv'
<1> USE TaskNames, Kinds
<1>0. Of(t) \in Asks
  BY DEF IInv, TypeOK, Of
<1>1. CASE LexicalHit(t)
  <2>1. PICK b \in Asks :
          /\ Passes(Of(t), b)
          /\ Conclude(t, Served(rows[b], 2, FALSE))
          /\ Send(t[1], IF Streaming(t) THEN Emit(Served(rows[b], 2, FALSE)) ELSE <<>>)
    BY <1>1 DEF LexicalHit
  <2>2. at[t] \in Unsent /\ Go(t, "complete") /\ UNCHANGED <<rows, ask, pages, logged>>
    BY <1>1 DEF LexicalHit, Unsent
  <2>3. rows[b].asked = b /\ rows[b].ok \subseteq Engines
    BY <2>1 DEF IInv, RowsTold, Passes, Fresh
  <2> DEFINE o == Served(rows[b], 2, FALSE)
  <2>4. o.kind = "cache" /\ o.row = rows[b]
    BY DEF Served
  <2> HIDE DEF o
  <2>5. AnswersFor(Of(t), o)
    BY <2>1, <2>3, <2>4 DEF AnswersFor, Passes
  <2> QED
    BY <2>1, <2>2, <2>3, <2>4, <2>5, ServeInv DEF o
<1>2. CASE LexicalMiss(t)
  <2>1. at[t] = "lexical" /\ UNCHANGED <<rows, ask, pages, events, logged>>
    BY <1>2 DEF LexicalMiss
  <2>2. CASE Runnable(Of(t)) = {}
    BY <1>2, <2>1, <2>2, FailInv DEF LexicalMiss, Unsent
  <2>3. CASE Runnable(Of(t)) # {}
    <3>1. Go(t, "queued") /\ UNCHANGED outcome
      BY <1>2, <2>3 DEF LexicalMiss
    <3> QED
      BY <2>1, <3>1, OnTheWay DEF Unsent
  <2> QED
    BY <2>2, <2>3
<1>3. CASE Admitted(t)
  BY <1>3, StartInv DEF Admitted
<1>4. CASE NotAdmitted(t)
  <2>1. at[t] = "queued" /\ Go(t, "overflow") /\ UNCHANGED <<rows, ask, pages, outcome, events, logged>>
    BY <1>4 DEF NotAdmitted, flight
  <2> QED
    BY <2>1, OnTheWay DEF Unsent
<1>5. CASE Overflow(t)
  <2> DEFINE o == Served(rows[Of(t)], 1, rows[Of(t)].expires <= now)
  <2>1. at[t] \in Unsent /\ Go(t, "complete") /\ UNCHANGED <<rows, ask, pages, logged>>
    BY <1>5 DEF Overflow, Unsent
  <2>2. CASE /\ rows[Of(t)] # None
             /\ Conclude(t, o) /\ Send(t[1], IF Streaming(t) THEN Emit(o) ELSE <<>>)
    <3>1. o.kind = "cache" /\ AnswersFor(Of(t), o) /\ o.row.ok \subseteq Engines
      BY <1>0, <2>2 DEF IInv, RowsTold, AnswersFor
    <3> HIDE DEF o
    <3> QED
      BY <2>1, <2>2, <3>1, ServeInv
  <2>3. CASE Conclude(t, Error("rate limited")) /\ UNCHANGED events
    BY <2>1, <2>3, FailInv
  <2> QED
    BY <1>5, <2>2, <2>3 DEF Overflow
<1> QED
  BY <1>1, <1>2, <1>3, <1>4, <1>5

LEMMA ReportInv == ASSUME IInv, TypeOK', Shaped', NEW t \in Tasks, Report(t) PROVE IInv'
<1> USE TaskNames
<1> DEFINE r == t[1]
<1>1. /\ at[t] = "fetching" /\ UNCHANGED <<rows, at, ask, outcome, logged>>
  BY DEF Report
<1>2. PICK idx \in Runnable(Of(t)) \ DOMAIN pages[t] :
        \/ \E page \in Pages[idx] :
             /\ pages' = [pages EXCEPT ![t] = With(@, idx, page)]
             /\ Send(r, IF Streaming(t) /\ page # <<>> THEN <<Batch(idx, page)>> ELSE <<>>)
        \/ \E silence \in Silent :
             pages' = [pages EXCEPT ![t] = With(@, idx, silence)] /\ UNCHANGED events
  BY DEF Report
<1>3. \A s \in Tasks : s # t => pages'[s] = pages[s]
  BY <1>2 DEF IInv, Shaped
<1>4. ASSUME NEW s \in Tasks PROVE TaskTold(s)'
  BY <1>1 DEF IInv, TaskTold, Of
<1>5. r \in Requests /\ StreamTold(r) /\ LogTold(r) /\ IsSeq(events[r])
  BY DEF IInv, StreamTold
<1>6. \E sent : /\ \A q \in Requests : events'[q] = IF q = r THEN events[r] \o sent ELSE events[q]
                /\ sent = <<>> \/ (t[2] = "search" /\ r \in Streams /\ \E page \in Pages[idx] :
                                    sent = <<Batch(idx, page)>> /\ pages'[t] = With(pages[t], idx, page))
                /\ \E page : pages'[t] = With(pages[t], idx, page)
  <2>1. CASE \E silence \in Silent :
               pages' = [pages EXCEPT ![t] = With(@, idx, silence)] /\ UNCHANGED events
    <3>1. events[r] \o <<>> = events[r]
      BY <1>5, NoFrame
    <3>2. \E page : pages'[t] = With(pages[t], idx, page)
      BY <2>1 DEF IInv, Shaped
    <3>3. \A q \in Requests : events'[q] = IF q = r THEN events[r] \o <<>> ELSE events[q]
      BY <2>1, <3>1
    <3> WITNESS <<>>
    <3> QED
      BY <3>2, <3>3
  <2>2. ASSUME NEW page \in Pages[idx],
               pages' = [pages EXCEPT ![t] = With(@, idx, page)],
               Send(r, IF Streaming(t) /\ page # <<>> THEN <<Batch(idx, page)>> ELSE <<>>)
        PROVE  \E sent : /\ \A q \in Requests : events'[q] = IF q = r THEN events[r] \o sent ELSE events[q]
                         /\ sent = <<>> \/ (t[2] = "search" /\ r \in Streams /\ \E p \in Pages[idx] :
                                             sent = <<Batch(idx, p)>> /\ pages'[t] = With(pages[t], idx, p))
                         /\ \E p : pages'[t] = With(pages[t], idx, p)
    <3> DEFINE sent == IF Streaming(t) /\ page # <<>> THEN <<Batch(idx, page)>> ELSE <<>>
    <3>1. pages'[t] = With(pages[t], idx, page)
      BY <2>2 DEF IInv, Shaped
    <3>2. sent = <<>> \/ (t[2] = "search" /\ r \in Streams /\ sent = <<Batch(idx, page)>>)
      <4>1. CASE Streaming(t) /\ page # <<>>
        BY <4>1 DEF Streaming
      <4>2. CASE ~ (Streaming(t) /\ page # <<>>)
        BY <4>2 DEF Streaming
      <4> QED
        BY <4>1, <4>2
    <3>3. events' = [events EXCEPT ![r] = @ \o sent]
      BY <2>2 DEF Send
    <3> HIDE DEF sent
    <3>4. \A q \in Requests : events'[q] = IF q = r THEN events[r] \o sent ELSE events[q]
      BY <3>3 DEF IInv, Shaped
    <3> QED
      BY <3>1, <3>2, <3>4
  <2> QED
    BY <1>2, <2>1, <2>2
<1>7. PICK sent : /\ \A q \in Requests : events'[q] = IF q = r THEN events[r] \o sent ELSE events[q]
                  /\ sent = <<>> \/ (t[2] = "search" /\ r \in Streams /\ \E page \in Pages[idx] :
                                      sent = <<Batch(idx, page)>> /\ pages'[t] = With(pages[t], idx, page))
                  /\ \E page : pages'[t] = With(pages[t], idx, page)
  BY <1>6
<1>8. ASSUME NEW q \in Requests, q # r \/ t # Search(r) PROVE StreamTold(q)' /\ LogTold(q)'
  <2>1. Search(q) \in Tasks /\ Search(q) # t /\ StreamTold(q) /\ LogTold(q) /\ IsSeq(events[q])
    BY <1>8 DEF IInv, StreamTold
  <2>2. events'[q] = events[q]
    <3>1. CASE q = r
      <4>1. sent = <<>>
        BY <1>7, <1>8, <3>1
      <4>2. events'[q] = events[q] \o <<>>
        BY <1>7, <3>1, <4>1
      <4> QED
        BY <2>1, <4>2, NoFrame
    <3> QED
      BY <1>7, <3>1
  <2>3. UNCHANGED <<at[Search(q)], outcome[Search(q)], pages[Search(q)], events[q], logged[q]>>
    BY <1>1, <1>3, <2>1, <2>2
  <2> QED
    BY <2>1, <2>3, StreamStays
<1>9. ASSUME t = Search(r) PROVE StreamTold(r)' /\ LogTold(r)'
  <2>1. Batches(events[r]) /\ (events[r] # <<>> => Answered(t) # {}) /\ at'[t] = "fetching"
        /\ logged'[r] = <<>> /\ (r \notin Streams => events[r] = <<>>)
    BY <1>1, <1>5, <1>9 DEF StreamTold, LogTold
  <2>2. IsSeq(sent) /\ Batches(sent)
    <3>1. CASE sent = <<>>
      BY <3>1, NoFrame DEF Batches
    <3>2. CASE \E page \in Pages[idx] : sent = <<Batch(idx, page)>>
      BY <3>2, OneFrame DEF Batches, Batch
    <3> QED
      BY <1>7, <3>1, <3>2
  <2>3. IsSeq(events'[r]) /\ Batches(events'[r])
    BY <1>5, <1>7, <2>1, <2>2, MoreBatches
  <2>4. Answered(t) \subseteq Answered(t)'
    BY <1>2, <1>7 DEF Answered, With
  <2>5. sent # <<>> => Answered(t)' # {}
    <3>1. ASSUME NEW page \in Pages[idx], pages'[t] = With(pages[t], idx, page)
          PROVE  Answered(t)' # {}
      <4>1. page \notin Silent
        BY PipelineAssumption, <1>2 DEF Runnable, Silent
      <4>2. idx \in DOMAIN pages'[t] /\ pages'[t][idx] = page
        BY <3>1 DEF With
      <4>3. idx \in Answered(t)'
        BY <4>1, <4>2 DEF Answered, Silent
      <4> QED
        BY <4>3
    <3> QED
      BY <1>7, <3>1
  <2>6. events'[r] # <<>> => Answered(t)' # {}
    <3>1. CASE sent = <<>>
      <4>1. events'[r] = events[r]
        BY <1>5, <1>7, <3>1, NoFrame
      <4> QED
        BY <2>1, <2>4, <4>1
    <3> QED
      BY <2>5, <3>1
  <2>7. r \notin Streams => events'[r] = <<>>
    <3>1. r \notin Streams => events'[r] = <<>> \o <<>>
      BY <1>5, <1>7, <2>1
    <3>2. <<>> \o <<>> = <<>>
      BY NoFrame
    <3> QED
      BY <3>1, <3>2
  <2>8. Answered(Search(r))' = Answered(t)'
    BY <1>9 DEF Answered
  <2> QED
    BY <1>9, <2>1, <2>3, <2>6, <2>7, <2>8 DEF StreamTold, LogTold, Unsent
<1>10. RowsTold'
  BY <1>1 DEF IInv, RowsTold
<1>11. ASSUME NEW q \in Requests PROVE StreamTold(q)' /\ LogTold(q)'
  BY <1>8, <1>9
<1> QED
  BY <1>4, <1>10, <1>11 DEF IInv

LEMMA FinishInv == ASSUME IInv, TypeOK', Shaped', NEW t \in Tasks, FinishFetch(t) PROVE IInv'
<1> USE TaskNames, Kinds
<1> DEFINE r   == t[1]
           ok  == {idx \in Answered(t) : pages[t][idx] # <<>>}
           degraded == \E idx \in DOMAIN pages[t] : pages[t][idx] \in {Failed, <<>>}
           ttl == IF degraded /\ DegradedTTL < TTL THEN DegradedTTL ELSE TTL
           row == [asked |-> Of(t), results |-> Finish(acc[t]), ok |-> ok,
                   pages |-> [idx \in Engines |-> IF idx \in ok THEN pages[t][idx] ELSE <<>>],
                   expires |-> now + ttl]
           o   == [kind |-> "network", row |-> row, results |-> Finish(acc[t])]
           sent == IF Streaming(t) THEN <<Meta(Finish(acc[t]))>> ELSE <<>>
<1>1. /\ at[t] = "fetching" /\ DOMAIN pages[t] = Runnable(Of(t)) /\ Go(t, "complete")
      /\ UNCHANGED <<ask, logged>> /\ pages' = [pages EXCEPT ![t] = NoReports]
  BY DEF FinishFetch
<1>2. Of(t) \in Asks /\ row.asked = Of(t) /\ row.ok \subseteq Engines
  BY <1>1 DEF IInv, TypeOK, Of, Answered, Runnable
<1>3. o.kind = "network" /\ o.row = row /\ o.results = Finish(acc[t])
  OBVIOUS
<1>4. \/ /\ Answered(t) = {} /\ UNCHANGED <<rows, events>>
         /\ \E e : Conclude(t, Error(e))
      \/ /\ Answered(t) # {} /\ Conclude(t, o) /\ Send(r, sent)
         /\ UNCHANGED rows \/ rows' = [rows EXCEPT ![Of(t)] = row]
  BY DEF FinishFetch
<1> HIDE DEF o, row, ok, degraded, ttl
<1>5. RowsTold'
  BY <1>2, <1>4 DEF IInv, RowsTold, Shaped
<1>6. /\ at'[t] = "complete" /\ outcome'[t].kind \in {"error", "network"}
      /\ outcome'[t].kind = "network" => outcome'[t] = o
      /\ \A s \in Tasks : s # t => outcome'[s] = outcome[s] /\ at'[s] = at[s] /\ pages'[s] = pages[s]
      /\ \A q \in Requests : q # r => events'[q] = events[q]
  <2>1. at'[t] = "complete" /\ \A s \in Tasks : s # t => at'[s] = at[s] /\ pages'[s] = pages[s]
    BY <1>1 DEF IInv, TypeOK, Shaped, Go
  <2>2. \A q \in Requests : q # r => events'[q] = events[q]
    <3>1. UNCHANGED events \/ events' = [events EXCEPT ![r] = @ \o sent]
      BY <1>4 DEF Send
    <3>2. DOMAIN events = Requests
      BY DEF IInv, Shaped
    <3> HIDE DEF sent
    <3> QED
      BY <3>1, <3>2
  <2>3. PICK c : Conclude(t, c) /\ (c = o \/ \E e : c = Error(e))
    BY <1>4
  <2>4. outcome'[t] = c /\ \A s \in Tasks : s # t => outcome'[s] = outcome[s]
    BY <2>3 DEF IInv, Shaped, Conclude
  <2> QED
    BY <1>3, <2>1, <2>2, <2>3, <2>4
<1>7. ASSUME NEW s \in Tasks PROVE TaskTold(s)'
  <2>1. CASE s = t
    BY <1>1, <1>2, <1>3, <1>6, <2>1 DEF TaskTold, AnswersFor, Of
  <2>2. CASE s # t
    BY <1>1, <1>6, <2>2 DEF IInv, TaskTold, Of
  <2> QED
    BY <2>1, <2>2
<1>8. r \in Requests /\ StreamTold(r) /\ LogTold(r) /\ IsSeq(events[r])
  BY DEF IInv, StreamTold
<1>9. ASSUME NEW q \in Requests, q # r \/ t # Search(r) PROVE StreamTold(q)' /\ LogTold(q)'
  <2>1. Search(q) \in Tasks /\ Search(q) # t /\ StreamTold(q) /\ LogTold(q)
    BY <1>9 DEF IInv
  <2>2. events'[q] = events[q]
    <3>1. CASE q = r
      <4>1. t[2] = "refresh"
        BY <1>9, <3>1
      <4>2. sent = <<>>
        BY <4>1 DEF Streaming
      <4> HIDE DEF sent
      <4>3. UNCHANGED events \/ events'[r] = events[r] \o <<>>
        BY <1>4, <1>8, <4>2 DEF Send, IInv, Shaped
      <4> QED
        BY <1>8, <3>1, <4>3, NoFrame
    <3> QED
      BY <1>6, <3>1
  <2>3. UNCHANGED <<at[Search(q)], outcome[Search(q)], pages[Search(q)], events[q], logged[q]>>
    BY <1>1, <1>6, <2>1, <2>2
  <2> QED
    BY <2>1, <2>3, StreamStays
<1>10. ASSUME t = Search(r) PROVE StreamTold(r)' /\ LogTold(r)'
  <2>1. /\ Batches(events[r]) /\ (events[r] # <<>> => Answered(t) # {})
        /\ logged'[r] = <<>> /\ (r \notin Streams => events[r] = <<>>)
    BY <1>1, <1>8, <1>10 DEF StreamTold, LogTold
  <2>2. CASE Answered(t) = {}
    <3>1. outcome'[t].kind = "error"
      BY <1>4, <2>2 DEF Conclude, IInv, Shaped
    <3>2. events'[r] = <<>>
      BY <1>4, <2>1, <2>2
    <3>3. Concluded(r)'
      BY <1>10, <3>1, <3>2 DEF Concluded
    <3>4. at'[Search(r)] = "complete" /\ IsSeq(events'[r])
      BY <1>6, <1>10, <3>2, NoFrame
    <3> QED
      BY <2>1, <3>2, <3>3, <3>4 DEF StreamTold, LogTold, Unsent
  <2>3. CASE Answered(t) # {}
    <3>1. outcome'[t] = o
      BY <1>4, <2>3 DEF Conclude, IInv, Shaped
    <3>2. sent = IF r \in Streams THEN <<Meta(o.results)>> ELSE <<>>
      BY <1>3, <1>10 DEF Streaming
    <3>3. events'[r] = events[r] \o sent
      <4>1. events' = [events EXCEPT ![r] = @ \o sent]
        BY <1>4, <2>3 DEF Send
      <4>2. DOMAIN events = Requests
        BY DEF IInv, Shaped
      <4> HIDE DEF sent
      <4> QED
        BY <4>1, <4>2
    <3> HIDE DEF sent
    <3>4. CASE r \in Streams
      <4>1. IsSeq(events'[r]) /\ EndsWith(events'[r], Meta(o.results))
        BY <1>8, <2>1, <3>2, <3>3, <3>4, BatchesThen
      <4> QED
        BY <1>3, <1>6, <1>10, <2>1, <3>1, <3>4, <4>1 DEF StreamTold, LogTold, Unsent, Concluded
    <3>5. CASE r \notin Streams
      <4>1. events'[r] = <<>> /\ IsSeq(<<>>)
        BY <2>1, <3>2, <3>3, <3>5, NoFrame
      <4> QED
        BY <1>3, <1>6, <1>10, <2>1, <3>1, <3>5, <4>1 DEF StreamTold, LogTold, Unsent, Concluded
    <3> QED
      BY <3>4, <3>5
  <2> QED
    BY <2>2, <2>3
<1>11. ASSUME NEW q \in Requests PROVE StreamTold(q)' /\ LogTold(q)'
  BY <1>9, <1>10
<1> QED
  BY <1>5, <1>7, <1>11 DEF IInv

LEMMA CompleteInv == ASSUME IInv, TypeOK', Shaped', NEW t \in Tasks, Complete(t) PROVE IInv'
<1> USE TaskNames, Kinds
<1> DEFINE o == outcome[t]
           W == {s \in Tasks : at[s] = "following" /\ slot[Of(t)] = t /\ Of(s) = Of(t)}
<1>1. /\ at[t] = "complete" /\ UNCHANGED <<rows, ask, pages, events, logged>>
      /\ outcome' = [s \in Tasks |-> IF s \in W THEN o
                                      ELSE IF s = t /\ t[2] = "refresh" THEN Nothing
                                      ELSE outcome[s]]
      /\ at' = [s \in Tasks |->
                  IF s \in W THEN "respond"
                  ELSE IF s = t THEN IF t[2] = "refresh" THEN "idle" ELSE "respond"
                  ELSE IF s = Refresh(t[1]) /\ o.kind = "cache" /\ o.stale THEN "waiting"
                  ELSE at[s]]
  BY DEF Complete
<1>2. t \notin W /\ W \subseteq Tasks /\ \A s \in W : at[s] = "following" /\ Of(s) = Of(t)
  BY <1>1
<1>3. /\ o.kind \in {"cache", "network", "error"}
      /\ o.kind # "error" => AnswersFor(Of(t), o) /\ o.row.ok \subseteq Engines
  BY <1>1 DEF IInv, TaskTold
<1> HIDE DEF o, W
<1>4. ASSUME NEW s \in Tasks
      PROVE  /\ s \in W => outcome'[s] = o /\ at'[s] = "respond"
             /\ s = t /\ t[2] = "search" => outcome'[s] = o /\ at'[s] = "respond"
             /\ s = t /\ t[2] = "refresh" => outcome'[s] = Nothing /\ at'[s] = "idle"
             /\ s # t /\ s \notin W => outcome'[s] = outcome[s] /\ at'[s] \in {"waiting", at[s]}
             /\ s # t /\ s \notin W /\ s[2] = "search" => at'[s] = at[s]
  <2>1. outcome'[s] = IF s \in W THEN o
                      ELSE IF s = t /\ t[2] = "refresh" THEN Nothing
                      ELSE outcome[s]
    BY <1>1
  <2>2. at'[s] = IF s \in W THEN "respond"
                 ELSE IF s = t THEN IF t[2] = "refresh" THEN "idle" ELSE "respond"
                 ELSE IF s = Refresh(t[1]) /\ o.kind = "cache" /\ o.stale THEN "waiting"
                 ELSE at[s]
    BY <1>1
  <2>3. CASE s \in W
    BY <1>2, <2>1, <2>2, <2>3
  <2>4. CASE s = t
    <3>1. outcome'[s] = (IF t[2] = "refresh" THEN Nothing ELSE o)
      BY <1>2, <2>1, <2>4 DEF o
    <3>2. at'[s] = IF t[2] = "refresh" THEN "idle" ELSE "respond"
      BY <1>2, <2>2, <2>4
    <3> QED
      BY <1>2, <2>4, <3>1, <3>2
  <2>5. CASE s # t /\ s \notin W
    <3>1. outcome'[s] = outcome[s]
      BY <2>1, <2>5
    <3>2. at'[s] \in {"waiting", at[s]} /\ (s # Refresh(t[1]) => at'[s] = at[s])
      BY <2>2, <2>5
    <3>3. s[2] = "search" => s # Refresh(t[1])
      BY Zenon
    <3> QED
      BY <2>5, <3>1, <3>2, <3>3
  <2> QED
    BY <2>3, <2>4, <2>5
<1>5. ASSUME NEW s \in Tasks PROVE TaskTold(s)'
  <2>1. CASE s \in W \/ (s = t /\ t[2] = "search")
    <3>1. outcome'[s] = o /\ at'[s] = "respond" /\ Of(s)' = Of(t)
      BY <1>1, <1>2, <1>4, <2>1 DEF Of
    <3> QED
      BY <1>3, <3>1 DEF TaskTold, AnswersFor
  <2>2. CASE s = t /\ t[2] = "refresh"
    BY <1>4, <2>2 DEF TaskTold
  <2>3. CASE s # t /\ s \notin W
    BY <1>1, <1>4, <2>3 DEF IInv, TaskTold, Of
  <2> QED
    BY <2>1, <2>2, <2>3
<1>6. ASSUME NEW q \in Requests PROVE StreamTold(q)' /\ LogTold(q)'
  <2> DEFINE s == Search(q)
  <2>1. s \in Tasks /\ s[2] = "search" /\ StreamTold(q) /\ LogTold(q)
    BY DEF IInv
  <2>2. CASE s \in W
    <3>1. at[s] = "following" /\ at'[s] = "respond" /\ outcome'[s] = o
      BY <1>2, <1>4, <2>1, <2>2
    <3>2. events[q] = <<>> /\ IsSeq(events[q]) /\ logged[q] = <<>>
      BY <2>1, <3>1 DEF StreamTold, LogTold, Unsent
    <3> QED
      BY <1>1, <1>3, <3>1, <3>2 DEF StreamTold, LogTold, Unsent
  <2>3. CASE s = t
    <3>1. at[s] = "complete" /\ at'[s] = "respond" /\ outcome'[s] = outcome[s] /\ outcome[s] = o
      BY <1>1, <1>4, <2>1, <2>3 DEF o
    <3>2. Concluded(q)' /\ IsSeq(events[q]) /\ logged[q] = <<>> /\ (q \notin Streams => events[q] = <<>>)
      BY <1>1, <2>1, <3>1 DEF StreamTold, LogTold, Concluded
    <3> QED
      BY <1>1, <1>3, <3>1, <3>2 DEF StreamTold, LogTold, Unsent
  <2>4. CASE s \notin W /\ s # t
    BY <1>1, <1>4, <2>1, <2>4, StreamStays
  <2> QED
    BY <2>2, <2>3, <2>4
<1>7. RowsTold'
  BY <1>1 DEF IInv, RowsTold
<1> QED
  BY <1>5, <1>6, <1>7 DEF IInv

LEMMA SameInv ==
  ASSUME IInv, TypeOK', Shaped',
         UNCHANGED <<rows, at, ask, pages, outcome, events, logged>>
  PROVE  IInv'
<1>1. \A t \in Tasks : TaskTold(t)'
  BY DEF IInv, TaskTold, Of
<1>2. ASSUME NEW r \in Requests PROVE StreamTold(r)' /\ LogTold(r)'
  BY StreamStays DEF IInv
<1>3. RowsTold'
  BY DEF IInv, RowsTold
<1> QED
  BY <1>1, <1>2, <1>3 DEF IInv

-----------------------------------------------------------------------------
(* The theorems.                                                           *)

LEMMA InitIInv == ASSUME Init PROVE IInv
<1> USE TaskNames, Kinds, PipelineAssumption
<1>1. TypeOK
  <2>1. (CHOOSE a \in Asks : TRUE) \in Asks
    OBVIOUS
  <2>2. ask \in [Requests -> Asks]
    BY <2>1 DEF Init
  <2>3. at \in [Tasks -> Phases] /\ logged \in [Requests -> Seq({"cache", "network", "error"})]
    BY DEF Init, Phases
  <2> QED
    BY <2>2, <2>3 DEF Init, TypeOK
<1>2. Shaped /\ RowsTold
  BY DEF Init, Shaped, RowsTold
<1>3. \A t \in Tasks : TaskTold(t)
  BY DEF Init, TaskTold
<1>4. ASSUME NEW r \in Requests PROVE StreamTold(r) /\ LogTold(r)
  <2>1. /\ at[Search(r)] = "idle" /\ outcome[Search(r)] = Nothing
        /\ events[r] = <<>> /\ logged[r] = <<>> /\ IsSeq(<<>>)
    BY NoFrame DEF Init
  <2> QED
    BY <2>1 DEF StreamTold, LogTold, Unsent
<1> QED
  BY <1>1, <1>2, <1>3, <1>4 DEF IInv

LEMMA NextIInv == ASSUME IInv, [Next]_vars PROVE IInv'
<1>1. TypeOK' /\ Shaped'
  BY NextTypeOK
<1>2. ASSUME NEW r \in Requests,
             \/ Begin(r) \/ Lookup(r) \/ StaleLookup(r) \/ Hit(r) \/ Enter(r) \/ Respond(r)
             \/ RefreshWaits(r) \/ RefreshEnters(r)
      PROVE  IInv'
  BY <1>1, <1>2, BeginInv, LookupInv, HitInv, RespondInv, WaitInv
<1>3. ASSUME NEW t \in Tasks, FlightStep(t) PROVE IInv'
  BY <1>1, <1>3, FlightInv, ReportInv, FinishInv, CompleteInv DEF FlightStep
<1>4. CASE Tick
  BY <1>1, <1>4, SameInv DEF Tick, flight
<1>5. CASE UNCHANGED vars
  BY <1>1, <1>5, SameInv DEF vars, flight
<1> QED
  BY <1>2, <1>3, <1>4, <1>5 DEF Next

(* The inductive invariant: rows lie under the ask they were fetched for,  *)
(* outcomes answer their ask, and where a search is tells what its stream  *)
(* and its log have got (run, run_stream, flight).                         *)
THEOREM Invariance == Spec => []IInv
<1>1. Init => IInv
  BY InitIInv
<1>2. IInv /\ [Next]_vars => IInv'
  BY NextIInv
<1> QED
  BY <1>1, <1>2, PTL DEF Spec

(* Every reachable state of the pipeline is well typed.                    *)
THEOREM TypeCorrect == Spec => []TypeOK
<1>1. IInv => TypeOK
  BY DEF IInv
<1> QED
  BY <1>1, Invariance, PTL

(* For any requests, tiers, flights, overflows and refreshes: what a       *)
(* search is answered with was fetched for its page, its pin and its query *)
(* or one similar enough (lexical_lookup, overflow, shared_response).      *)
THEOREM AnsweredAsAsked == Spec => []AnswersTheQuestion
<1>1. ASSUME IInv PROVE AnswersTheQuestion
  BY <1>1, TaskNames DEF IInv, TaskTold, AnswersFor, AnswersTheQuestion, Of
<1> QED
  BY <1>1, Invariance, PTL

(* A search that has ended has exactly one search_log row, and it names    *)
(* the source of its answer (write_log, shared_response).                  *)
THEOREM LoggedOnce == Spec => []OneRow
<1>1. ASSUME IInv PROVE OneRow
  BY <1>1 DEF IInv, LogTold, OneRow
<1> QED
  BY <1>1, Invariance, PTL

(* The stream of a search that has ended closed with one terminal frame:   *)
(* meta in the order of the response, or an error with nothing before it   *)
(* (run_stream, lead_stream, emit_response).                               *)
THEOREM StreamEndsOnce == Spec => []OneTerminal
<1>1. ASSUME IInv, NEW r \in Requests
      PROVE  LET ev == events[r]
                 o == outcome[Search(r)]
             IN
             /\ \A n \in DOMAIN ev : ev[n].kind # "results" => n = Len(ev)
             /\ at[Search(r)] = "idle" /\ o # Nothing /\ r \in Streams /\ o # Error("unknown engines") =>
                  IF o.kind = "error" THEN ev = <<[kind |-> "error"]>>
                  ELSE ev # <<>> /\ Last(ev) = Meta(o.results)
  <2> DEFINE ev == events[r]
             t  == Search(r)
             o  == outcome[t]
  <2>1. StreamTold(r) /\ at[t] \in Phases
    BY <1>1, TaskNames DEF IInv, TypeOK
  <2>2. IsSeq(ev) /\ DOMAIN ev = 1..Len(ev) /\ Len(ev) \in Nat
    <3>1. IsSeq(ev)
      BY <2>1 DEF StreamTold
    <3> HIDE DEF ev
    <3>2. PICK S : ev \in Seq(S)
      BY <3>1 DEF IsSeq
    <3> QED
      BY <3>1, <3>2
  <2>3. \/ ev = <<>> \/ Batches(ev) \/ ev = <<[kind |-> "error"]>>
        \/ EndsWith(ev, Meta(o.results))
    <3>1. CASE at[t] \in Unsent \/ r \notin Streams
      BY <2>1, <3>1 DEF StreamTold
    <3>2. CASE at[t] \in {"fetching", "complete", "respond", "idle"} /\ r \in Streams
      BY <2>1, <3>2 DEF StreamTold, Concluded
    <3> QED
      BY <2>1, <3>1, <3>2 DEF StreamTold, Unsent, Phases
  <2> HIDE DEF ev
  <2>4. ASSUME NEW n \in DOMAIN ev, ev[n].kind # "results" PROVE n = Len(ev)
    <3>1. n \in 1..Len(ev)
      BY <2>2
    <3>2. ev # <<>> /\ ~ Batches(ev)
      BY <2>4, <3>1, NoFrame DEF Batches
    <3>3. CASE ev = <<[kind |-> "error"]>>
      BY <3>1, <3>3, OneFrame
    <3>4. CASE EndsWith(ev, Meta(o.results))
      BY <2>2, <2>4, <3>1, <3>4 DEF EndsWith
    <3> QED
      BY <2>3, <3>2, <3>3, <3>4
  <2>5. ASSUME at[t] = "idle", o # Nothing, r \in Streams, o # Error("unknown engines")
        PROVE  IF o.kind = "error" THEN ev = <<[kind |-> "error"]>>
               ELSE ev # <<>> /\ Last(ev) = Meta(o.results)
    <3>1. IF o.kind = "error" THEN ev = <<[kind |-> "error"]>>
          ELSE EndsWith(ev, Meta(o.results))
      BY <2>1, <2>5 DEF StreamTold, ev
    <3> QED
      BY <2>2, <3>1, NoFrame DEF EndsWith, Last
  <2> QED
    BY <2>4, <2>5 DEF ev
<1>2. ASSUME IInv PROVE OneTerminal
  BY <1>1, <1>2 DEF OneTerminal
<1> QED
  BY <1>2, Invariance, PTL

-----------------------------------------------------------------------------
(* What the merge of a fetch has come to, and what was made of it.         *)

\* The answers among a fetch's outcomes so far.
Reported(reports) ==
  [idx \in Engines |-> IF idx \in DOMAIN reports /\ reports[idx] \notin Silent THEN reports[idx] ELSE <<>>]

\* A merge holds what its fetch's answers tell, in whatever order they came.
Gathers(held, reports) ==
  /\ DOMAIN reports \subseteq Engines
  /\ \A idx \in DOMAIN reports : reports[idx] \in Pages[idx] \cup Silent
  /\ MergedAll(held, Reported(reports))

FusedFrom(results, given) == results = Fused(given) /\ results \in Seq(Result)

MergeInv ==
  /\ DOMAIN acc = Tasks
  /\ \A t \in Tasks : Gathers(acc[t], pages[t])
  /\ \A a \in Asks : rows[a] # None => FusedFrom(rows[a].results, rows[a].pages)
  /\ \A t \in Tasks : outcome[t].kind \in {"cache", "network"} =>
       FusedFrom(outcome[t].results, outcome[t].row.pages)

LEMMA GathersTyped ==
  ASSUME NEW held, NEW reports, Gathers(held, reports)
  PROVE  Reported(reports) \in [Engines -> Seq(DOMAIN Parts)]
<1>1. ASSUME NEW idx \in Engines
      PROVE  (IF idx \in DOMAIN reports /\ reports[idx] \notin Silent THEN reports[idx] ELSE <<>>) \in Seq(DOMAIN Parts)
  <2>1. CASE idx \in DOMAIN reports /\ reports[idx] \notin Silent
    BY <2>1, PipelineAssumption DEF Gathers
  <2>2. CASE ~(idx \in DOMAIN reports /\ reports[idx] \notin Silent)
    <3>1. <<>> \in Seq(DOMAIN Parts)
      OBVIOUS
    <3> QED
      BY <2>2, <3>1, Zenon
  <2> QED
    BY <2>1, <2>2
<1> QED
  BY <1>1 DEF Reported

LEMMA GathersNothing == Gathers(NothingMerged, NoReports)
<1> DEFINE pgs == Reported(NoReports)
<1>1. DOMAIN NoReports = {} /\ DOMAIN NothingMerged = {}
  BY DEF NoReports, NothingMerged
<1>2. pgs = [idx \in Engines |-> <<>>]
  BY <1>1 DEF Reported
<1>3. \A s \in Engines \X Nat : Lengths(pgs)[s[1]] = 0
  BY <1>2 DEF Lengths
<1>4. \A k : SpotsTo(pgs, Lengths(pgs), k) = {}
  <2> HIDE DEF pgs
  <2> QED
    BY <1>3 DEF SpotsTo
<1> QED
  BY <1>1, <1>4 DEF Gathers, MergedAll, Merged

LEMMA GathersPage ==
  ASSUME NEW held, NEW reports, Gathers(held, reports),
         NEW idx \in Engines, idx \notin DOMAIN reports, NEW page \in Pages[idx]
  PROVE  Gathers(Add(held, idx, page), With(reports, idx, page))
<1> DEFINE pgs  == Reported(reports)
           then == Reported(With(reports, idx, page))
<1>1. /\ DOMAIN With(reports, idx, page) = DOMAIN reports \cup {idx}
      /\ \A j \in DOMAIN reports \cup {idx} : With(reports, idx, page)[j] = IF j = idx THEN page ELSE reports[j]
  BY DEF With
<1>2. page \notin Silent /\ page \in Seq(DOMAIN Parts)
  BY PipelineAssumption DEF Silent
<1>3. pgs \in [Engines -> Seq(DOMAIN Parts)] /\ pgs[idx] = <<>>
  BY GathersTyped DEF Reported
<1>4. then = [pgs EXCEPT ![idx] = page]
  <2>1. \A j \in Engines : then[j] = IF j = idx THEN page ELSE pgs[j]
    BY <1>1, <1>2 DEF Reported
  <2>2. then = [j \in Engines |-> then[j]]
    BY DEF Reported
  <2> HIDE DEF then, pgs
  <2> QED
    BY <1>3, <2>1, <2>2
<1>5. MergedAll(held, pgs)
  BY DEF Gathers
<1> HIDE DEF then, pgs
<1>6. MergedAll(Add(held, idx, page), then)
  BY <1>2, <1>3, <1>4, <1>5, AddsPage
<1> QED
  BY <1>1, <1>6 DEF Gathers, then

LEMMA GathersSilence ==
  ASSUME NEW held, NEW reports, Gathers(held, reports),
         NEW idx \in Engines, idx \notin DOMAIN reports, NEW silence \in Silent
  PROVE  Gathers(held, With(reports, idx, silence))
<1>1. /\ DOMAIN With(reports, idx, silence) = DOMAIN reports \cup {idx}
      /\ \A j \in DOMAIN reports \cup {idx} : With(reports, idx, silence)[j] = IF j = idx THEN silence ELSE reports[j]
  BY DEF With
<1>2. Reported(With(reports, idx, silence)) = Reported(reports)
  BY <1>1 DEF Reported
<1> QED
  BY <1>1, <1>2 DEF Gathers

\* The actions that touch pages and merges.
LEMMA GatheringNext ==
  ASSUME IInv, MergeInv, [Next]_vars
  PROVE  DOMAIN acc' = Tasks /\ \A t \in Tasks : Gathers(acc'[t], pages'[t])
<1>0. DOMAIN acc = Tasks /\ DOMAIN pages = Tasks /\ \A t \in Tasks : Gathers(acc[t], pages[t])
  BY DEF IInv, Shaped, MergeInv
<1>1. ASSUME NEW t \in Tasks, NEW held, NEW reports, Gathers(held, reports),
             pages' = [pages EXCEPT ![t] = reports], acc' = [acc EXCEPT ![t] = held]
      PROVE  DOMAIN acc' = Tasks /\ \A s \in Tasks : Gathers(acc'[s], pages'[s])
  <2>1. \A s \in Tasks : /\ acc'[s] = IF s = t THEN held ELSE acc[s]
                         /\ pages'[s] = IF s = t THEN reports ELSE pages[s]
    BY <1>0, <1>1
  <2> QED
    BY <1>0, <1>1, <2>1
<1>2. CASE UNCHANGED <<pages, acc>>
  BY <1>0, <1>2
<1>3. ASSUME NEW r \in Requests,
             \/ Begin(r) \/ Lookup(r) \/ StaleLookup(r) \/ Hit(r) \/ Enter(r) \/ Respond(r)
             \/ RefreshWaits(r)
      PROVE  UNCHANGED <<pages, acc>>
  BY <1>3 DEF Begin, Lookup, StaleLookup, Hit, Enter, Respond, RefreshWaits, flight
<1>4. ASSUME NEW t \in Tasks, StartFetch(t)
      PROVE  DOMAIN acc' = Tasks /\ \A s \in Tasks : Gathers(acc'[s], pages'[s])
  BY <1>1, <1>4, GathersNothing DEF StartFetch
<1>5. ASSUME NEW r \in Requests, RefreshEnters(r)
      PROVE  DOMAIN acc' = Tasks /\ \A s \in Tasks : Gathers(acc'[s], pages'[s])
  BY <1>2, <1>4, <1>5, TaskNames DEF RefreshEnters
<1>6. ASSUME NEW t \in Tasks,
             LexicalHit(t) \/ LexicalMiss(t) \/ NotAdmitted(t) \/ Overflow(t) \/ Complete(t)
      PROVE  UNCHANGED <<pages, acc>>
  BY <1>6 DEF LexicalHit, LexicalMiss, NotAdmitted, Overflow, Complete, flight
<1>7. ASSUME NEW t \in Tasks, Admitted(t)
      PROVE  DOMAIN acc' = Tasks /\ \A s \in Tasks : Gathers(acc'[s], pages'[s])
  BY <1>4, <1>7 DEF Admitted
<1>8. ASSUME NEW t \in Tasks, Report(t)
      PROVE  DOMAIN acc' = Tasks /\ \A s \in Tasks : Gathers(acc'[s], pages'[s])
  <2>1. PICK idx \in Runnable(Of(t)) \ DOMAIN pages[t] :
          \/ \E page \in Pages[idx] : /\ pages' = [pages EXCEPT ![t] = With(@, idx, page)]
                                      /\ acc' = [acc EXCEPT ![t] = Add(@, idx, page)]
          \/ \E silence \in Silent : /\ pages' = [pages EXCEPT ![t] = With(@, idx, silence)]
                                     /\ UNCHANGED acc
    BY <1>8 DEF Report
  <2>2. idx \in Engines /\ Gathers(acc[t], pages[t])
    BY <1>0 DEF Runnable
  <2>3. ASSUME NEW page \in Pages[idx],
               pages' = [pages EXCEPT ![t] = With(@, idx, page)], acc' = [acc EXCEPT ![t] = Add(@, idx, page)]
        PROVE  DOMAIN acc' = Tasks /\ \A s \in Tasks : Gathers(acc'[s], pages'[s])
    <3>1. Gathers(Add(acc[t], idx, page), With(pages[t], idx, page))
      BY <2>1, <2>2, GathersPage
    <3>2. /\ pages' = [pages EXCEPT ![t] = With(pages[t], idx, page)]
          /\ acc' = [acc EXCEPT ![t] = Add(acc[t], idx, page)]
      BY <1>0, <2>3
    <3> QED
      BY <1>1, <3>1, <3>2
  <2>4. ASSUME NEW silence \in Silent,
               pages' = [pages EXCEPT ![t] = With(@, idx, silence)], UNCHANGED acc
        PROVE  DOMAIN acc' = Tasks /\ \A s \in Tasks : Gathers(acc'[s], pages'[s])
    <3>1. Gathers(acc[t], With(pages[t], idx, silence))
      BY <2>1, <2>2, GathersSilence
    <3>2. \A s \in Tasks : pages'[s] = IF s = t THEN With(pages[t], idx, silence) ELSE pages[s]
      BY <1>0, <2>4
    <3> QED
      BY <1>0, <2>4, <3>1, <3>2
  <2> QED
    BY <2>1, <2>3, <2>4
<1>9. ASSUME NEW t \in Tasks, FinishFetch(t)
      PROVE  DOMAIN acc' = Tasks /\ \A s \in Tasks : Gathers(acc'[s], pages'[s])
  BY <1>1, <1>9, GathersNothing DEF FinishFetch
<1> QED
  BY <1>2, <1>3, <1>5, <1>6, <1>7, <1>8, <1>9 DEF Next, FlightStep, Tick, vars, flight

\* A fetch ends: what is answered and stored is fused from its answers.
LEMMA FinishFuses ==
  ASSUME IInv, MergeInv, NEW t \in Tasks, FinishFetch(t)
  PROVE  /\ \A a \in Asks : rows'[a] # None => FusedFrom(rows'[a].results, rows'[a].pages)
         /\ \A s \in Tasks : outcome'[s].kind \in {"cache", "network"} =>
              FusedFrom(outcome'[s].results, outcome'[s].row.pages)
<1> DEFINE results == Finish(acc[t])
           ok  == {idx \in Answered(t) : pages[t][idx] # <<>>}
           degraded == \E idx \in DOMAIN pages[t] : pages[t][idx] \in {Failed, <<>>}
           ttl == IF degraded /\ DegradedTTL < TTL THEN DegradedTTL ELSE TTL
           given == [idx \in Engines |-> IF idx \in ok THEN pages[t][idx] ELSE <<>>]
           row == [asked |-> Of(t), results |-> results, ok |-> ok, pages |-> given, expires |-> now + ttl]
           o   == [kind |-> "network", row |-> row, results |-> results]
<1>1. /\ UNCHANGED rows \/ rows' = [rows EXCEPT ![Of(t)] = row]
      /\ Conclude(t, o) \/ \E e : Conclude(t, Error(e))
  BY DEF FinishFetch
<1>2. given = Reported(pages[t])
  <2>1. \A idx \in Engines : idx \in ok <=> /\ idx \in DOMAIN pages[t] /\ pages[t][idx] \notin Silent
                                            /\ pages[t][idx] # <<>>
    BY DEF Answered
  <2> HIDE DEF ok
  <2> QED
    BY <2>1 DEF Reported
<1>3. FusedFrom(results, given)
  <2>1. Gathers(acc[t], pages[t])
    BY DEF MergeInv
  <2>2. Reported(pages[t]) \in [Engines -> Seq(DOMAIN Parts)] /\ MergedAll(acc[t], Reported(pages[t]))
    BY <2>1, GathersTyped DEF Gathers
  <2>3. results = Fused(Reported(pages[t])) /\ results \in Seq(Result)
    BY <2>2, FinishIsFused
  <2> QED
    BY <1>2, <2>3 DEF FusedFrom
<1>4. row.results = results /\ row.pages = given /\ o.results = results /\ o.row = row
  OBVIOUS
<1> HIDE DEF o, row, results, given, ok, ttl, degraded
<1>5. \A a \in Asks : rows'[a] # None => FusedFrom(rows'[a].results, rows'[a].pages)
  <2>1. DOMAIN rows = Asks
    BY DEF IInv, Shaped
  <2>2. \A a \in Asks : rows'[a] = rows[a] \/ rows'[a] = row
    BY <1>1, <2>1
  <2> QED
    BY <1>3, <1>4, <2>2 DEF MergeInv
<1>6. \A s \in Tasks : outcome'[s].kind \in {"cache", "network"} =>
        FusedFrom(outcome'[s].results, outcome'[s].row.pages)
  <2>1. \A s \in Tasks : outcome'[s] = outcome[s] \/ outcome'[s] = o \/ outcome'[s].kind = "error"
    BY <1>1, Kinds DEF IInv, Shaped, Conclude
  <2> QED
    BY <1>3, <1>4, <2>1 DEF MergeInv
<1> QED
  BY <1>5, <1>6

\* Elsewhere no row is written, and what is concluded is a row's or another
\* task's, or tells nothing.
LEMMA OutcomesKeep ==
  ASSUME MergeInv, UNCHANGED rows,
         \A t \in Tasks : \/ \E s \in Tasks : outcome'[t] = outcome[s]
                          \/ \E a \in Asks : \E tier, stale : rows[a] # None /\ outcome'[t] = Served(rows[a], tier, stale)
                          \/ outcome'[t].kind \in {"error", "nothing"}
  PROVE  /\ \A a \in Asks : rows'[a] # None => FusedFrom(rows'[a].results, rows'[a].pages)
         /\ \A t \in Tasks : outcome'[t].kind \in {"cache", "network"} =>
              FusedFrom(outcome'[t].results, outcome'[t].row.pages)
<1>1. ASSUME NEW t \in Tasks, outcome'[t].kind \in {"cache", "network"}
      PROVE  FusedFrom(outcome'[t].results, outcome'[t].row.pages)
  <2>1. CASE \E s \in Tasks : outcome'[t] = outcome[s]
    BY <1>1, <2>1 DEF MergeInv
  <2>2. CASE \E a \in Asks : \E tier, stale : rows[a] # None /\ outcome'[t] = Served(rows[a], tier, stale)
    <3>1. PICK a \in Asks : \E tier, stale : rows[a] # None /\ outcome'[t] = Served(rows[a], tier, stale)
      BY <2>2
    <3>2. outcome'[t].results = rows[a].results /\ outcome'[t].row = rows[a]
      BY <3>1, Kinds
    <3> QED
      BY <3>1, <3>2 DEF MergeInv
  <2> QED
    BY <1>1, <2>1, <2>2
<1> QED
  BY <1>1 DEF MergeInv

LEMMA FusingNext ==
  ASSUME IInv, MergeInv, [Next]_vars
  PROVE  /\ \A a \in Asks : rows'[a] # None => FusedFrom(rows'[a].results, rows'[a].pages)
         /\ \A t \in Tasks : outcome'[t].kind \in {"cache", "network"} =>
              FusedFrom(outcome'[t].results, outcome'[t].row.pages)
<1> USE TaskNames, Kinds
<1> DEFINE Kept == /\ UNCHANGED rows
                   /\ \A t \in Tasks :
                        \/ \E s \in Tasks : outcome'[t] = outcome[s]
                        \/ \E a \in Asks : \E tier, stale :
                             rows[a] # None /\ outcome'[t] = Served(rows[a], tier, stale)
                        \/ outcome'[t].kind \in {"error", "nothing"}
<1>0. DOMAIN outcome = Tasks /\ \A t \in Tasks : Of(t) \in Asks
  BY DEF IInv, Shaped, TypeOK, Of
<1>1. ASSUME NEW t \in Tasks, NEW o, Conclude(t, o), UNCHANGED rows,
             \/ \E a \in Asks : \E tier, stale : rows[a] # None /\ o = Served(rows[a], tier, stale)
             \/ o.kind \in {"error", "nothing"}
      PROVE  Kept
  <2>1. \A s \in Tasks : outcome'[s] = IF s = t THEN o ELSE outcome[s]
    BY <1>0, <1>1 DEF Conclude
  <2> QED
    BY <1>1, <2>1
<1>2. ASSUME UNCHANGED <<rows, outcome>> PROVE Kept
  BY <1>2
<1>3. ASSUME NEW r \in Requests, Begin(r) PROVE Kept
  <2>1. PICK o : UNCHANGED rows /\ o.kind \in {"error", "nothing"} /\ Conclude(Search(r), o)
    BY <1>3 DEF Begin
  <2> HIDE DEF Kept
  <2> QED
    BY <1>1, <2>1
<1>4. ASSUME NEW r \in Requests, Lookup(r) \/ StaleLookup(r) PROVE Kept
  <2>1. ask[r] \in Asks
    BY DEF IInv, TypeOK
  <2>2. /\ UNCHANGED rows
        /\ \/ UNCHANGED outcome
           \/ rows[ask[r]] # None /\ \E stale : Conclude(Search(r), Served(rows[ask[r]], 1, stale))
    BY <1>4 DEF Lookup, StaleLookup, Fresh, WithinGrace
  <2> QED
    BY <1>1, <1>2, <2>1, <2>2
<1>5. ASSUME NEW r \in Requests,
             Hit(r) \/ Enter(r) \/ Respond(r) \/ RefreshWaits(r) \/ RefreshEnters(r)
      PROVE  Kept
  BY <1>2, <1>5 DEF Hit, Enter, Respond, RefreshWaits, RefreshEnters, flight
<1>6. ASSUME NEW t \in Tasks, LexicalHit(t) PROVE Kept
  <2>1. PICK b \in Asks : rows[b] # None /\ Conclude(t, Served(rows[b], 2, FALSE)) /\ UNCHANGED rows
    BY <1>6 DEF LexicalHit, Passes, Fresh
  <2> QED
    BY <1>1, <2>1
<1>7. ASSUME NEW t \in Tasks, LexicalMiss(t) PROVE Kept
  <2>1. UNCHANGED rows /\ (UNCHANGED outcome \/ Conclude(t, Error("no engines")))
    BY <1>7 DEF LexicalMiss
  <2> QED
    BY <1>1, <1>2, <2>1
<1>8. ASSUME NEW t \in Tasks, Overflow(t) PROVE Kept
  <2>1. /\ UNCHANGED rows
        /\ \/ Conclude(t, Error("rate limited"))
           \/ rows[Of(t)] # None /\ \E stale : Conclude(t, Served(rows[Of(t)], 1, stale))
    BY <1>8 DEF Overflow
  <2> HIDE DEF Kept
  <2>2. ASSUME NEW stale, rows[Of(t)] # None, Conclude(t, Served(rows[Of(t)], 1, stale))
        PROVE  Kept
    BY <1>0, <1>1, <2>1, <2>2
  <2>3. ASSUME Conclude(t, Error("rate limited")) PROVE Kept
    <3>1. Error("rate limited").kind = "error"
      OBVIOUS
    <3> QED
      BY <1>1, <2>1, <2>3, <3>1
  <2> QED
    BY <2>1, <2>2, <2>3
<1>9. ASSUME NEW t \in Tasks, Admitted(t) \/ NotAdmitted(t) \/ Report(t) PROVE Kept
  BY <1>2, <1>9 DEF Admitted, NotAdmitted, Report, flight
<1>10. ASSUME NEW t \in Tasks, Complete(t) PROVE Kept
  <2>1. UNCHANGED rows /\ \A s \in Tasks : outcome'[s] \in {outcome[t], Nothing, outcome[s]}
    <3> DEFINE W == {s \in Tasks : at[s] = "following" /\ slot[Of(t)] = t /\ Of(s) = Of(t)}
               F(s) == IF s \in W THEN outcome[t]
                       ELSE IF s = t /\ t[2] = "refresh" THEN Nothing
                       ELSE outcome[s]
    <3>1. UNCHANGED rows /\ outcome' = [s \in Tasks |-> F(s)]
      BY <1>10 DEF Complete
    <3>2. \A s : F(s) \in {outcome[t], Nothing, outcome[s]}
      <4> HIDE DEF W
      <4> QED
        OBVIOUS
    <3> HIDE DEF F
    <3> QED
      BY <3>1, <3>2
  <2> QED
    BY <2>1
<1>11. CASE Kept
  BY <1>11, OutcomesKeep
<1>12. ASSUME NEW t \in Tasks, FinishFetch(t)
       PROVE  /\ \A a \in Asks : rows'[a] # None => FusedFrom(rows'[a].results, rows'[a].pages)
              /\ \A s \in Tasks : outcome'[s].kind \in {"cache", "network"} =>
                   FusedFrom(outcome'[s].results, outcome'[s].row.pages)
  BY <1>12, FinishFuses
<1>13. Kept \/ \E t \in Tasks : FinishFetch(t)
  <2> HIDE DEF Kept
  <2> QED
    BY <1>2, <1>3, <1>4, <1>5, <1>6, <1>7, <1>8, <1>9, <1>10 DEF Next, FlightStep, Tick, vars, flight
<1> QED
  BY <1>11, <1>12, <1>13

LEMMA InitMergeInv == ASSUME Init PROVE MergeInv
  BY GathersNothing, Kinds DEF Init, MergeInv

LEMMA NextMergeInv == ASSUME IInv, MergeInv, [Next]_vars PROVE MergeInv'
  BY GatheringNext, FusingNext DEF MergeInv

THEOREM MergeInvariance == Spec => []MergeInv
<1>1. Init => MergeInv
  BY InitMergeInv
<1>2. IInv /\ MergeInv /\ [Next]_vars => MergeInv'
  BY NextMergeInv
<1> QED
  BY <1>1, <1>2, Invariance, PTL DEF Spec

(* For any engines, weights, pages, orders of arrival and tiers: what a    *)
(* search is answered with is fused from the engines' pages alone, however *)
(* the fan-out's answers were interleaved, and so is every row it stored   *)
(* for the searches after it (RrfMerge, fed by drive_fan_out as answers    *)
(* come).                                                                  *)
THEOREM ArrivalIgnored == Spec => []MergeIgnoresArrival
<1>1. ASSUME MergeInv PROVE MergeIgnoresArrival
  BY <1>1, TaskNames DEF MergeInv, FusedFrom, MergeIgnoresArrival
<1> QED
  BY <1>1, MergeInvariance, PTL

-----------------------------------------------------------------------------
(* What meta orders has been sent.                                         *)

\* Nth names every member of a set of numbers, and nothing else.
LEMMA NthNames ==
  ASSUME NEW S, S \subseteq Nat, IsFiniteSet(S)
  PROVE  /\ Cardinality(S) \in Nat
         /\ \A i \in S : \E n \in 1..Cardinality(S) : Nth(S, n) = i
<1> DEFINE R == {p \in S \X S : p[1] < p[2]}
<1>1. \A i, j \in S : <<i, j>> \in R <=> i < j
  OBVIOUS
<1>2. Strict(S, R)
  <2>1. /\ \A a \in S : ~(a < a)
        /\ \A a, b \in S : a # b => a < b \/ b < a
        /\ \A a, b, c \in S : a < b /\ b < c => a < c
    OBVIOUS
  <2> HIDE DEF R
  <2> QED
    BY <1>1, <2>1 DEF Strict
<1>3. \A i \in S : /\ Cardinality(Beyond(S, R, i)) \in 0..Cardinality(S) - 1
                   /\ {j \in S : j <= i} = Beyond(S, R, i) \cup {i} /\ i \notin Beyond(S, R, i)
                   /\ IsFiniteSet(Beyond(S, R, i))
  <2> TAKE i \in S
  <2>1. Cardinality(Beyond(S, R, i)) \in 0..Cardinality(S) - 1
    <3> HIDE DEF R
    <3> QED
      BY <1>2, Places
  <2>2. ~(i < i) /\ \A j \in S : j <= i <=> j < i \/ j = i
    OBVIOUS
  <2> HIDE DEF R
  <2>3. {j \in S : j <= i} = Beyond(S, R, i) \cup {i} /\ i \notin Beyond(S, R, i) /\ Beyond(S, R, i) \subseteq S
    BY <1>1, <2>2 DEF Beyond
  <2> QED
    BY <2>1, <2>3, FS_Subset
<1> HIDE DEF R
<1>4. Cardinality(S) \in Nat
  BY FS_CardinalityType
<1>5. \A i \in S : /\ Cardinality({j \in S : j <= i}) = Cardinality(Beyond(S, R, i)) + 1
                   /\ Cardinality({j \in S : j <= i}) \in 1..Cardinality(S)
  <2> TAKE i \in S
  <2> DEFINE b == Beyond(S, R, i)
             n == Cardinality(b)
             m == Cardinality(S)
  <2>1. n \in 0..m - 1 /\ m \in Nat /\ {j \in S : j <= i} = b \cup {i} /\ i \notin b /\ IsFiniteSet(b)
    BY <1>3, <1>4
  <2>2. Cardinality(b \cup {i}) = n + 1
    <3> HIDE DEF b
    <3> QED
      BY <2>1, FS_AddElement
  <2> HIDE DEF b, n, m
  <2>3. n + 1 \in 1..m
    BY <2>1
  <2> QED
    BY <2>1, <2>2, <2>3 DEF n, m, b
<1>6. ASSUME NEW i \in S PROVE \E n \in 1..Cardinality(S) : Nth(S, n) = i
  <2> DEFINE Is(n, j) == Cardinality({l \in S : l <= j}) = n
  <2>1. PICK n \in 1..Cardinality(S) : Is(n, i)
    BY <1>5
  <2>2. \A j \in S : Is(n, j) => j = i
    <3> TAKE j \in S
    <3>1. Cardinality(Beyond(S, R, j)) = Cardinality(Beyond(S, R, i)) => j = i
      BY <1>2, Places
    <3>2. /\ Cardinality(Beyond(S, R, j)) \in Int /\ Cardinality(Beyond(S, R, i)) \in Int
          /\ Cardinality({l \in S : l <= j}) = Cardinality(Beyond(S, R, j)) + 1
          /\ Cardinality({l \in S : l <= i}) = Cardinality(Beyond(S, R, i)) + 1
      BY <1>3, <1>4, <1>5
    <3>3. ASSUME Is(n, j) PROVE Cardinality(Beyond(S, R, j)) = Cardinality(Beyond(S, R, i))
      <4>1. Cardinality({l \in S : l <= j}) = Cardinality({l \in S : l <= i})
        BY <2>1, <3>3
      <4> DEFINE x == Cardinality(Beyond(S, R, j))
                 y == Cardinality(Beyond(S, R, i))
      <4>2. x \in Int /\ y \in Int /\ x + 1 = y + 1
        BY <3>2, <4>1
      <4> HIDE DEF x, y
      <4>3. x = y
        BY <4>2
      <4> QED
        BY <4>3 DEF x, y
    <3> HIDE DEF Is
    <3> QED
      BY <3>1, <3>3
  <2>3. Nth(S, n) = CHOOSE j \in S : Is(n, j)
    BY DEF Nth
  <2> HIDE DEF Is
  <2>4. Nth(S, n) = i
    BY <2>1, <2>2, <2>3
  <2> QED
    BY <2>4
<1> QED
  BY <1>4, <1>6

\* The urls a stream has been sent, and a meta that orders only these.
Sent(ev) == UNION {ToSet(ev[n].urls) : n \in {m \in DOMAIN ev : ev[m].kind = "results"}}
SentAll(ev, results) ==
  \A n \in DOMAIN results : \E m \in 1..Len(ev) :
    /\ ev[m].kind = "results"
    /\ \E url \in ToSet(ev[m].urls) : Canonical[url] = Canonical[results[n].url]
Named(ev) ==
  ev # <<>> /\ Last(ev).kind = "meta" =>
    ToSet(Last(ev).order) \subseteq {Canonical[url] : url \in Sent(ev)}

LEMMA NamedNothing == Named(<<>>)
  BY DEF Named

LEMMA NamedBefore ==
  ASSUME NEW ev, NEW frame, IsSeq(ev), frame.kind # "meta"
  PROVE  Named(ev \o <<frame>>)
<1>1. /\ Len(ev) \in Nat /\ Len(ev \o <<frame>>) = Len(ev) + 1
      /\ (ev \o <<frame>>)[Len(ev) + 1] = frame
  BY OneFrame, Joined
<1>2. Last(ev \o <<frame>>) = frame
  BY <1>1 DEF Last
<1> QED
  BY <1>2 DEF Named

LEMMA NamedMeta ==
  ASSUME NEW ev, NEW results, IsSeq(ev), SentAll(ev, results)
  PROVE  Named(ev \o <<Meta(results)>>)
<1> DEFINE frame == Meta(results)
           then == ev \o <<frame>>
<1>1. /\ Len(ev) \in Nat /\ Len(then) = Len(ev) + 1 /\ then[Len(ev) + 1] = frame
      /\ \A n \in 1..Len(ev) : then[n] = ev[n]
      /\ IsSeq(then)
  BY OneFrame, Joined
<1> HIDE DEF then
<1>2. DOMAIN then = 1..Len(ev) + 1
  <2>1. PICK S : then \in Seq(S)
    BY <1>1 DEF IsSeq
  <2> QED
    BY <1>1, <2>1
<1>3. Last(then) = frame
  BY <1>1 DEF Last
<1>4. frame.order = [n \in DOMAIN results |-> Canonical[results[n].url]]
  BY DEF Meta
<1> HIDE DEF frame
<1>5. ASSUME NEW n \in DOMAIN results PROVE \E url \in Sent(then) : Canonical[url] = Canonical[results[n].url]
  <2>1. PICK m \in 1..Len(ev) : /\ ev[m].kind = "results"
                                /\ \E url \in ToSet(ev[m].urls) : Canonical[url] = Canonical[results[n].url]
    BY DEF SentAll
  <2>2. m \in DOMAIN then /\ then[m] = ev[m]
    BY <1>1, <1>2
  <2> QED
    BY <2>1, <2>2 DEF Sent
<1>6. ToSet(frame.order) = {Canonical[results[n].url] : n \in DOMAIN results}
  BY <1>4 DEF ToSet
<1> QED
  BY <1>3, <1>5, <1>6 DEF Named, then, frame

\* emit_response sends every result before meta: in the batch of its engine,
\* or as merged.
LEMMA EmitNamed ==
  ASSUME NEW o, o.row.ok \subseteq Engines, o.results \in Seq(Result)
  PROVE  Named(Emit(o))
<1> DEFINE from(S) == {n \in DOMAIN o.results : o.results[n].by \in S}
           urls(S) == [m \in 1..Cardinality(from(S)) |-> o.results[Nth(from(S), m)].url]
           shown   == {idx \in o.row.ok : from({idx}) # {}}
           rest    == Engines \ o.row.ok
           frame(n) == Batch(Nth(shown, n), urls({Nth(shown, n)}))
           batches == [n \in 1..Cardinality(shown) |-> frame(n)]
           last    == IF from(rest) = {} THEN <<>> ELSE <<Batch(0, urls(rest))>>
<1>1. Emit(o) = batches \o last \o <<Meta(o.results)>>
  BY DEF Emit
<1>2. \A S : from(S) \subseteq Nat /\ IsFiniteSet(from(S))
  <2> TAKE S
  <2>1. DOMAIN o.results = 1..Len(o.results) /\ Len(o.results) \in Nat
    BY LenProperties
  <2>2. from(S) \subseteq 1..Len(o.results)
    BY <2>1
  <2>3. IsFiniteSet(1..Len(o.results))
    BY <2>1, FS_Interval
  <2> HIDE DEF from
  <2> QED
    BY <2>2, <2>3, FS_Subset
<1>3. ASSUME NEW S, NEW n \in from(S) PROVE o.results[n].url \in ToSet(urls(S))
  <2>1. PICK m \in 1..Cardinality(from(S)) : Nth(from(S), m) = n
    <3> HIDE DEF from
    <3> QED
      BY <1>2, <1>3, NthNames
  <2>2. m \in DOMAIN urls(S) /\ urls(S)[m] = o.results[n].url
    <3> HIDE DEF from
    <3> QED
      BY <2>1
  <2> HIDE DEF urls
  <2> QED
    BY <2>2 DEF ToSet
<1>4. shown \subseteq Nat /\ IsFiniteSet(shown)
  <2>1. shown \subseteq Engines /\ Engines \subseteq Nat /\ IsFiniteSet(Engines)
    BY SpotOrder, MergeAssumption
  <2> HIDE DEF shown
  <2> QED
    BY <2>1, FS_Subset
<1>5. /\ IsSeq(batches) /\ Len(batches) = Cardinality(shown) /\ Cardinality(shown) \in Nat
      /\ \A n \in 1..Cardinality(shown) : batches[n] = frame(n)
  <2> DEFINE frames == {frame(n) : n \in 1..Cardinality(shown)}
             count  == Cardinality(shown)
  <2>0. count \in Nat
    <3> HIDE DEF shown
    <3> QED
      BY <1>4, FS_CardinalityType
  <2> HIDE DEF frame, shown
  <2>1. batches \in [1..count -> frames]
    OBVIOUS
  <2>2. \A n \in 1..count : batches[n] = frame(n)
    OBVIOUS
  <2> HIDE DEF batches, frames, count
  <2>3. batches \in Seq(frames) /\ Len(batches) = count
    BY <2>0, <2>1
  <2> QED
    BY <2>0, <2>2, <2>3 DEF IsSeq, count
<1>6. IsSeq(last)
  <2> HIDE DEF from, rest, urls
  <2> QED
    BY NoFrame, OneFrame
<1>7. /\ IsSeq(batches \o last)
      /\ Len(batches) \in Nat /\ Len(last) \in Nat /\ Len(batches \o last) = Len(batches) + Len(last)
      /\ \A n \in 1..Len(batches) : (batches \o last)[n] = batches[n]
      /\ \A n \in 1..Len(last) : (batches \o last)[Len(batches) + n] = last[n]
  <2> HIDE DEF batches, last
  <2>1. PICK s, u : s = batches /\ u = last /\ IsSeq(s) /\ IsSeq(u)
    BY <1>5, <1>6
  <2>2. /\ IsSeq(s \o u) /\ Len(s) \in Nat /\ Len(u) \in Nat /\ Len(s \o u) = Len(s) + Len(u)
        /\ \A n \in 1..Len(s) : (s \o u)[n] = s[n]
        /\ \A n \in 1..Len(u) : (s \o u)[Len(s) + n] = u[n]
    BY <2>1, Joined
  <2> QED
    BY <2>1, <2>2
<1>8. ASSUME NEW n \in DOMAIN o.results
      PROVE  \E m \in 1..Len(batches \o last) :
               /\ (batches \o last)[m].kind = "results"
               /\ \E url \in ToSet((batches \o last)[m].urls) : Canonical[url] = Canonical[o.results[n].url]
  <2>1. o.results[n].by \in Engines
    <3>1. n \in 1..Len(o.results)
      BY LenProperties
    <3>2. o.results[n] \in Result
      BY <3>1, ElementOfSeq
    <3> QED
      BY <3>2 DEF Result
  <2>2. ASSUME o.results[n].by \in o.row.ok
        PROVE  \E m \in 1..Cardinality(shown) :
                 /\ frame(m).kind = "results"
                 /\ o.results[n].url \in ToSet(frame(m).urls)
    <3> DEFINE idx == o.results[n].by
    <3>1. n \in from({idx}) /\ idx \in shown
      BY <2>2
    <3>2. PICK m \in 1..Cardinality(shown) : Nth(shown, m) = idx
      <4> HIDE DEF shown, idx
      <4> QED
        BY <1>4, <3>1, NthNames
    <3>3. o.results[n].url \in ToSet(urls({idx}))
      <4> HIDE DEF from, urls, idx
      <4> QED
        BY <1>3, <3>1
    <3>4. frame(m) = Batch(idx, urls({idx}))
      BY <3>2
    <3>5. frame(m).kind = "results" /\ frame(m).urls = urls({idx})
      <4> HIDE DEF urls, frame, idx
      <4> QED
        BY <3>4 DEF Batch
    <3> HIDE DEF urls, frame, idx, shown
    <3> QED
      BY <3>2, <3>3, <3>5
  <2>3. ASSUME o.results[n].by \notin o.row.ok
        PROVE  /\ Len(last) = 1 /\ last[1].kind = "results"
               /\ o.results[n].url \in ToSet(last[1].urls)
    <3>1. n \in from(rest)
      BY <2>1, <2>3
    <3>2. o.results[n].url \in ToSet(urls(rest))
      <4> HIDE DEF from, urls, rest
      <4> QED
        BY <1>3, <3>1
    <3>3. last = <<Batch(0, urls(rest))>>
      BY <3>1
    <3> HIDE DEF last, urls, rest
    <3> QED
      BY <3>2, <3>3, OneFrame DEF Batch
  <2> HIDE DEF shown, frame, last, batches
  <2>4. CASE o.results[n].by \in o.row.ok
    <3>1. PICK m \in 1..Cardinality(shown) : frame(m).kind = "results" /\ o.results[n].url \in ToSet(frame(m).urls)
      BY <2>2, <2>4
    <3>2. m \in 1..Len(batches) /\ m \in 1..Len(batches \o last) /\ (batches \o last)[m] = frame(m)
      BY <1>5, <1>7
    <3> QED
      BY <3>1, <3>2
  <2>5. CASE o.results[n].by \notin o.row.ok
    <3>1. Len(last) = 1 /\ last[1].kind = "results" /\ o.results[n].url \in ToSet(last[1].urls)
      BY <2>3, <2>5
    <3>2. Len(batches) + 1 \in 1..Len(batches \o last) /\ (batches \o last)[Len(batches) + 1] = last[1]
      BY <1>5, <1>7, <3>1
    <3> QED
      BY <3>1, <3>2
  <2> QED
    BY <2>4, <2>5
<1> HIDE DEF batches, last
<1>9. SentAll(batches \o last, o.results)
  BY <1>8 DEF SentAll
<1> QED
  BY <1>1, <1>7, <1>9, NamedMeta

\* While a stream is fetching, every answer with results has gone out on it.
AnswersSent(reports, ev) ==
  \A idx \in DOMAIN reports : reports[idx] \notin Silent \cup {<<>>} =>
    \E n \in 1..Len(ev) : ev[n] = Batch(idx, reports[idx])

SentTold(r) ==
  /\ Named(events[r])
  /\ r \in Streams /\ at[Search(r)] = "fetching" => AnswersSent(pages[Search(r)], events[r])

SentInv == \A r \in Requests : SentTold(r)

\* What a fetch's merge comes to is then on the stream.
LEMMA HeldSent ==
  ASSUME NEW held, NEW reports, Gathers(held, reports), NEW ev, AnswersSent(reports, ev)
  PROVE  SentAll(ev, Finish(held))
<1> DEFINE pgs == Reported(reports)
<1>1. pgs \in [Engines -> Seq(DOMAIN Parts)] /\ MergedAll(held, pgs)
  BY GathersTyped DEF Gathers
<1>2. \A idx \in Engines : pgs[idx] # <<>> =>
        idx \in DOMAIN reports /\ reports[idx] \notin Silent /\ pgs[idx] = reports[idx]
  BY DEF Reported
<1> HIDE DEF pgs
<1>3. ASSUME NEW k \in DOMAIN held
      PROVE  \E m \in 1..Len(ev) : /\ ev[m].kind = "results"
                                   /\ \E url \in ToSet(ev[m].urls) : Canonical[url] = Canonical[held[k].url]
  <2>1. PICK s \in Engines \X Nat : s[2] \in 1..Lengths(pgs)[s[1]] /\ held[k].url = UrlAt(pgs, s)
    BY <1>1 DEF MergedAll, Merged, Tells, SpotsTo
  <2>2. PICK idx \in Engines, n \in Nat : idx = s[1] /\ n = s[2] /\ n \in 1..Len(pgs[idx]) /\ held[k].url = pgs[idx][n]
    BY <2>1 DEF Lengths, UrlAt
  <2>3. pgs[idx] \in Seq(DOMAIN Parts) /\ pgs[idx] # <<>>
    BY <1>1, <2>2
  <2>4. PICK m \in 1..Len(ev) : ev[m] = Batch(idx, pgs[idx])
    BY <1>2, <2>3 DEF AnswersSent
  <2>5. held[k].url \in ToSet(pgs[idx])
    BY <2>2, <2>3, LenProperties DEF ToSet
  <2> QED
    BY <2>4, <2>5 DEF Batch
<1>4. \A n \in DOMAIN Finish(held) : \E k \in DOMAIN held : Finish(held)[n].url = held[k].url
  <2>1. \A n \in DOMAIN Finish(held) :
          \E k \in DOMAIN held : Finish(held)[n] = [url |-> held[k].url, by |-> held[k].by]
    BY <1>1, FinishIsFused
  <2> QED
    BY <2>1
<1> QED
  BY <1>3, <1>4 DEF SentAll

LEMMA SentStays ==
  ASSUME NEW r \in Requests, SentTold(r), UNCHANGED <<events[r], pages[Search(r)]>>,
         at'[Search(r)] = "fetching" => at[Search(r)] = "fetching"
  PROVE  SentTold(r)'
  BY DEF SentTold

\* A send that does not belong to a fetch.
LEMMA SendsOn ==
  ASSUME IInv, SentInv, NEW r \in Requests, NEW sent, Send(r, sent), UNCHANGED pages,
         \A q \in Requests : at'[Search(q)] = "fetching" => at[Search(q)] = "fetching",
         sent = <<>> \/ (at'[Search(r)] # "fetching" /\ Named(events[r] \o sent))
  PROVE  SentInv'
<1>1. DOMAIN events = Requests /\ IsSeq(events[r])
  BY DEF IInv, Shaped, StreamTold
<1>2. \A q \in Requests : events'[q] = IF q = r THEN events[r] \o sent ELSE events[q]
  BY <1>1 DEF Send
<1>3. ASSUME NEW q \in Requests PROVE SentTold(q)'
  <2>1. CASE q # r \/ sent = <<>>
    <3>1. events'[q] = events[q]
      BY <1>1, <1>2, <2>1, NoFrame
    <3> QED
      BY <3>1, SentStays DEF SentInv
  <2>2. CASE q = r /\ sent # <<>>
    BY <1>2, <2>2 DEF SentTold
  <2> QED
    BY <2>1, <2>2
<1> QED
  BY <1>3 DEF SentInv

\* What a tier or a flight came up with can be emitted.
LEMMA EmitsNamed ==
  ASSUME IInv, MergeInv
  PROVE  /\ \A t \in Tasks : t[2] = "search" /\ outcome[t].kind \in {"cache", "network"} =>
              Named(Emit(outcome[t]))
         /\ \A a \in Asks : \A tier, stale : rows[a] # None => Named(Emit(Served(rows[a], tier, stale)))
<1>1. ASSUME NEW t \in Tasks, t[2] = "search", outcome[t].kind \in {"cache", "network"}
      PROVE  Named(Emit(outcome[t]))
  <2>1. outcome[t].row.ok \subseteq Engines /\ outcome[t].results \in Seq(Result)
    BY <1>1 DEF IInv, TaskTold, MergeInv, FusedFrom
  <2> QED
    BY <2>1, EmitNamed
<1>2. ASSUME NEW a \in Asks, NEW tier, NEW stale, rows[a] # None
      PROVE  Named(Emit(Served(rows[a], tier, stale)))
  <2> DEFINE o == Served(rows[a], tier, stale)
  <2>1. o.row = rows[a] /\ o.results = rows[a].results
    BY Kinds
  <2>2. o.row.ok \subseteq Engines /\ o.results \in Seq(Result)
    BY <1>2, <2>1 DEF IInv, RowsTold, MergeInv, FusedFrom
  <2> HIDE DEF o
  <2>3. Named(Emit(o))
    BY <2>2, EmitNamed
  <2> QED
    BY <2>3 DEF o
<1> QED
  BY <1>1, <1>2

\* The serves: hit, respond, and a flight's own.
LEMMA ServesNamed ==
  ASSUME IInv, MergeInv, SentInv
  PROVE  /\ \A r \in Requests : Hit(r) \/ Respond(r) => SentInv'
         /\ \A t \in Tasks : LexicalHit(t) \/ Overflow(t) => SentInv'
<1> USE TaskNames, Kinds
<1>0. /\ at \in [Tasks -> Phases] /\ DOMAIN events = Requests
      /\ \A r \in Requests : StreamTold(r) /\ IsSeq(events[r]) /\ SentTold(r)
      /\ \A t \in Tasks : Of(t) \in Asks
  BY DEF IInv, TypeOK, Shaped, StreamTold, SentInv, Of
<1>1. ASSUME NEW r \in Requests, Hit(r) PROVE SentInv'
  <2> DEFINE t == Search(r)
             sent == IF Streaming(t) THEN Emit(outcome[t]) ELSE <<>>
  <2>1. /\ at[t] = "hit" /\ Send(r, sent) /\ UNCHANGED pages
        /\ at' = [at EXCEPT ![t] = "idle", ![Refresh(r)] = IF outcome[t].stale THEN "waiting" ELSE @]
    BY <1>1 DEF Hit, flight
  <2>2. /\ at'[t] # "fetching"
        /\ \A q \in Requests : at'[Search(q)] = "fetching" => at[Search(q)] = "fetching"
    BY <1>0, <2>1
  <2>3. Named(Emit(outcome[t])) /\ events[r] = <<>>
    BY <1>0, <2>1, EmitsNamed DEF StreamTold, Unsent
  <2>4. sent = <<>> \/ (at'[t] # "fetching" /\ Named(events[r] \o sent))
    <3>1. CASE Streaming(t)
      <4>1. IsSeq(Emit(outcome[t]))
        BY <2>1, EmitEnds DEF IInv, TaskTold, StreamTold
      <4>2. events[r] \o Emit(outcome[t]) = Emit(outcome[t])
        BY <2>3, <4>1, NoFrame
      <4> QED
        BY <2>2, <2>3, <3>1, <4>2
    <3>2. CASE ~Streaming(t)
      BY <3>2
    <3> QED
      BY <3>1, <3>2
  <2> HIDE DEF sent
  <2> QED
    BY <2>1, <2>2, <2>4, SendsOn
<1>2. ASSUME NEW r \in Requests, Respond(r) PROVE SentInv'
  <2> DEFINE t == Search(r)
             o == outcome[t]
             sent == IF ~Streaming(t) THEN <<>>
                     ELSE IF o.kind = "error" THEN <<[kind |-> "error"]>>
                     ELSE IF events[r] # <<>> THEN <<>> ELSE Emit(o)
  <2>1. at[t] = "respond" /\ Send(r, sent) /\ UNCHANGED pages /\ Go(t, "idle")
    BY <1>2 DEF Respond, flight
  <2>2. /\ at'[t] # "fetching"
        /\ \A q \in Requests : at'[Search(q)] = "fetching" => at[Search(q)] = "fetching"
    BY <1>0, <2>1 DEF Go
  <2>3. o.kind \in {"cache", "network", "error"} /\ IsSeq(events[r])
    BY <1>0, <2>1 DEF StreamTold
  <2>4. sent = <<>> \/ Named(events[r] \o sent)
    <3>1. CASE ~Streaming(t)
      BY <3>1
    <3>2. CASE Streaming(t) /\ o.kind = "error"
      <4>1. Named(events[r] \o <<[kind |-> "error"]>>)
        <5>1. [kind |-> "error"].kind # "meta"
          OBVIOUS
        <5> QED
          BY <2>3, <5>1, NamedBefore
      <4> QED
        BY <3>2, <4>1
    <3>3. CASE Streaming(t) /\ o.kind # "error" /\ events[r] # <<>>
      BY <3>3
    <3>4. CASE Streaming(t) /\ o.kind # "error" /\ events[r] = <<>>
      <4>1. Named(Emit(o)) /\ o.row.ok \subseteq Engines
        BY <2>3, <3>4, EmitsNamed DEF IInv, TaskTold
      <4>2. events[r] \o Emit(o) = Emit(o)
        BY <3>4, <4>1, EmitEnds, NoFrame
      <4> QED
        BY <3>4, <4>1, <4>2
    <3> QED
      BY <3>1, <3>2, <3>3, <3>4
  <2> HIDE DEF sent
  <2> QED
    BY <2>1, <2>2, <2>4, SendsOn
\* A flight's serve, from a row.
<1>3. ASSUME NEW t \in Tasks, at[t] \in Unsent, Go(t, "complete"), UNCHANGED pages,
             NEW a \in Asks, rows[a] # None, NEW tier, NEW stale,
             Send(t[1], IF Streaming(t) THEN Emit(Served(rows[a], tier, stale)) ELSE <<>>)
      PROVE  SentInv'
  <2> DEFINE r == t[1]
             o == Served(rows[a], tier, stale)
             sent == IF Streaming(t) THEN Emit(o) ELSE <<>>
  <2>1. r \in Requests /\ Send(r, sent)
    BY <1>3
  <2>2. /\ at'[t] # "fetching"
        /\ \A q \in Requests : at'[Search(q)] = "fetching" => at[Search(q)] = "fetching"
    BY <1>0, <1>3 DEF Go
  <2>3. Named(Emit(o)) /\ o.row = rows[a] /\ o.row.ok \subseteq Engines
    BY <1>3, EmitsNamed DEF IInv, RowsTold
  <2>4. sent = <<>> \/ (at'[Search(r)] # "fetching" /\ Named(events[r] \o sent))
    <3>1. CASE Streaming(t)
      <4>1. t = Search(r) /\ events[r] = <<>>
        BY <1>0, <1>3, <2>1, <3>1 DEF Streaming, StreamTold
      <4> HIDE DEF o
      <4>2. events[r] \o Emit(o) = Emit(o)
        BY <2>3, <4>1, EmitEnds, NoFrame
      <4> QED
        BY <2>2, <2>3, <3>1, <4>1, <4>2
    <3>2. CASE ~Streaming(t)
      BY <3>2
    <3> QED
      BY <3>1, <3>2
  <2> HIDE DEF sent
  <2> QED
    BY <1>3, <2>1, <2>2, <2>4, SendsOn
<1>4. ASSUME NEW t \in Tasks, LexicalHit(t) PROVE SentInv'
  <2>1. PICK b \in Asks :
          rows[b] # None /\ Send(t[1], IF Streaming(t) THEN Emit(Served(rows[b], 2, FALSE)) ELSE <<>>)
    BY <1>4 DEF LexicalHit, Passes, Fresh
  <2>2. at[t] \in Unsent /\ Go(t, "complete") /\ UNCHANGED pages
    BY <1>4 DEF LexicalHit, Unsent
  <2> QED
    BY <1>3, <2>1, <2>2
<1>5. ASSUME NEW t \in Tasks, Overflow(t) PROVE SentInv'
  <2> DEFINE stale == rows[Of(t)].expires <= now
  <2>1. at[t] \in Unsent /\ Go(t, "complete") /\ UNCHANGED pages /\ Of(t) \in Asks
    BY <1>0, <1>5 DEF Overflow, Unsent
  <2>2. \/ UNCHANGED events
        \/ /\ rows[Of(t)] # None
           /\ Send(t[1], IF Streaming(t) THEN Emit(Served(rows[Of(t)], 1, stale)) ELSE <<>>)
    BY <1>5 DEF Overflow
  <2>3. CASE UNCHANGED events
    <3>1. \A q \in Requests : at'[Search(q)] = "fetching" => at[Search(q)] = "fetching"
      BY <1>0, <2>1 DEF Go
    <3> QED
      BY <1>0, <2>1, <2>3, <3>1, SentStays DEF SentInv
  <2> HIDE DEF stale
  <2>4. CASE /\ rows[Of(t)] # None
             /\ Send(t[1], IF Streaming(t) THEN Emit(Served(rows[Of(t)], 1, stale)) ELSE <<>>)
    BY <1>3, <2>1, <2>4
  <2> QED
    BY <2>2, <2>3, <2>4
<1> QED
  BY <1>1, <1>2, <1>4, <1>5

\* A report: an answer with results goes out as it comes.
LEMMA ReportSent == ASSUME IInv, SentInv, NEW t \in Tasks, Report(t) PROVE SentInv'
<1> USE TaskNames
<1>0. /\ DOMAIN pages = Tasks /\ DOMAIN events = Requests /\ UNCHANGED at
      /\ \A r \in Requests : StreamTold(r) /\ IsSeq(events[r]) /\ SentTold(r)
  BY DEF IInv, Shaped, StreamTold, SentInv, Report
<1> DEFINE r == t[1]
<1>1. at[t] = "fetching" /\ r \in Requests
  BY DEF Report
<1>2. PICK idx \in Runnable(Of(t)) \ DOMAIN pages[t] :
        \/ \E page \in Pages[idx] :
             /\ pages' = [pages EXCEPT ![t] = With(@, idx, page)]
             /\ Send(r, IF Streaming(t) /\ page # <<>> THEN <<Batch(idx, page)>> ELSE <<>>)
        \/ \E silence \in Silent :
             /\ pages' = [pages EXCEPT ![t] = With(@, idx, silence)]
             /\ UNCHANGED events
  BY DEF Report
<1>3. \A got : /\ DOMAIN With(pages[t], idx, got) = DOMAIN pages[t] \cup {idx}
               /\ \A j \in DOMAIN pages[t] : With(pages[t], idx, got)[j] = pages[t][j]
               /\ With(pages[t], idx, got)[idx] = got
  BY <1>2 DEF With
<1> DEFINE Frames(got) == IF Streaming(t) /\ got \notin Silent \cup {<<>>} THEN <<Batch(idx, got)>> ELSE <<>>
\* What is sent is a frame or nothing; what was sent stays.
<1>4. ASSUME NEW got, NEW sent,
             pages' = [pages EXCEPT ![t] = With(@, idx, got)],
             \A q \in Requests : events'[q] = IF q = r THEN events[r] \o sent ELSE events[q],
             sent = Frames(got)
      PROVE  SentInv'
  <2>1. \A s \in Tasks : pages'[s] = IF s = t THEN With(pages[t], idx, got) ELSE pages[s]
    BY <1>0, <1>4
  <2>2. \A q \in Requests : /\ events'[q] = IF q = r THEN events[r] \o sent ELSE events[q]
                            /\ events[q] \o <<>> = events[q]
    BY <1>0, <1>4, NoFrame
  <2>3. ASSUME NEW q \in Requests, Search(q) # t PROVE SentTold(q)'
    <3>1. q = r => sent = <<>>
      BY <1>4, <2>3 DEF Streaming
    <3>2. events'[q] = events[q]
      <4>1. CASE q = r
        <5>1. events'[q] = events[q] \o sent /\ events[q] \o <<>> = events[q] /\ sent = <<>>
          BY <2>2, <3>1, <4>1
        <5> QED
          BY <5>1
      <4>2. CASE q # r
        BY <2>2, <4>2
      <4> QED
        BY <4>1, <4>2
    <3>3. pages'[Search(q)] = pages[Search(q)]
      BY <2>1, <2>3
    <3> QED
      BY <1>0, <3>2, <3>3, SentStays
  <2>4. ASSUME Search(r) = t PROVE SentTold(r)'
    <3>1. Streaming(t) <=> r \in Streams
      BY <2>4 DEF Streaming
    <3>2. IsSeq(events[r]) /\ Named(events[r])
          /\ (r \in Streams => AnswersSent(pages[t], events[r]))
      BY <1>0, <1>1, <2>4 DEF SentTold
    <3>3. Named(events[r] \o sent)
      <4>1. CASE sent = <<>>
        BY <3>2, <4>1, NoFrame
      <4>2. CASE sent # <<>>
        <5>1. sent = <<Batch(idx, got)>> /\ Batch(idx, got).kind # "meta"
          BY <1>4, <4>2 DEF Batch
        <5> QED
          BY <3>2, <5>1, NamedBefore
      <4> QED
        BY <4>1, <4>2
    <3>4. ASSUME r \in Streams PROVE AnswersSent(With(pages[t], idx, got), events[r] \o sent)
      <4>1. /\ IsSeq(sent) /\ Len(events[r]) \in Nat /\ Len(sent) \in Nat
            /\ Len(events[r] \o sent) = Len(events[r]) + Len(sent)
            /\ \A n \in 1..Len(events[r]) : (events[r] \o sent)[n] = events[r][n]
            /\ \A n \in 1..Len(sent) : (events[r] \o sent)[Len(events[r]) + n] = sent[n]
        <5>1. IsSeq(sent)
          BY <1>4, OneFrame, NoFrame
        <5> QED
          BY <3>2, <5>1, Joined
      <4>2. ASSUME NEW j \in DOMAIN pages[t], pages[t][j] \notin Silent \cup {<<>>}
            PROVE  \E n \in 1..Len(events[r] \o sent) : (events[r] \o sent)[n] = Batch(j, pages[t][j])
        <5>1. PICK n \in 1..Len(events[r]) : events[r][n] = Batch(j, pages[t][j])
          BY <3>2, <3>4, <4>2 DEF AnswersSent
        <5>2. n \in 1..Len(events[r] \o sent) /\ (events[r] \o sent)[n] = Batch(j, pages[t][j])
          BY <4>1, <5>1
        <5> QED
          BY <5>2
      <4>3. ASSUME got \notin Silent \cup {<<>>}
            PROVE  \E n \in 1..Len(events[r] \o sent) : (events[r] \o sent)[n] = Batch(idx, got)
        <5>1. sent = <<Batch(idx, got)>>
          BY <1>4, <3>1, <3>4, <4>3
        <5>2. Len(sent) = 1 /\ sent[1] = Batch(idx, got)
          BY <5>1, OneFrame
        <5>3. /\ Len(events[r]) + 1 \in 1..Len(events[r] \o sent)
              /\ (events[r] \o sent)[Len(events[r]) + 1] = Batch(idx, got)
          BY <4>1, <5>2
        <5> QED
          BY <5>3
      <4> QED
        BY <1>3, <4>2, <4>3 DEF AnswersSent
    <3>5. events'[r] = events[r] \o sent /\ pages'[Search(r)] = With(pages[t], idx, got)
      BY <1>1, <2>1, <2>2, <2>4
    <3> QED
      BY <3>3, <3>4, <3>5 DEF SentTold
  <2> QED
    BY <1>1, <2>3, <2>4 DEF SentInv
<1>5. ASSUME NEW page \in Pages[idx],
             pages' = [pages EXCEPT ![t] = With(@, idx, page)],
             Send(r, IF Streaming(t) /\ page # <<>> THEN <<Batch(idx, page)>> ELSE <<>>)
      PROVE  SentInv'
  <2>1. page \notin Silent
    BY PipelineAssumption DEF Silent, Runnable
  <2>2. Send(r, Frames(page))
    BY <1>5, <2>1
  <2> HIDE DEF Frames
  <2>3. \A q \in Requests : events'[q] = IF q = r THEN events[r] \o Frames(page) ELSE events[q]
    BY <1>0, <2>2 DEF Send
  <2>4. pages' = [pages EXCEPT ![t] = With(@, idx, page)]
    BY <1>5
  <2> QED
    BY <1>4, <2>3, <2>4
<1>6. ASSUME NEW silence \in Silent,
             pages' = [pages EXCEPT ![t] = With(@, idx, silence)], UNCHANGED events
      PROVE  SentInv'
  <2>1. Frames(silence) = <<>>
    OBVIOUS
  <2> HIDE DEF Frames
  <2>2. \A q \in Requests : events'[q] = IF q = r THEN events[r] \o Frames(silence) ELSE events[q]
    BY <1>0, <1>6, <2>1, NoFrame
  <2>3. pages' = [pages EXCEPT ![t] = With(@, idx, silence)]
    BY <1>6
  <2> QED
    BY <1>4, <2>2, <2>3
<1> QED
  BY <1>2, <1>5, <1>6

\* A fetch ends: meta follows every answer's batch.
LEMMA FinishSent == ASSUME IInv, MergeInv, SentInv, NEW t \in Tasks, FinishFetch(t) PROVE SentInv'
<1> USE TaskNames
<1> DEFINE r == t[1]
           sent == IF Streaming(t) THEN <<Meta(Finish(acc[t]))>> ELSE <<>>
<1>0. /\ DOMAIN pages = Tasks /\ DOMAIN events = Requests /\ at \in [Tasks -> Phases]
      /\ \A q \in Requests : StreamTold(q) /\ IsSeq(events[q]) /\ SentTold(q)
  BY DEF IInv, TypeOK, Shaped, StreamTold, SentInv
<1>1. /\ at[t] = "fetching" /\ r \in Requests /\ Go(t, "complete")
      /\ pages' = [pages EXCEPT ![t] = NoReports]
      /\ UNCHANGED events \/ Send(r, sent)
  BY DEF FinishFetch
<1>2. /\ \A s \in Tasks : s # t => pages'[s] = pages[s] /\ at'[s] = at[s]
      /\ at'[t] = "complete"
  BY <1>0, <1>1 DEF Go
<1>3. \A q \in Requests : events'[q] = events[q] \/ (q = r /\ events'[q] = events[r] \o sent)
  <2> HIDE DEF sent
  <2> QED
    BY <1>0, <1>1 DEF Send
<1>4. ASSUME NEW q \in Requests, Search(q) # t PROVE SentTold(q)'
  <2>1. q = r => sent = <<>>
    BY <1>4 DEF Streaming
  <2> HIDE DEF sent
  <2>2. events'[q] = events[q]
    <3>1. events[q] \o <<>> = events[q]
      BY <1>0, NoFrame
    <3> QED
      BY <1>3, <2>1, <3>1
  <2> QED
    BY <1>0, <1>2, <1>4, <2>2, SentStays
<1>5. ASSUME Search(r) = t PROVE SentTold(r)'
  <2>1. Named(events[r]) /\ IsSeq(events[r])
    BY <1>0, <1>1 DEF SentTold
  <2>2. Named(events[r] \o sent)
    <3>1. CASE r \in Streams
      <4>1. AnswersSent(pages[t], events[r])
        BY <1>0, <1>1, <1>5, <3>1 DEF SentTold
      <4>2. Gathers(acc[t], pages[t])
        BY DEF MergeInv
      <4>3. SentAll(events[r], Finish(acc[t]))
        BY <4>1, <4>2, HeldSent
      <4>4. sent = <<Meta(Finish(acc[t]))>>
        BY <1>5, <3>1 DEF Streaming
      <4> HIDE DEF sent
      <4> QED
        BY <2>1, <4>3, <4>4, NamedMeta
    <3>2. CASE r \notin Streams
      <4>1. sent = <<>>
        BY <1>5, <3>2 DEF Streaming
      <4> HIDE DEF sent
      <4> QED
        BY <2>1, <4>1, NoFrame
    <3> QED
      BY <3>1, <3>2
  <2> HIDE DEF sent
  <2>3. Named(events'[r])
    BY <1>1, <1>3, <2>1, <2>2
  <2> QED
    BY <1>2, <1>5, <2>3 DEF SentTold
<1> QED
  BY <1>1, <1>4, <1>5 DEF SentInv

LEMMA NextSentInv == ASSUME IInv, MergeInv, SentInv, [Next]_vars PROVE SentInv'
<1> USE TaskNames
<1>0. /\ DOMAIN pages = Tasks /\ DOMAIN events = Requests /\ at \in [Tasks -> Phases]
      /\ \A q \in Requests : SentTold(q)
  BY DEF IInv, TypeOK, Shaped, SentInv
<1>1. ASSUME \A q \in Requests : /\ UNCHANGED <<events[q], pages[Search(q)]>>
                                 /\ at'[Search(q)] = "fetching" => at[Search(q)] = "fetching"
      PROVE  SentInv'
  BY <1>0, <1>1, SentStays DEF SentInv
<1>2. ASSUME NEW t \in Tasks, NEW to, Go(t, to), to # "fetching" \/ t[2] = "refresh"
      PROVE  \A q \in Requests : at'[Search(q)] = "fetching" => at[Search(q)] = "fetching"
  BY <1>0, <1>2 DEF Go
<1>3. ASSUME NEW r \in Requests, Begin(r) PROVE SentInv'
  <2>1. /\ UNCHANGED pages /\ events' = [events EXCEPT ![r] = <<>>]
        /\ \E to \in {"idle", "lookup"} : Go(Search(r), to)
    BY <1>3 DEF Begin
  <2>2. \A q \in Requests : at'[Search(q)] = "fetching" => at[Search(q)] = "fetching"
    BY <1>2, <2>1
  <2>3. at'[Search(r)] # "fetching"
    BY <1>0, <2>1 DEF Go
  <2>4. SentTold(r)'
    BY <1>0, <2>1, <2>3, NamedNothing DEF SentTold
  <2>5. ASSUME NEW q \in Requests, q # r PROVE SentTold(q)'
    BY <1>0, <2>1, <2>2, <2>5, SentStays
  <2> QED
    BY <2>4, <2>5 DEF SentInv
<1>4. ASSUME NEW r \in Requests, Lookup(r) \/ StaleLookup(r) \/ Enter(r) \/ RefreshWaits(r)
      PROVE  SentInv'
  <2>1. /\ UNCHANGED <<pages, events>>
        /\ \E t \in Tasks, to \in {"hit", "missed", "seeking", "lexical", "following", "entering", "idle"} :
             Go(t, to)
    BY <1>4 DEF Lookup, StaleLookup, Enter, RefreshWaits, flight
  <2> QED
    BY <1>1, <1>2, <2>1
<1>5. ASSUME NEW r \in Requests, RefreshEnters(r) PROVE SentInv'
  <2>1. /\ UNCHANGED events /\ \E to : Go(Refresh(r), to)
        /\ UNCHANGED pages \/ pages' = [pages EXCEPT ![Refresh(r)] = NoReports]
    BY <1>5 DEF RefreshEnters, StartFetch
  <2>2. \A q \in Requests : pages'[Search(q)] = pages[Search(q)]
    BY <1>0, <2>1
  <2> QED
    BY <1>1, <1>2, <2>1, <2>2
<1>6. ASSUME NEW t \in Tasks, LexicalMiss(t) \/ NotAdmitted(t) PROVE SentInv'
  <2>1. /\ UNCHANGED <<pages, events>>
        /\ \E to \in {"complete", "queued", "overflow"} : Go(t, to)
    BY <1>6 DEF LexicalMiss, NotAdmitted, flight
  <2> QED
    BY <1>1, <1>2, <2>1
<1>7. ASSUME NEW t \in Tasks, Admitted(t) PROVE SentInv'
  <2>1. /\ UNCHANGED events /\ Go(t, "fetching") /\ pages' = [pages EXCEPT ![t] = NoReports]
    BY <1>7 DEF Admitted, StartFetch
  <2>2. \A s \in Tasks : s # t => pages'[s] = pages[s] /\ at'[s] = at[s]
    BY <1>0, <2>1 DEF Go
  <2>3. ASSUME NEW q \in Requests, Search(q) # t PROVE SentTold(q)'
    BY <1>0, <2>1, <2>2, <2>3, SentStays
  <2>4. ASSUME NEW q \in Requests, Search(q) = t PROVE SentTold(q)'
    <3>1. pages'[Search(q)] = NoReports
      BY <1>0, <2>1, <2>4
    <3>2. AnswersSent(NoReports, events[q])
      BY DEF AnswersSent, NoReports
    <3> QED
      BY <1>0, <2>1, <3>1, <3>2 DEF SentTold
  <2> QED
    BY <2>3, <2>4 DEF SentInv
<1>8. ASSUME NEW t \in Tasks, Complete(t) PROVE SentInv'
  <2> DEFINE W == {s \in Tasks : at[s] = "following" /\ slot[Of(t)] = t /\ Of(s) = Of(t)}
             F(s) == IF s \in W THEN "respond"
                     ELSE IF s = t THEN IF t[2] = "refresh" THEN "idle" ELSE "respond"
                     ELSE IF s = Refresh(t[1]) /\ outcome[t].kind = "cache" /\ outcome[t].stale
                          THEN "waiting"
                     ELSE at[s]
  <2>1. UNCHANGED <<pages, events>> /\ at' = [s \in Tasks |-> F(s)]
    BY <1>8 DEF Complete
  <2>2. \A s : F(s) \in {"respond", "idle", "waiting", at[s]}
    <3> HIDE DEF W
    <3> QED
      OBVIOUS
  <2> HIDE DEF F
  <2> QED
    BY <1>1, <2>1, <2>2
<1>9. CASE Tick
  BY <1>1, <1>9 DEF Tick, flight
<1>10. CASE UNCHANGED vars
  BY <1>1, <1>10 DEF vars, flight
<1> QED
  BY <1>3, <1>4, <1>5, <1>6, <1>7, <1>8, <1>9, <1>10, ServesNamed, ReportSent, FinishSent
     DEF Next, FlightStep

LEMMA InitSentInv == ASSUME Init PROVE SentInv
  BY TaskNames, NamedNothing DEF Init, SentInv, SentTold

THEOREM SentInvariance == Spec => []SentInv
<1>1. Init => SentInv
  BY InitSentInv
<1>2. IInv /\ MergeInv /\ SentInv /\ [Next]_vars => SentInv'
  BY NextSentInv
<1> QED
  BY <1>1, <1>2, Invariance, MergeInvariance, PTL DEF Spec

(* A request ends once: in the log, on its stream, and with a meta that    *)
(* orders only results the stream has been sent before it, in the batch of *)
(* an engine or as merged, for any interleaving of answers, followers,     *)
(* stale serves and overflows (run_stream, lead_stream, emit_response).    *)
THEOREM EndsAsTold == Spec => []EndsOnce
<1>1. ASSUME SentInv PROVE MetaNamesSent
  BY <1>1 DEF SentInv, SentTold, Named, Sent, MetaNamesSent
<1>2. OneRow /\ OneTerminal /\ MetaNamesSent => EndsOnce
  BY DEF EndsOnce
<1> QED
  BY <1>1, <1>2, SentInvariance, LoggedOnce, StreamEndsOnce, PTL
=============================================================================
