-------------------------- MODULE ClientDriftProofs ---------------------------
(***************************************************************************)
(* Proofs about ClientDrift: what a client changes between two connections *)
(* shows in its fingerprints or stays hidden from them, for every set of    *)
(* hellos the parser accepts and however often the client changes them.     *)
(***************************************************************************)
EXTENDS ClientDrift, FiniteSetTheorems, FunctionTheorems, SequenceTheorems, TLAPS

--------------------------------------------------------------------------------
(* Numbers, and what a filter picks. *)

\* Of some numbers one is the least.
LEMMA LeastNatural ==
    ASSUME NEW S, S \subseteq Nat, S # {}
    PROVE  \E m \in S : \A k \in S : m <= k
<1> DEFINE Below == { 0..k : k \in S }
<1>1. Below \subseteq FiniteSubsetsOf(Nat)
  <2> SUFFICES ASSUME NEW k \in S PROVE 0..k \in FiniteSubsetsOf(Nat)
    OBVIOUS
  <2>1. k \in Int /\ 0 \in Int /\ 0..k \subseteq Nat
    OBVIOUS
  <2>2. QED
    BY <2>1, FS_Interval DEF FiniteSubsetsOf
<1>2. Below # {}
  OBVIOUS
<1>3. PICK b \in Below : \A c \in Below : ~(<<c, b>> \in StrictSubsetOrdering(Nat))
  <2> HIDE DEF Below
  <2>1. IsWellFoundedOn(StrictSubsetOrdering(Nat), FiniteSubsetsOf(Nat))
    BY FS_StrictSubsetOrderingWellFounded
  <2>2. QED
    BY <1>1, <1>2, <2>1, WFMin
<1>4. PICK m \in S : b = 0..m
  OBVIOUS
<1>5. ASSUME NEW k \in S, k < m
      PROVE  FALSE
  <2>1. 0..k \subseteq 0..m /\ m \in 0..m /\ m \notin 0..k
    BY <1>5
  <2>2. 0..k \in SUBSET Nat /\ 0..m \in SUBSET Nat
    BY <1>5
  <2>3. <<0..k, 0..m>> \in StrictSubsetOrdering(Nat)
    BY <2>1, <2>2 DEF StrictSubsetOrdering
  <2>4. QED
    BY <1>3, <1>4, <2>3
<1>6. QED
  BY <1>5

\* Of some numbers below m one is the greatest.
LEMMA GreatestNatural ==
    ASSUME NEW S, S \subseteq Nat, NEW m \in Nat, S # {}, \A k \in S : k < m
    PROVE  \E g \in S : \A k \in S : k <= g
<1> DEFINE T == { e \in Nat : m - e \in S }
<1>1. T \subseteq Nat /\ T # {}
  <2>1. PICK k \in S : TRUE
    OBVIOUS
  <2>2. k \in Nat /\ m - k \in Nat /\ m - (m - k) = k
    OBVIOUS
  <2>3. m - k \in T
    BY <2>2
  <2>4. QED
    BY <2>3
<1>2. PICK t \in T : \A u \in T : t <= u
  <2> HIDE DEF T
  <2>1. QED
    BY <1>1, LeastNatural
<1>3. m - t \in S /\ t \in Nat
  OBVIOUS
<1>4. ASSUME NEW k \in S
      PROVE  k <= m - t
  <2>1. k \in Nat /\ k < m /\ m - k \in Nat /\ m - (m - k) = k
    OBVIOUS
  <2>2. m - k \in T
    BY <2>1
  <2>3. t <= m - k
    BY <1>2, <2>2
  <2>4. QED
    BY <1>3, <2>1, <2>3
<1>5. QED
  BY <1>3, <1>4

\* How many of some numbers there are up to x.
LEMMA UpTo ==
    ASSUME NEW S, S \subseteq Nat \ {0}, IsFiniteSet(S)
    PROVE  /\ Cardinality(S) \in Nat
           /\ \A x \in Nat : /\ IsFiniteSet(S \cap 1..x) /\ Cardinality(S \cap 1..x) \in Nat
                             /\ Cardinality(S \cap 1..x) <= Cardinality(S)
           /\ \A x, y \in S : x < y => Cardinality(S \cap 1..x) < Cardinality(S \cap 1..y)
<1>1. Cardinality(S) \in Nat
  BY FS_CardinalityType
<1>2. ASSUME NEW x \in Nat
      PROVE  /\ IsFiniteSet(S \cap 1..x) /\ Cardinality(S \cap 1..x) \in Nat
             /\ Cardinality(S \cap 1..x) <= Cardinality(S)
  <2>1. S \cap 1..x \in SUBSET S
    OBVIOUS
  <2>2. QED
    BY <2>1, FS_Subset, FS_CardinalityType
<1>3. ASSUME NEW x \in S, NEW y \in S, x < y
      PROVE  Cardinality(S \cap 1..x) < Cardinality(S \cap 1..y)
  <2>1. x \in Nat /\ y \in Nat /\ y \in 1..y /\ y \notin 1..x
    BY <1>3
  <2>2. S \cap 1..x \in SUBSET (S \cap 1..y)
    BY <1>3, <2>1
  <2>3. S \cap 1..x # S \cap 1..y
    BY <2>1
  <2>4. IsFiniteSet(S \cap 1..y) /\ Cardinality(S \cap 1..y) \in Nat /\ Cardinality(S \cap 1..x) \in Nat
    BY <1>2, <2>1
  <2>5. /\ Cardinality(S \cap 1..x) <= Cardinality(S \cap 1..y)
        /\ Cardinality(S \cap 1..x) # Cardinality(S \cap 1..y)
    BY <2>2, <2>3, <2>4, FS_Subset
  <2>6. QED
    BY <2>4, <2>5
<1>4. QED
  BY <1>1, <1>2, <1>3

\* One of some numbers is the n-th: the least with n of them up to it.
LEMMA Nth ==
    ASSUME NEW u \in Nat, NEW S, S \subseteq 1..u, IsFiniteSet(S), NEW n \in 1..Cardinality(S)
    PROVE  \E k \in S : /\ Cardinality(S \cap 1..k) = n
                        /\ \A j \in S : Cardinality(S \cap 1..j) = n => j = k
<1>0. /\ Cardinality(S) \in Nat /\ n \in Nat /\ n >= 1
      /\ \A x \in Nat : IsFiniteSet(S \cap 1..x) /\ Cardinality(S \cap 1..x) \in Nat
      /\ \A x, y \in S : x < y => Cardinality(S \cap 1..x) < Cardinality(S \cap 1..y)
      /\ \A x \in S : x \in Nat /\ x >= 1 /\ x <= u
      /\ S \subseteq Nat
  <2>1. \A x \in S : x \in Nat /\ x >= 1 /\ x <= u
    OBVIOUS
  <2>2. S \subseteq Nat \ {0}
    BY <2>1
  <2>3. /\ Cardinality(S) \in Nat
        /\ \A x \in Nat : IsFiniteSet(S \cap 1..x) /\ Cardinality(S \cap 1..x) \in Nat
        /\ \A x, y \in S : x < y => Cardinality(S \cap 1..x) < Cardinality(S \cap 1..y)
    BY <2>2, UpTo
  <2>4. n \in Nat /\ n >= 1
    BY <2>3
  <2>5. S \subseteq Nat
    BY <2>2
  <2>6. QED
    BY <2>1, <2>3, <2>4, <2>5
<1> DEFINE B == { k \in S : Cardinality(S \cap 1..k) >= n }
<1>1. B # {}
  <2>1. S # {}
    BY <1>0, FS_EmptySet
  <2>2. \A k \in S : k <= u
    OBVIOUS
  <2>3. S \cap 1..u = S
    BY <1>0, <2>2
  <2>4. PICK g \in S : \A k \in S : k <= g
    <3>1. \A k \in S : k < u + 1
      BY <1>0, <2>2
    <3>2. u + 1 \in Nat /\ S \subseteq Nat
      OBVIOUS
    <3>3. QED
      BY <2>1, <3>1, <3>2, GreatestNatural
  <2>5. S \cap 1..g = S
    <3>1. \A k \in S : k \in 1..g
      BY <1>0, <2>4
    <3>2. QED
      BY <3>1
  <2>6. g \in B
    BY <1>0, <2>5
  <2>7. QED
    BY <2>6
<1>2. B \subseteq Nat
  BY <1>0
<1>3. PICK k \in B : \A j \in B : k <= j
  <2> HIDE DEF B
  <2>1. QED
    BY <1>1, <1>2, LeastNatural
<1>4. k \in S /\ Cardinality(S \cap 1..k) >= n /\ Cardinality(S \cap 1..k) \in Nat
  BY <1>0
<1>5. Cardinality(S \cap 1..k) = n
  <2>1. SUFFICES ASSUME Cardinality(S \cap 1..k) > n PROVE FALSE
    BY <1>0, <1>4
  <2> DEFINE L == { j \in S : j < k }
  <2>2. S \cap 1..k = L \cup {k} /\ k \notin L /\ L \subseteq Nat /\ L \subseteq S
    <3>1. \A j \in S : j \in 1..k <=> j \in L \cup {k}
      BY <1>0, <1>4
    <3>2. k \notin L /\ L \subseteq S /\ k \in S
      BY <1>0, <1>4
    <3>3. S \cap 1..k = L \cup {k}
      <4> HIDE DEF L
      <4>1. QED
        BY <3>1, <3>2
    <3>4. QED
      BY <1>0, <3>2, <3>3
  <2>3. \A j \in L : j < k
    OBVIOUS
  <2> HIDE DEF L
  <2>4. IsFiniteSet(L)
    BY <2>2, FS_Subset
  <2>5. Cardinality(S \cap 1..k) = Cardinality(L) + 1 /\ Cardinality(L) \in Nat
    BY <2>2, <2>4, FS_AddElement, FS_CardinalityType
  <2>6. Cardinality(L) >= n
    BY <1>0, <2>1, <2>5
  <2>7. L # {}
    BY <1>0, <2>6, FS_EmptySet
  <2>8. k \in Nat
    BY <1>0, <1>4
  <2>9. PICK g \in L : \A j \in L : j <= g
    BY <2>2, <2>3, <2>7, <2>8, GreatestNatural
  <2>10. S \cap 1..g = L
    <3>1. g \in Nat /\ g < k /\ g \in S
      BY <1>0, <2>2, <2>3
    <3>2. \A j \in S : j <= g <=> j \in L
      BY <1>0, <2>2, <2>9, <3>1, <1>4 DEF L
    <3>3. QED
      BY <1>0, <2>2, <3>1, <3>2
  <2>11. g \in B /\ g < k
    BY <2>2, <2>3, <2>6, <2>10
  <2>12. QED
    BY <1>0, <1>3, <1>4, <2>2, <2>11
<1>6. ASSUME NEW j \in S, Cardinality(S \cap 1..j) = n
      PROVE  j = k
  <2>1. j \in Nat /\ k \in Nat /\ ~(j < k) /\ ~(k < j)
    BY <1>0, <1>4, <1>5, <1>6
  <2>2. QED
    BY <2>1
<1>7. QED
  BY <1>4, <1>5, <1>6

--------------------------------------------------------------------------------
(* What a filter keeps. *)

\* The how manieth of some numbers k is.
Standing(P, k) == Cardinality(P \cap 1..k)

\* Each of them has its standing, and each standing has its number.
LEMMA StandingIs ==
    ASSUME NEW N \in Nat, NEW P, \A k \in P : k \in 1..N
    PROVE  /\ IsFiniteSet(P) /\ Cardinality(P) \in Nat
           /\ \A k \in P : Standing(P, k) \in 1..Cardinality(P)
           /\ \A j, k \in P : Standing(P, j) = Standing(P, k) => j = k
           /\ \A n \in 1..Cardinality(P) : \E k \in P : Standing(P, k) = n
<1>1. P \in SUBSET (1..N) /\ IsFiniteSet(1..N)
  <2>1. 1 \in Int /\ N \in Int
    OBVIOUS
  <2>2. QED
    BY <2>1, FS_Interval
<1>2. IsFiniteSet(P) /\ Cardinality(P) \in Nat
  BY <1>1, FS_Subset, FS_CardinalityType
<1>3. P \subseteq Nat \ {0}
  BY <1>1
<1>4. /\ \A x \in Nat : /\ IsFiniteSet(P \cap 1..x) /\ Cardinality(P \cap 1..x) \in Nat
                        /\ Cardinality(P \cap 1..x) <= Cardinality(P)
      /\ \A x, y \in P : x < y => Cardinality(P \cap 1..x) < Cardinality(P \cap 1..y)
  BY <1>2, <1>3, UpTo
<1>5. ASSUME NEW k \in P
      PROVE  Standing(P, k) \in 1..Cardinality(P)
  <2>1. k \in Nat /\ k \in P \cap 1..k
    BY <1>3
  <2>2. P \cap 1..k # {}
    BY <2>1
  <2>3. IsFiniteSet(P \cap 1..k) /\ Cardinality(P \cap 1..k) \in Nat
        /\ Cardinality(P \cap 1..k) <= Cardinality(P)
    BY <1>4, <2>1
  <2>4. Cardinality(P \cap 1..k) # 0
    BY <2>2, <2>3, FS_EmptySet
  <2>5. QED
    BY <1>2, <2>3, <2>4 DEF Standing
<1>6. ASSUME NEW j \in P, NEW k \in P, Standing(P, j) = Standing(P, k)
      PROVE  j = k
  <2>1. j \in Nat /\ k \in Nat
    BY <1>3
  <2>2. Standing(P, j) \in Nat /\ Standing(P, k) \in Nat
    BY <1>2, <1>5
  <2>3. ~(j < k) /\ ~(k < j)
    BY <1>4, <1>6, <2>2 DEF Standing
  <2>4. QED
    BY <2>1, <2>3
<1>7. ASSUME NEW n \in 1..Cardinality(P)
      PROVE  \E k \in P : Standing(P, k) = n
  BY <1>1, <1>2, <1>7, Nth DEF Standing
<1>8. QED
  BY <1>2, <1>5, <1>6, <1>7

\* What is kept stands where it stands among what is kept.
LEMMA PickedIs ==
    ASSUME NEW N \in Nat, NEW P, NEW list, \A k \in P : k \in 1..N
    PROVE  /\ DOMAIN Picked(list, P) = 1..Cardinality(P)
           /\ \A k \in P : Picked(list, P)[Standing(P, k)] = list[k]
<1>1. /\ \A k \in P : Standing(P, k) \in 1..Cardinality(P)
      /\ \A j, k \in P : Standing(P, j) = Standing(P, k) => j = k
  BY StandingIs
<1>2. DOMAIN Picked(list, P) = 1..Cardinality(P)
  BY DEF Picked
<1>3. ASSUME NEW k \in P
      PROVE  Picked(list, P)[Standing(P, k)] = list[k]
  <2> DEFINE n == Standing(P, k)
             c == CHOOSE j \in P : Standing(P, j) = n
  <2>1. c \in P /\ Standing(P, c) = n
    BY <1>3
  <2>2. c = k
    BY <1>1, <1>3, <2>1
  <2>3. Picked(list, P)[n] = list[CHOOSE j \in P : Cardinality(P \cap 1..j) = n]
    BY <1>1, <1>3 DEF Picked
  <2>4. (CHOOSE j \in P : Cardinality(P \cap 1..j) = n) = c
    BY DEF Standing
  <2>5. QED
    BY <2>2, <2>3, <2>4
<1>4. QED
  BY <1>2, <1>3

\* f pairs the elements of two sets.
Pairs(f, S, T) ==
    /\ \A k \in S : f[k] \in T
    /\ \A j, k \in S : f[j] = f[k] => j = k
    /\ \A t \in T : \E k \in S : f[k] = t

\* They are as many.
LEMMA AsMany ==
    ASSUME NEW f, NEW S, NEW T, Pairs(f, S, T), IsFiniteSet(S)
    PROVE  IsFiniteSet(T) /\ Cardinality(T) = Cardinality(S)
<1> DEFINE g == [k \in S |-> f[k]]
<1>1. /\ g \in [S -> T]
      /\ \A j, k \in S : g[j] = g[k] => j = k
      /\ \A t \in T : \E k \in S : g[k] = t
  BY DEF Pairs
<1> HIDE DEF g
<1>2. g \in Bijection(S, T)
  BY <1>1, Fun_IsBij
<1>3. ExistsBijection(S, T)
  BY <1>2, Fun_ExistsBij
<1>4. QED
  BY <1>3, FS_Bijection

\* f takes the entries that one filter keeps, in their order, to those of another.
Carries(f, a, P, N, b, Q, M) ==
    /\ N \in Nat /\ \A k \in P : k \in 1..N
    /\ M \in Nat /\ \A q \in Q : q \in 1..M
    /\ \A k \in P : f[k] \in Q /\ b[f[k]] = a[k]
    /\ \A j, k \in P : j < k => f[j] < f[k]
    /\ \A q \in Q : \E k \in P : f[k] = q

\* Then both make the same of it.
LEMMA PickedAlike ==
    ASSUME NEW f, NEW a, NEW P, NEW N, NEW b, NEW Q, NEW M, Carries(f, a, P, N, b, Q, M)
    PROVE  Picked(a, P) = Picked(b, Q)
<1>0. /\ N \in Nat /\ \A k \in P : k \in 1..N
      /\ M \in Nat /\ \A q \in Q : q \in 1..M
      /\ \A k \in P : f[k] \in Q /\ b[f[k]] = a[k]
      /\ \A j, k \in P : j < k => f[j] < f[k]
      /\ \A q \in Q : \E k \in P : f[k] = q
  BY DEF Carries
<1>1. /\ IsFiniteSet(P) /\ Cardinality(P) \in Nat
      /\ \A n \in 1..Cardinality(P) : \E k \in P : Standing(P, k) = n
  BY <1>0, StandingIs
<1>2. \A j, k \in P : /\ j \in Nat /\ k \in Nat /\ f[j] \in Nat /\ f[k] \in Nat
                      /\ f[j] = f[k] => j = k
                      /\ f[j] <= f[k] <=> j <= k
  <2> TAKE j, k \in P
  <2>1. j \in Nat /\ k \in Nat /\ f[j] \in Nat /\ f[k] \in Nat
    BY <1>0
  <2>2. (j < k => f[j] < f[k]) /\ (k < j => f[k] < f[j])
    BY <1>0
  <2>3. QED
    BY <2>1, <2>2
<1>3. Cardinality(Q) = Cardinality(P)
  <2>1. Pairs(f, P, Q)
    BY <1>0, <1>2 DEF Pairs
  <2>2. QED
    BY <1>1, <2>1, AsMany
<1>4. ASSUME NEW k \in P
      PROVE  Standing(Q, f[k]) = Standing(P, k)
  <2> DEFINE S == P \cap 1..k
             T == Q \cap 1..f[k]
  <2>1. IsFiniteSet(S)
    <3>1. S \in SUBSET P
      OBVIOUS
    <3>2. QED
      BY <1>1, <3>1, FS_Subset
  <2>2. \A j \in P : j \in S <=> j <= k
    BY <1>0, <1>2
  <2>3. \A q \in Q : q \in T <=> q <= f[k]
    BY <1>0, <1>2
  <2>4. S \subseteq P /\ T \subseteq Q
    OBVIOUS
  <2> HIDE DEF S, T
  <2>5. \A j \in S : f[j] \in T
    BY <1>0, <1>2, <2>2, <2>3, <2>4
  <2>6. \A i, j \in S : f[i] = f[j] => i = j
    BY <1>2, <2>4
  <2>7. \A t \in T : \E j \in S : f[j] = t
    BY <1>0, <1>2, <2>2, <2>3, <2>4
  <2>8. Cardinality(T) = Cardinality(S)
    <3>1. Pairs(f, S, T)
      BY <2>5, <2>6, <2>7 DEF Pairs
    <3>2. QED
      BY <2>1, <3>1, AsMany
  <2>9. QED
    BY <2>8 DEF S, T, Standing
<1>5. ASSUME NEW n \in 1..Cardinality(P)
      PROVE  Picked(a, P)[n] = Picked(b, Q)[n]
  <2>1. PICK k \in P : Standing(P, k) = n
    BY <1>1
  <2>2. Picked(a, P)[Standing(P, k)] = a[k]
    BY <1>0, PickedIs
  <2>3. \A q \in Q : Picked(b, Q)[Standing(Q, q)] = b[q]
    BY <1>0, PickedIs
  <2>4. QED
    BY <1>0, <1>4, <2>1, <2>2, <2>3
<1>6. DOMAIN Picked(a, P) = 1..Cardinality(P) /\ DOMAIN Picked(b, Q) = 1..Cardinality(P)
  BY <1>0, <1>3, PickedIs
<1>7. Picked(a, P) = [n \in DOMAIN Picked(a, P) |-> Picked(a, P)[n]]
      /\ Picked(b, Q) = [n \in DOMAIN Picked(b, Q) |-> Picked(b, Q)[n]]
  BY DEF Picked
<1>8. QED
  BY <1>5, <1>6, <1>7

\* At how many places of D a list has an entry of S.
HowMany(list, D, S) == Cardinality({ k \in D : list[k] \in S })

\* A filter keeps as many entries of a kind as there are.
LEMMA PickedCount ==
    ASSUME NEW N \in Nat, NEW P, NEW list, NEW S, \A k \in P : k \in 1..N
    PROVE  HowMany(Picked(list, P), 1..Cardinality(P), S) = HowMany(list, P, S)
<1>1. /\ IsFiniteSet(P) /\ Cardinality(P) \in Nat
      /\ \A k \in P : Standing(P, k) \in 1..Cardinality(P)
      /\ \A j, k \in P : Standing(P, j) = Standing(P, k) => j = k
      /\ \A n \in 1..Cardinality(P) : \E k \in P : Standing(P, k) = n
  BY StandingIs
<1>2. \A k \in P : Picked(list, P)[Standing(P, k)] = list[k]
  BY PickedIs
<1> DEFINE A == { k \in P : list[k] \in S }
           B == { n \in 1..Cardinality(P) : Picked(list, P)[n] \in S }
           f == [k \in P |-> Standing(P, k)]
<1>3. IsFiniteSet(A)
  <2>1. A \in SUBSET P
    OBVIOUS
  <2>2. QED
    BY <1>1, <2>1, FS_Subset
<1>4. /\ \A k \in A : f[k] \in B
      /\ \A j, k \in A : f[j] = f[k] => j = k
      /\ \A n \in B : \E k \in A : f[k] = n
  BY <1>1, <1>2
<1> HIDE DEF A, B, f
<1>5. Cardinality(B) = Cardinality(A)
  <2>1. Pairs(f, A, B)
    BY <1>4 DEF Pairs
  <2>2. QED
    BY <1>3, <2>1, AsMany
<1>6. QED
  BY <1>5 DEF A, B, HowMany

\* Lists with the same entries, each as often, are sorted alike.
LEMMA SortedAlike ==
    ASSUME NEW m \in Nat, NEW a, NEW b, DOMAIN a = 1..m, DOMAIN b = 1..m,
           \A i \in 1..m : \E j \in 1..m : b[j] = a[i],
           \A j \in 1..m : \E i \in 1..m : a[i] = b[j],
           \A i \in 1..m :
               /\ Cardinality({ k \in 1..m : a[k] < a[i] }) = Cardinality({ k \in 1..m : b[k] < a[i] })
               /\ Cardinality({ k \in 1..m : a[k] <= a[i] }) = Cardinality({ k \in 1..m : b[k] <= a[i] })
    PROVE  Sorted(a) = Sorted(b) /\ DOMAIN Sorted(a) = 1..m
<1> DEFINE V == { a[i] : i \in 1..m }
           Low(v) == Cardinality({ k \in 1..m : a[k] < v })
           High(v) == Cardinality({ k \in 1..m : a[k] <= v })
           low(v) == Cardinality({ k \in 1..m : b[k] < v })
           high(v) == Cardinality({ k \in 1..m : b[k] <= v })
<1> DEFINE W == { b[j] : j \in 1..m }
<1>1. V = W
  <2>1. \A v : v \in V <=> v \in W
    OBVIOUS
  <2>2. QED
    BY <2>1
<1>2. ASSUME NEW v \in V
      PROVE  Low(v) = low(v) /\ High(v) = high(v)
  <2>1. PICK i \in 1..m : v = a[i]
    OBVIOUS
  <2>2. QED
    BY <2>1
<1>3. Sorted(a) = [k \in 1..m |-> CHOOSE v \in V : Low(v) < k /\ k <= High(v)]
  BY DEF Sorted
<1>4. Sorted(b) = [k \in 1..m |-> CHOOSE v \in W : low(v) < k /\ k <= high(v)]
  BY DEF Sorted
<1> HIDE DEF V, W, Low, High, low, high
<1>5. \A k : (CHOOSE v \in V : Low(v) < k /\ k <= High(v)) = (CHOOSE v \in W : low(v) < k /\ k <= high(v))
  BY <1>1, <1>2
<1>6. QED
  BY <1>3, <1>4, <1>5

--------------------------------------------------------------------------------
(* A list with one entry more, one entry behind, or two that change places. *)

\* A part of a list.
LEMMA PartIs ==
    ASSUME NEW X, NEW s \in Seq(X), NEW a \in Nat, NEW b \in Nat, a >= 1, b <= Len(s), a <= b + 1
    PROVE  /\ SubSeq(s, a, b) \in Seq(X) /\ Len(SubSeq(s, a, b)) = b + 1 - a
           /\ \A i \in 1..(b + 1 - a) : SubSeq(s, a, b)[i] = s[a + i - 1]
<1>1. a \in Int /\ b \in Int /\ Len(s) \in Nat
  BY LenProperties
<1>2. \A k \in a..b : k \in 1..Len(s)
  BY <1>1
<1>3. \A k \in a..b : s[k] \in X
  BY <1>2, ElementOfSeq
<1>4. /\ SubSeq(s, a, b) \in Seq(X)
      /\ Len(SubSeq(s, a, b)) = IF a <= b THEN b - a + 1 ELSE 0
      /\ \A i \in 1..(b - a + 1) : SubSeq(s, a, b)[i] = s[a + i - 1]
  BY <1>1, <1>3, SubSeqProperties
<1>5. b - a + 1 = b + 1 - a /\ (~(a <= b) => b + 1 - a = 0)
  BY <1>1
<1>6. QED
  BY <1>4, <1>5

\* What a list is with one more behind the first p.
HasPut(s, p, h, new) ==
    /\ Len(new) = Len(s) + 1
    /\ new[p + 1] = h
    /\ \A i \in 1..p : new[i] = s[i]
    /\ \A i \in (p + 1)..Len(s) : new[i + 1] = s[i]

\* It keeps the others in their order.
LEMMA InsertedAt ==
    ASSUME NEW X, NEW s \in Seq(X), NEW p \in Nat, NEW h \in X, p <= Len(s)
    PROVE  PutAt(s, p, h) \in Seq(X) /\ HasPut(s, p, h, PutAt(s, p, h))
<1> DEFINE new == PutAt(s, p, h)
<1>0. PICK q \in Nat, n \in Nat : q = p + 1 /\ n = Len(s) /\ p <= n
  BY LenProperties
<1> DEFINE low == SubSeq(s, 1, p)
           high == SubSeq(s, q, n)
<1>1. low \in Seq(X) /\ Len(low) = p /\ \A i \in 1..p : low[i] = s[i]
  <2>1. /\ SubSeq(s, 1, p) \in Seq(X) /\ Len(SubSeq(s, 1, p)) = p + 1 - 1
        /\ \A i \in 1..(p + 1 - 1) : SubSeq(s, 1, p)[i] = s[1 + i - 1]
    BY <1>0, PartIs
  <2>2. QED
    BY <2>1
<1>2. high \in Seq(X) /\ Len(high) = n - p /\ \A i \in 1..(n - p) : high[i] = s[p + i]
  <2>1. /\ SubSeq(s, q, n) \in Seq(X) /\ Len(SubSeq(s, q, n)) = n + 1 - q
        /\ \A i \in 1..(n + 1 - q) : SubSeq(s, q, n)[i] = s[q + i - 1]
    BY <1>0, PartIs
  <2>2. n + 1 - q = n - p /\ \A i \in 1..(n - p) : q + i - 1 = p + i
    BY <1>0
  <2>3. QED
    BY <2>1, <2>2
<1> HIDE DEF low, high
<1>3. <<h>> \in Seq(X) /\ Len(<<h>>) = 1 /\ <<h>>[1] = h
  OBVIOUS
<1>4. /\ low \o <<h>> \in Seq(X) /\ Len(low \o <<h>>) = p + 1
      /\ \A i \in 1..p : (low \o <<h>>)[i] = s[i]
      /\ (low \o <<h>>)[q] = h
  <2>1. /\ low \o <<h>> \in Seq(X) /\ Len(low \o <<h>>) = Len(low) + Len(<<h>>)
        /\ \A i \in 1..(Len(low) + Len(<<h>>)) : (low \o <<h>>)[i] =
              IF i <= Len(low) THEN low[i] ELSE <<h>>[i - Len(low)]
    BY <1>1, <1>3, ConcatProperties
  <2>2. q \in 1..(p + 1) /\ ~(q <= p) /\ q - p = 1
    BY <1>0
  <2>3. \A i \in 1..p : i \in 1..(p + 1) /\ i <= p
    OBVIOUS
  <2>4. QED
    BY <1>1, <1>3, <2>1, <2>2, <2>3
<1> DEFINE front == low \o <<h>>
<1>5. /\ new = front \o high /\ front \in Seq(X) /\ Len(front) = p + 1
      /\ front[q] = h /\ \A i \in 1..p : front[i] = s[i]
  BY <1>0, <1>4 DEF low, high, PutAt
<1> HIDE DEF front, new
<1>6. /\ new \in Seq(X) /\ Len(new) = Len(front) + Len(high)
      /\ \A i \in 1..(Len(front) + Len(high)) : new[i] =
            IF i <= Len(front) THEN front[i] ELSE high[i - Len(front)]
  <2>1. PICK f \in Seq(X), g \in Seq(X) : f = front /\ g = high
    BY <1>2, <1>5
  <2>2. /\ f \o g \in Seq(X) /\ Len(f \o g) = Len(f) + Len(g)
        /\ \A i \in 1..(Len(f) + Len(g)) : (f \o g)[i] =
              IF i <= Len(f) THEN f[i] ELSE g[i - Len(f)]
    BY <2>1, ConcatProperties
  <2>3. new = f \o g
    BY <1>5, <2>1
  <2>4. QED
    BY <2>1, <2>2, <2>3
<1>7. Len(front) + Len(high) = n + 1 /\ p + 1 + (n - p) = n + 1
  BY <1>0, <1>2, <1>5
<1>8. /\ Len(new) = n + 1
      /\ \A i \in 1..(n + 1) : new[i] = IF i <= p + 1 THEN front[i] ELSE high[i - (p + 1)]
  BY <1>5, <1>6, <1>7
<1>9. new[q] = h /\ \A i \in 1..p : new[i] = s[i]
  <2>1. q \in 1..(n + 1) /\ q <= p + 1
    BY <1>0
  <2>2. \A i \in 1..p : i \in 1..(n + 1) /\ i <= p + 1
    BY <1>0
  <2>3. QED
    BY <1>5, <1>8, <2>1, <2>2
<1>10. \A i \in q..n : new[i + 1] = s[i]
  <2> TAKE i \in q..n
  <2>1. /\ i + 1 \in 1..(n + 1) /\ ~(i + 1 <= p + 1)
        /\ i + 1 - (p + 1) = i - p /\ i - p \in 1..(n - p) /\ p + (i - p) = i
    BY <1>0
  <2>2. new[i + 1] = high[i - p]
    <3>1. new[i + 1] = IF i + 1 <= p + 1 THEN front[i + 1] ELSE high[(i + 1) - (p + 1)]
      BY <1>8, <2>1
    <3>2. new[i + 1] = high[(i + 1) - (p + 1)]
      BY <2>1, <3>1
    <3>3. (i + 1) - (p + 1) = i - p
      BY <2>1
    <3>4. QED
      BY <3>2, <3>3
  <2>3. high[i - p] = s[p + (i - p)]
    BY <1>2, <2>1
  <2>4. QED
    BY <2>1, <2>2, <2>3
<1>11. QED
  BY <1>0, <1>6, <1>8, <1>9, <1>10 DEF HasPut, new

\* A list with one more at its end.
LEMMA AppendedAt ==
    ASSUME NEW X, NEW s \in Seq(X), NEW h \in X
    PROVE  Append(s, h) \in Seq(X) /\ HasPut(s, Len(s), h, Append(s, h))
<1>1. Len(s) \in Nat
  BY LenProperties
<1>2. /\ Append(s, h) \in Seq(X) /\ Len(Append(s, h)) = Len(s) + 1
      /\ \A i \in 1..Len(s) : Append(s, h)[i] = s[i]
      /\ Append(s, h)[Len(s) + 1] = h
  BY AppendProperties
<1>3. (Len(s) + 1)..Len(s) = {}
  BY <1>1
<1>4. QED
  BY <1>2, <1>3 DEF HasPut

\* Two neighbours that change places.
LEMMA SwappedAt ==
    ASSUME NEW X, NEW s \in Seq(X), NEW k \in Nat, k >= 1, k < Len(s)
    PROVE  /\ Swap(s, k) \in Seq(X) /\ Len(Swap(s, k)) = Len(s)
           /\ Swap(s, k)[k] = s[k + 1] /\ Swap(s, k)[k + 1] = s[k]
           /\ \A i \in 1..Len(s) : i # k /\ i # k + 1 => Swap(s, k)[i] = s[i]
<1>1. Len(s) \in Nat /\ k \in 1..Len(s) /\ k + 1 \in 1..Len(s) /\ k # k + 1
  BY LenProperties
<1>2. s[k] \in X /\ s[k + 1] \in X
  BY <1>1, ElementOfSeq
<1> DEFINE t == [s EXCEPT ![k] = s[k + 1]]
<1>3. t \in Seq(X) /\ Len(t) = Len(s) /\ \A i \in 1..Len(s) : t[i] = IF i = k THEN s[k + 1] ELSE s[i]
  BY <1>1, <1>2, ExceptSeq
<1>4. k + 1 \in 1..Len(t)
  BY <1>1, <1>3
<1> DEFINE u == [t EXCEPT ![k + 1] = s[k]]
<1>5. Swap(s, k) = u
  BY DEF Swap
<1> HIDE DEF t
<1>6. u \in Seq(X) /\ Len(u) = Len(t) /\ \A i \in 1..Len(t) : u[i] = IF i = k + 1 THEN s[k] ELSE t[i]
  BY <1>2, <1>3, <1>4, ExceptSeq
<1> HIDE DEF u
<1>7. QED
  BY <1>1, <1>3, <1>5, <1>6

--------------------------------------------------------------------------------
(* What filters make of them. *)

\* The entries of a list that a filter keeps.
Kept(list, K) == { k \in DOMAIN list : list[k] \in K }

\* Places of a list, and as many of them as one may count.
LEMMA KeptAre ==
    ASSUME NEW X, NEW list \in Seq(X), NEW K
    PROVE  /\ Len(list) \in Nat
           /\ \A k : k \in Kept(list, K) <=> k \in 1..Len(list) /\ list[k] \in K
           /\ \A k \in Kept(list, K) : k \in 1..Len(list)
           /\ IsFiniteSet(Kept(list, K)) /\ Cardinality(Kept(list, K)) \in Nat
<1>1. Len(list) \in Nat /\ DOMAIN list = 1..Len(list)
  BY LenProperties
<1>2. /\ \A k : k \in Kept(list, K) <=> k \in 1..Len(list) /\ list[k] \in K
      /\ \A k \in Kept(list, K) : k \in 1..Len(list)
  BY <1>1 DEF Kept
<1>3. IsFiniteSet(Kept(list, K)) /\ Cardinality(Kept(list, K)) \in Nat
  BY <1>1, <1>2, StandingIs
<1>4. QED
  BY <1>1, <1>2, <1>3

\* As many as are kept make the filtered list.
LEMMA PickedLength ==
    ASSUME NEW X, NEW list \in Seq(X), NEW K
    PROVE  /\ Picked(list, Kept(list, K)) \in Seq(X)
           /\ Len(Picked(list, Kept(list, K))) = Cardinality(Kept(list, K))
           /\ DOMAIN Picked(list, Kept(list, K)) = 1..Cardinality(Kept(list, K))
<1> DEFINE P == Kept(list, K)
           p == Picked(list, P)
           m == Cardinality(P)
<1>1. /\ Len(list) \in Nat /\ m \in Nat
      /\ \A k \in P : k \in 1..Len(list)
  BY KeptAre
<1>2. \A k \in P : list[k] \in X
  BY <1>1, ElementOfSeq
<1> HIDE DEF P
<1>3. /\ DOMAIN p = 1..m
      /\ \A k \in P : p[Standing(P, k)] = list[k]
  BY <1>1, PickedIs
<1>4. \A n \in 1..m : \E k \in P : Standing(P, k) = n
  BY <1>1, StandingIs
<1>5. \A n \in 1..m : p[n] \in X
  BY <1>2, <1>3, <1>4
<1>6. p = [n \in 1..m |-> p[n]]
  BY <1>3 DEF Picked
<1> HIDE DEF p, m
<1>7. p \in [1..m -> X]
  BY <1>5, <1>6
<1>8. p \in Seq(X)
  BY <1>1, <1>7, SeqDef
<1>9. Len(p) = m
  BY <1>1, <1>3, <1>8, LenProperties
<1>10. QED
  BY <1>3, <1>8, <1>9 DEF p, m, P

\* An entry that is not kept leaves no trace, wherever it comes.
LEMMA DroppedUnseen ==
    ASSUME NEW X, NEW s \in Seq(X), NEW p \in Nat, p <= Len(s), NEW h \in X,
           NEW new \in Seq(X), HasPut(s, p, h, new), NEW K, h \notin K
    PROVE  Picked(new, Kept(new, K)) = Picked(s, Kept(s, K))
<1> DEFINE P == Kept(s, K)
           Q == Kept(new, K)
           f == [i \in 1..Len(s) |-> IF i <= p THEN i ELSE i + 1]
<1>1. /\ Len(s) \in Nat /\ Len(new) = Len(s) + 1 /\ Len(new) \in Nat
      /\ new[p + 1] = h
      /\ \A i \in 1..Len(s) : new[f[i]] = s[i]
      /\ \A i \in 1..Len(s) : f[i] \in 1..Len(new)
      /\ \A i, j \in 1..Len(s) : i < j => f[i] < f[j]
      /\ \A q \in 1..Len(new) : q # p + 1 => \E i \in 1..Len(s) : f[i] = q
  <2>1. /\ Len(s) \in Nat /\ Len(new) = Len(s) + 1 /\ Len(new) \in Nat
        /\ new[p + 1] = h
        /\ \A i \in 1..p : new[i] = s[i]
        /\ \A i \in (p + 1)..Len(s) : new[i + 1] = s[i]
    BY LenProperties DEF HasPut
  <2>2. ASSUME NEW i \in 1..Len(s)
        PROVE  new[f[i]] = s[i] /\ f[i] \in 1..Len(new)
    <3>1. CASE i <= p
      BY <2>1, <3>1
    <3>2. CASE ~(i <= p)
      <4>1. i \in (p + 1)..Len(s) /\ f[i] = i + 1
        BY <2>1, <3>2
      <4>2. QED
        BY <2>1, <4>1
    <3>3. QED
      BY <3>1, <3>2
  <2>3. \A i, j \in 1..Len(s) : i < j => f[i] < f[j]
    BY <2>1
  <2>4. ASSUME NEW q \in 1..Len(new), q # p + 1
        PROVE  \E i \in 1..Len(s) : f[i] = q
    <3>1. CASE q <= p
      <4>1. q \in 1..Len(s) /\ f[q] = q
        BY <2>1, <3>1
      <4>2. QED
        BY <4>1
    <3>2. CASE ~(q <= p)
      <4>1. q - 1 \in 1..Len(s) /\ ~(q - 1 <= p) /\ q - 1 + 1 = q
        BY <2>1, <2>4, <3>2
      <4>2. f[q - 1] = q
        BY <4>1
      <4>3. QED
        BY <4>1, <4>2
    <3>3. QED
      BY <3>1, <3>2
  <2>5. QED
    BY <2>1, <2>2, <2>3, <2>4
<1>2. /\ \A k : k \in P <=> k \in 1..Len(s) /\ s[k] \in K
      /\ \A k : k \in Q <=> k \in 1..Len(new) /\ new[k] \in K
  <2>1. \A k : k \in P <=> k \in 1..Len(s) /\ s[k] \in K
    BY KeptAre
  <2>2. \A k : k \in Q <=> k \in 1..Len(new) /\ new[k] \in K
    BY KeptAre
  <2>3. QED
    BY <2>1, <2>2
<1> HIDE DEF P, Q, f
<1>3. /\ \A k \in P : k \in 1..Len(s)
      /\ \A q \in Q : q \in 1..Len(new)
      /\ \A k \in P : f[k] \in Q /\ new[f[k]] = s[k]
      /\ \A j, k \in P : j < k => f[j] < f[k]
  BY <1>1, <1>2
<1>4. \A q \in Q : \E k \in P : f[k] = q
  BY <1>1, <1>2
<1>5. Carries(f, s, P, Len(s), new, Q, Len(new))
  BY <1>1, <1>3, <1>4 DEF Carries
<1>6. Picked(s, P) = Picked(new, Q)
  BY <1>5, PickedAlike
<1>7. QED
  BY <1>6 DEF P, Q

\* One that is kept at the end makes one more.
LEMMA KeptSeen ==
    ASSUME NEW X, NEW s \in Seq(X), NEW h, NEW new \in Seq(X), HasPut(s, Len(s), h, new),
           NEW K, h \in K
    PROVE  Cardinality(Kept(new, K)) = Cardinality(Kept(s, K)) + 1
<1> DEFINE P == Kept(s, K)
           Q == Kept(new, K)
           m == Len(s) + 1
<1>1. /\ Len(s) \in Nat /\ m \in Nat /\ Len(new) = m
      /\ new[m] = h /\ \A i \in 1..Len(s) : new[i] = s[i]
  BY LenProperties DEF HasPut
<1>2. /\ \A k : k \in P <=> k \in 1..Len(s) /\ s[k] \in K
      /\ IsFiniteSet(P)
  BY KeptAre
<1>3. \A k : k \in Q <=> k \in 1..Len(new) /\ new[k] \in K
  BY KeptAre
<1> HIDE DEF P, Q
<1>4. \A k : k \in 1..m <=> k \in 1..Len(s) \/ k = m
  BY <1>1
<1>5. \A k : k \in Q <=> k \in P \/ k = m
  BY <1>1, <1>2, <1>3, <1>4
<1>6. Q = P \cup {m} /\ m \notin P
  <2>1. m \notin 1..Len(s)
    BY <1>1
  <2> HIDE DEF m
  <2>2. QED
    BY <1>2, <1>5, <2>1
<1>7. Cardinality(P \cup {m}) = Cardinality(P) + 1
  BY <1>2, <1>6, FS_AddElement
<1>8. QED
  BY <1>6, <1>7 DEF P, Q

--------------------------------------------------------------------------------
(* What a filter and a sort make of a list in another order. *)

\* f takes each entry of a list to where it is in another list of the same length.
Rearranges(f, s, new) ==
    /\ Pairs(f, 1..Len(s), 1..Len(new))
    /\ Len(new) = Len(s)
    /\ \A i \in 1..Len(s) : new[f[i]] = s[i]

\* It takes what is kept to what is kept.
LEMMA KeptAlike ==
    ASSUME NEW X, NEW s \in Seq(X), NEW new \in Seq(X), NEW f, Rearranges(f, s, new), NEW K
    PROVE  /\ Pairs(f, Kept(s, K), Kept(new, K))
           /\ \A k \in Kept(s, K) : new[f[k]] = s[k]
           /\ Cardinality(Kept(new, K)) = Cardinality(Kept(s, K))
<1> DEFINE P == Kept(s, K)
           Q == Kept(new, K)
<1>1. /\ \A k : k \in P <=> k \in 1..Len(s) /\ s[k] \in K
      /\ IsFiniteSet(P)
  BY KeptAre
<1>2. \A k : k \in Q <=> k \in 1..Len(new) /\ new[k] \in K
  BY KeptAre
<1> HIDE DEF P, Q
<1>3. /\ \A i \in 1..Len(s) : f[i] \in 1..Len(new) /\ new[f[i]] = s[i]
      /\ \A i, j \in 1..Len(s) : f[i] = f[j] => i = j
      /\ \A q \in 1..Len(new) : \E i \in 1..Len(s) : f[i] = q
  BY DEF Rearranges, Pairs
<1>4. Pairs(f, P, Q)
  <2>1. \A k \in P : f[k] \in Q
    BY <1>1, <1>2, <1>3
  <2>2. \A j, k \in P : f[j] = f[k] => j = k
    BY <1>1, <1>3
  <2>3. \A q \in Q : \E k \in P : f[k] = q
    BY <1>1, <1>2, <1>3
  <2>4. QED
    BY <2>1, <2>2, <2>3 DEF Pairs
<1>5. Cardinality(Q) = Cardinality(P)
  BY <1>1, <1>4, AsMany
<1>6. \A k \in P : new[f[k]] = s[k]
  BY <1>1, <1>3
<1>7. QED
  BY <1>4, <1>5, <1>6 DEF P, Q

\* Of a kind, as many are kept.
LEMMA CountAlike ==
    ASSUME NEW X, NEW s \in Seq(X), NEW new \in Seq(X), NEW f, Rearranges(f, s, new),
           NEW K, NEW S, NEW m, m = Cardinality(Kept(s, K))
    PROVE  HowMany(Picked(s, Kept(s, K)), 1..m, S) = HowMany(Picked(new, Kept(new, K)), 1..m, S)
<1> DEFINE P == Kept(s, K)
           Q == Kept(new, K)
           A == { k \in P : s[k] \in S }
           B == { k \in Q : new[k] \in S }
<1>1. /\ Pairs(f, P, Q) /\ \A k \in P : new[f[k]] = s[k]
      /\ Cardinality(Q) = m /\ Cardinality(P) = m
  BY KeptAlike
<1>2. /\ IsFiniteSet(P) /\ Len(s) \in Nat /\ Len(new) \in Nat
      /\ \A k \in P : k \in 1..Len(s)
      /\ \A q \in Q : q \in 1..Len(new)
  <2>1. IsFiniteSet(P) /\ Len(s) \in Nat /\ \A k \in P : k \in 1..Len(s)
    BY KeptAre
  <2>2. Len(new) \in Nat /\ \A q \in Q : q \in 1..Len(new)
    BY KeptAre
  <2>3. QED
    BY <2>1, <2>2
<1> HIDE DEF P, Q
<1>3. HowMany(s, P, S) = HowMany(new, Q, S)
  <2>1. /\ \A k \in P : f[k] \in Q
        /\ \A j, k \in P : f[j] = f[k] => j = k
        /\ \A q \in Q : \E k \in P : f[k] = q
    BY <1>1 DEF Pairs
  <2>2. Pairs(f, A, B)
    BY <1>1, <2>1 DEF Pairs
  <2>3. A \in SUBSET P
    OBVIOUS
  <2>4. IsFiniteSet(A)
    BY <1>2, <2>3, FS_Subset
  <2> HIDE DEF A, B
  <2>5. Cardinality(A) = Cardinality(B)
    BY <2>2, <2>4, AsMany
  <2>6. QED
    BY <2>5 DEF A, B, HowMany
<1>4. HowMany(Picked(s, P), 1..Cardinality(P), S) = HowMany(s, P, S)
  <2>1. PICK N \in Nat : N = Len(s)
    BY <1>2
  <2>2. \A k \in P : k \in 1..N
    BY <1>2, <2>1
  <2>3. QED
    BY <2>2, PickedCount
<1>5. HowMany(Picked(new, Q), 1..Cardinality(Q), S) = HowMany(new, Q, S)
  <2>1. PICK N \in Nat : N = Len(new)
    BY <1>2
  <2>2. \A k \in Q : k \in 1..N
    BY <1>2, <2>1
  <2>3. QED
    BY <2>2, PickedCount
<1>6. QED
  BY <1>1, <1>3, <1>4, <1>5 DEF P, Q

\* Sorted, what is kept is the same.
LEMMA RearrangedAlike ==
    ASSUME NEW s \in Seq(Codepoint), NEW new \in Seq(Codepoint), NEW f, Rearranges(f, s, new),
           NEW K
    PROVE  /\ Sorted(Picked(s, Kept(s, K))) = Sorted(Picked(new, Kept(new, K)))
           /\ Len(Picked(s, Kept(s, K))) = Len(Picked(new, Kept(new, K)))
<1> DEFINE P == Kept(s, K)
           Q == Kept(new, K)
           a == Picked(s, P)
           b == Picked(new, Q)
           m == Cardinality(P)
<1>1. /\ Pairs(f, P, Q) /\ \A k \in P : new[f[k]] = s[k]
      /\ Cardinality(Q) = m
  BY KeptAlike
<1>2. a \in Seq(Codepoint) /\ Len(a) = m /\ DOMAIN a = 1..m /\ m \in Nat
  BY PickedLength, KeptAre
<1>3. b \in Seq(Codepoint) /\ Len(b) = m /\ DOMAIN b = 1..m
  BY <1>1, PickedLength
<1>4. /\ Len(s) \in Nat /\ Len(new) \in Nat
      /\ \A k \in P : k \in 1..Len(s)
      /\ \A q \in Q : q \in 1..Len(new)
  <2>1. Len(s) \in Nat /\ \A k \in P : k \in 1..Len(s)
    BY KeptAre
  <2>2. Len(new) \in Nat /\ \A q \in Q : q \in 1..Len(new)
    BY KeptAre
  <2>3. QED
    BY <2>1, <2>2
<1> HIDE DEF P, Q
<1>5. /\ \A n \in 1..m : \E k \in P : a[n] = s[k]
      /\ \A k \in P : \E n \in 1..m : a[n] = s[k]
  <2>1. PICK N \in Nat : N = Len(s)
    BY <1>4
  <2>2. \A k \in P : k \in 1..N
    BY <1>4, <2>1
  <2>3. \A k \in P : a[Standing(P, k)] = s[k]
    BY <2>2, PickedIs
  <2>4. /\ \A k \in P : Standing(P, k) \in 1..m
        /\ \A n \in 1..m : \E k \in P : Standing(P, k) = n
    BY <2>2, StandingIs
  <2> HIDE DEF a, m
  <2>5. QED
    BY <2>3, <2>4
<1>6. /\ \A n \in 1..m : \E k \in Q : b[n] = new[k]
      /\ \A k \in Q : \E n \in 1..m : b[n] = new[k]
  <2>1. PICK N \in Nat : N = Len(new)
    BY <1>4
  <2>2. \A k \in Q : k \in 1..N
    BY <1>4, <2>1
  <2>3. \A k \in Q : b[Standing(Q, k)] = new[k]
    BY <2>2, PickedIs
  <2>4. /\ \A k \in Q : Standing(Q, k) \in 1..Cardinality(Q)
        /\ \A n \in 1..Cardinality(Q) : \E k \in Q : Standing(Q, k) = n
    BY <2>2, StandingIs
  <2> HIDE DEF b
  <2>5. QED
    BY <1>1, <2>3, <2>4
<1>7. /\ \A k \in P : f[k] \in Q
      /\ \A q \in Q : \E k \in P : f[k] = q
  BY <1>1 DEF Pairs
<1>8. \A S : HowMany(a, 1..m, S) = HowMany(b, 1..m, S)
  BY CountAlike DEF P, Q
<1> HIDE DEF a, b, m
<1>9. ASSUME NEW i \in 1..m
      PROVE  \E j \in 1..m : b[j] = a[i]
  <2>1. PICK k \in P : a[i] = s[k]
    BY <1>5
  <2>2. f[k] \in Q /\ new[f[k]] = s[k]
    BY <1>1, <1>7
  <2>3. QED
    BY <1>6, <2>1, <2>2
<1>10. ASSUME NEW j \in 1..m
       PROVE  \E i \in 1..m : a[i] = b[j]
  <2>1. PICK q \in Q : b[j] = new[q]
    BY <1>6
  <2>2. PICK k \in P : f[k] = q
    BY <1>7
  <2>3. new[f[k]] = s[k]
    BY <1>1
  <2>4. QED
    BY <1>5, <2>1, <2>2, <2>3
<1>11. \A n \in 1..m : a[n] \in Codepoint /\ b[n] \in Codepoint
  BY <1>2, <1>3, ElementOfSeq
<1>12. ASSUME NEW i \in 1..m
       PROVE  /\ Cardinality({ k \in 1..m : a[k] < a[i] }) = Cardinality({ k \in 1..m : b[k] < a[i] })
              /\ Cardinality({ k \in 1..m : a[k] <= a[i] }) = Cardinality({ k \in 1..m : b[k] <= a[i] })
  <2> DEFINE S == { x \in Codepoint : x < a[i] }
             T == { x \in Codepoint : x <= a[i] }
  <2>1. \A n \in 1..m : /\ a[n] \in S <=> a[n] < a[i]
                        /\ b[n] \in S <=> b[n] < a[i]
                        /\ a[n] \in T <=> a[n] <= a[i]
                        /\ b[n] \in T <=> b[n] <= a[i]
    BY <1>11
  <2> HIDE DEF S, T
  <2>2. /\ { k \in 1..m : a[k] < a[i] } = { n \in 1..m : a[n] \in S }
        /\ { k \in 1..m : b[k] < a[i] } = { n \in 1..m : b[n] \in S }
        /\ { k \in 1..m : a[k] <= a[i] } = { n \in 1..m : a[n] \in T }
        /\ { k \in 1..m : b[k] <= a[i] } = { n \in 1..m : b[n] \in T }
    BY <2>1
  <2>3. HowMany(a, 1..m, S) = HowMany(b, 1..m, S) /\ HowMany(a, 1..m, T) = HowMany(b, 1..m, T)
    BY <1>8
  <2>4. QED
    BY <2>2, <2>3 DEF HowMany
<1>13. Sorted(a) = Sorted(b)
  BY <1>2, <1>3, <1>9, <1>10, <1>12, SortedAlike
<1>14. QED
  BY <1>2, <1>3, <1>13 DEF a, b, P, Q

\* Two neighbours that change places rearrange a list.
LEMMA SwapRearranges ==
    ASSUME NEW X, NEW s \in Seq(X), NEW k \in Nat, k >= 1, k < Len(s)
    PROVE  \E f : Rearranges(f, s, Swap(s, k))
<1> DEFINE new == Swap(s, k)
           f == [i \in 1..Len(s) |-> IF i = k THEN k + 1 ELSE IF i = k + 1 THEN k ELSE i]
<1>1. Len(s) \in Nat /\ k \in 1..Len(s) /\ k + 1 \in 1..Len(s) /\ k # k + 1
  BY LenProperties
<1>2. /\ Len(new) = Len(s)
      /\ new[k] = s[k + 1] /\ new[k + 1] = s[k]
      /\ \A i \in 1..Len(s) : i # k /\ i # k + 1 => new[i] = s[i]
  BY SwappedAt
<1> HIDE DEF new
<1>3. /\ f[k] = k + 1 /\ f[k + 1] = k
      /\ \A i \in 1..Len(s) : i # k /\ i # k + 1 => f[i] = i
  BY <1>1
<1> HIDE DEF f
<1>4. \A i \in 1..Len(s) : f[i] \in 1..Len(s) /\ f[f[i]] = i /\ new[f[i]] = s[i]
  BY <1>1, <1>2, <1>3
<1>5. Pairs(f, 1..Len(s), 1..Len(new))
  BY <1>2, <1>4 DEF Pairs
<1>6. QED
  BY <1>2, <1>4, <1>5 DEF Rearranges, new

--------------------------------------------------------------------------------
(* Codepoints. *)

\* What the filters keep.
Plain == { v \in Codepoint : ~IsGrease(v) }

\* GREASE is what RFC 8701 reserves.
LEMMA GreaseIsReserved ==
    ASSUME NEW v \in Codepoint
    PROVE  IsGrease(v) <=> v \in Reserved
<1>1. ASSUME IsGrease(v)
      PROVE  v \in Reserved
  <2>0. v % 256 \in 0..255
    <3>1. v \in Nat
      BY DEF Codepoint
    <3>2. v % 256 \in Int /\ 0 <= v % 256 /\ v % 256 < 256
      BY <3>1
    <3>3. QED
      BY <3>2
  <2>1. PICK r \in 0..255 : r = v % 256
    BY <2>0
  <2>2. v = 256 * (v \div 256) + r /\ v \div 256 = r /\ r % 16 = 10
    BY <1>1, <2>1 DEF IsGrease, Codepoint
  <2>3. PICK n \in 0..15 : n = r \div 16
    BY <2>1
  <2>4. r = 16 * n + 10
    BY <2>1, <2>2, <2>3
  <2>5. v = 257 * (16 * n + 10)
    BY <2>2, <2>4
  <2>6. QED
    BY <2>3, <2>5 DEF Reserved
<1>2. ASSUME v \in Reserved
      PROVE  IsGrease(v)
  <2>1. PICK n \in 0..15 : v = 257 * (16 * n + 10)
    BY <1>2 DEF Reserved
  <2>2. PICK r \in Nat : r = 16 * n + 10
    BY <2>1
  <2>3. r \in 0..255 /\ v = 256 * r + r
    BY <2>1, <2>2
  <2>4. v \div 256 = r /\ v % 256 = r
    BY <2>3
  <2>5. r % 16 = 10
    BY <2>1, <2>2
  <2>6. QED
    BY <2>4, <2>5 DEF IsGrease
<1>3. QED
  BY <1>1, <1>2

\* No accessor knows a codepoint of it.
LEMMA ReservedIsUnknown ==
    ASSUME NEW g \in Reserved
    PROVE  /\ g \in Codepoint /\ g \notin Plain
           /\ VersionFromWire(g) = "other"
           /\ ~IsPostQuantum(GroupFromWire(g))
           /\ g \notin \hfe08..\hfe0c
           /\ \A name \in DOMAIN Ext : g # Ext[name]
<1>1. PICK n \in 0..15 : g = 257 * (16 * n + 10)
  BY DEF Reserved
<1>2. g \in {2570, 6682, 10794, 14906, 19018, 23130, 27242, 31354, 35466, 39578, 43690,
             47802, 51914, 56026, 60138, 64250}
  BY <1>1
<1>3. g \in Codepoint
  BY <1>2 DEF Codepoint
<1>4. g \notin Plain
  BY <1>3, GreaseIsReserved DEF Plain
<1>5. VersionFromWire(g) = "other"
  BY <1>2 DEF VersionFromWire
<1>6. ~IsPostQuantum(GroupFromWire(g))
  <2>1. g \notin {\h0017, \h001d, \h11ec, \h1140, \h6399}
    BY <1>2
  <2>2. GroupFromWire(g) = "other"
    BY <2>1 DEF GroupFromWire
  <2>3. QED
    BY <2>2 DEF IsPostQuantum
<1>7. g \notin \hfe08..\hfe0c
  BY <1>2
<1>8. \A name \in DOMAIN Ext : g # Ext[name]
  BY <1>2 DEF Ext
<1>9. QED
  BY <1>3, <1>4, <1>5, <1>6, <1>7, <1>8

\* The filter of GREASE.
LEMMA NoGreaseIs ==
    ASSUME NEW list \in Seq(Codepoint)
    PROVE  NoGrease(list) = Picked(list, Kept(list, Plain))
<1>1. DOMAIN list = 1..Len(list) /\ \A k \in 1..Len(list) : list[k] \in Codepoint
  BY LenProperties, ElementOfSeq
<1>2. \A k \in DOMAIN list : list[k] \in Plain <=> ~IsGrease(list[k])
  BY <1>1 DEF Plain
<1>3. Kept(list, Plain) = { k \in DOMAIN list : ~IsGrease(list[k]) }
  BY <1>2 DEF Kept
<1>4. QED
  BY <1>3 DEF NoGrease

--------------------------------------------------------------------------------
(* Extensions and what a hello answers. *)

\* Their types in the order they come in.
Order(exts) == [k \in DOMAIN exts |-> exts[k].type]

\* One of them has this type and this value.
Finds(exts, type, value) ==
    \E k \in 1..Len(exts) : exts[k].type = type /\ exts[k].value = value

\* Extensions are a sequence, and their types a list of codepoints.
LEMMA ExtensionsAre ==
    ASSUME NEW exts, AreExtensions(exts)
    PROVE  /\ Len(exts) \in Nat /\ DOMAIN exts = 1..Len(exts)
           /\ exts \in Seq({ exts[k] : k \in 1..Len(exts) })
           /\ Order(exts) \in Seq(Codepoint) /\ Len(Order(exts)) = Len(exts)
           /\ \A k \in 1..Len(exts) : Order(exts)[k] = exts[k].type
<1> DEFINE n == Len(exts)
           S == { exts[k] : k \in 1..n }
<1>1. n \in Nat /\ exts = [k \in 1..n |-> exts[k]] /\ \A k \in 1..n : exts[k].type \in Codepoint
  BY DEF AreExtensions, IsExtension
<1>2. DOMAIN exts = 1..n /\ \A k \in 1..n : exts[k] \in S
  BY <1>1
<1> HIDE DEF n, S
<1>3. exts \in [1..n -> S]
  BY <1>1, <1>2
<1>4. exts \in Seq(S)
  BY <1>1, <1>3, SeqDef
<1>5. Order(exts) = [k \in 1..n |-> exts[k].type]
  BY <1>2 DEF Order
<1>6. Order(exts) \in [1..n -> Codepoint] /\ DOMAIN Order(exts) = 1..n
  BY <1>1, <1>5
<1>7. Order(exts) \in Seq(Codepoint)
  BY <1>1, <1>6, SeqDef
<1>8. Len(Order(exts)) = n
  BY <1>1, <1>6, <1>7, LenProperties
<1>9. QED
  BY <1>1, <1>2, <1>4, <1>5, <1>7, <1>8 DEF n, S

\* The answer of a hello is that of the one extension of its type.
LEMMA AnswerIs ==
    ASSUME NEW h, AreExtensions(h.exts), NEW t
    PROVE  /\ \A v : Finds(h.exts, t, v) => Has(h, t) /\ Answer(h, t) = v
           /\ Has(h, t) => Finds(h.exts, t, Answer(h, t))
           /\ ~Has(h, t) => Answer(h, t) = None
<1>1. /\ DOMAIN h.exts = 1..Len(h.exts)
      /\ \A j, k \in 1..Len(h.exts) : h.exts[j].type = h.exts[k].type => j = k
  BY ExtensionsAre DEF AreExtensions
<1>2. Has(h, t) <=> \E k \in 1..Len(h.exts) : h.exts[k].type = t
  BY <1>1 DEF Has
<1>3. ASSUME NEW k \in 1..Len(h.exts), h.exts[k].type = t
      PROVE  Answer(h, t) = h.exts[k].value
  <2> DEFINE c == CHOOSE i \in DOMAIN h.exts : h.exts[i].type = t
  <2>1. c \in 1..Len(h.exts) /\ h.exts[c].type = t
    BY <1>1, <1>3
  <2>2. c = k
    BY <1>1, <1>3, <2>1
  <2>3. Answer(h, t) = h.exts[c].value
    BY <1>2, <1>3 DEF Answer
  <2>4. QED
    BY <2>2, <2>3
<1>4. ~Has(h, t) => Answer(h, t) = None
  BY DEF Answer
<1>5. ASSUME NEW v, Finds(h.exts, t, v)
      PROVE  Has(h, t) /\ Answer(h, t) = v
  BY <1>2, <1>3, <1>5 DEF Finds
<1>6. Has(h, t) => Finds(h.exts, t, Answer(h, t))
  BY <1>2, <1>3 DEF Finds
<1>7. QED
  BY <1>4, <1>5, <1>6

\* Two hellos in which the same is found answer the same.
LEMMA SameAnswer ==
    ASSUME NEW h, AreExtensions(h.exts), NEW n, AreExtensions(n.exts), NEW t,
           \A v : Finds(n.exts, t, v) <=> Finds(h.exts, t, v)
    PROVE  (Has(n, t) <=> Has(h, t)) /\ Answer(n, t) = Answer(h, t)
<1>1. /\ \A v : Finds(h.exts, t, v) => Has(h, t) /\ Answer(h, t) = v
      /\ Has(h, t) => Finds(h.exts, t, Answer(h, t))
      /\ ~Has(h, t) => Answer(h, t) = None
  BY AnswerIs
<1>2. /\ \A v : Finds(n.exts, t, v) => Has(n, t) /\ Answer(n, t) = v
      /\ Has(n, t) => Finds(n.exts, t, Answer(n, t))
      /\ ~Has(n, t) => Answer(n, t) = None
  BY AnswerIs
<1>3. QED
  BY <1>1, <1>2

--------------------------------------------------------------------------------
(* What a change makes of the extensions. *)

\* A list of extensions, by its elements.
LEMMA ExtensionsFrom ==
    ASSUME NEW S, NEW exts \in Seq(S),
           \A k \in 1..Len(exts) : IsExtension(exts[k]),
           \A j, k \in 1..Len(exts) : exts[j].type = exts[k].type => j = k
    PROVE  AreExtensions(exts)
<1>1. Len(exts) \in Nat /\ exts \in [1..Len(exts) -> S]
  BY LenProperties
<1>2. exts = [k \in 1..Len(exts) |-> exts[k]]
  BY <1>1
<1>3. QED
  BY <1>1, <1>2 DEF AreExtensions

\* One more, of a type of its own.
LEMMA PutExtension ==
    ASSUME NEW x, NEW p \in Nat, NEW e, NEW S, NEW new \in Seq(S), HasPut(x, p, e, new),
           AreExtensions(x), p <= Len(x), IsExtension(e),
           \A k \in 1..Len(x) : x[k].type # e.type
    PROVE  /\ AreExtensions(new)
           /\ HasPut(Order(x), p, e.type, Order(new))
           /\ \A t, v : Finds(new, t, v) <=> Finds(x, t, v) \/ (t = e.type /\ v = e.value)
<1>1. /\ Len(x) \in Nat /\ Order(x) \in Seq(Codepoint) /\ Len(Order(x)) = Len(x)
      /\ \A k \in 1..Len(x) : Order(x)[k] = x[k].type
      /\ \A k \in 1..Len(x) : IsExtension(x[k])
      /\ \A j, k \in 1..Len(x) : x[j].type = x[k].type => j = k
  BY ExtensionsAre DEF AreExtensions
<1>2. /\ Len(new) = Len(x) + 1 /\ new[p + 1] = e
      /\ \A i \in 1..p : new[i] = x[i]
      /\ \A i \in (p + 1)..Len(x) : new[i + 1] = x[i]
  BY DEF HasPut
<1>3. \A i \in 1..Len(new) :
        \/ i = p + 1
        \/ i <= p /\ i \in 1..Len(x) /\ new[i] = x[i]
        \/ i > p + 1 /\ i - 1 \in 1..Len(x) /\ new[i] = x[i - 1]
  <2> TAKE i \in 1..Len(new)
  <2>1. CASE i <= p
    BY <1>1, <1>2, <2>1
  <2>2. CASE i > p + 1
    <3>1. i - 1 \in (p + 1)..Len(x) /\ i - 1 + 1 = i
      BY <1>1, <1>2, <2>2
    <3>2. QED
      BY <1>2, <2>2, <3>1
  <2>3. QED
    BY <1>1, <1>2, <2>1, <2>2
<1>4. \A k \in 1..Len(x) : \E i \in 1..Len(new) : new[i] = x[k]
  <2> TAKE k \in 1..Len(x)
  <2>1. CASE k <= p
    BY <1>1, <1>2, <2>1
  <2>2. CASE ~(k <= p)
    BY <1>1, <1>2, <2>2
  <2>3. QED
    BY <2>1, <2>2
<1>5. AreExtensions(new)
  <2>1. \A i \in 1..Len(new) : IsExtension(new[i])
    BY <1>1, <1>2, <1>3
  <2>2. ASSUME NEW i \in 1..Len(new), NEW j \in 1..Len(new), new[i].type = new[j].type
        PROVE  i = j
    <3>1. i \in Nat /\ j \in Nat /\ p + 1 \in Nat
      BY <1>1
    <3>2. \A l \in 1..Len(new) : l # p + 1 =>
            \E k \in 1..Len(x) : new[l] = x[k] /\ k = IF l <= p THEN l ELSE l - 1
      <4> TAKE l \in 1..Len(new)
      <4>1. l \in Nat /\ (l <= p => ~(l > p + 1)) /\ (l > p + 1 => ~(l <= p))
        BY <1>1
      <4>2. QED
        BY <1>3, <4>1
    <3>3. \A l \in 1..Len(new) : l # p + 1 => new[l].type # e.type
      BY <3>2
    <3>4. CASE i = p + 1 \/ j = p + 1
      BY <1>2, <2>2, <3>3, <3>4
    <3>5. CASE i # p + 1 /\ j # p + 1
      <4>1. PICK k \in 1..Len(x) : new[i] = x[k] /\ k = IF i <= p THEN i ELSE i - 1
        BY <3>2, <3>5
      <4>2. PICK l \in 1..Len(x) : new[j] = x[l] /\ l = IF j <= p THEN j ELSE j - 1
        BY <3>2, <3>5
      <4>3. k = l
        BY <1>1, <2>2, <4>1, <4>2
      <4>4. QED
        BY <3>1, <3>5, <4>1, <4>2, <4>3
    <3>6. QED
      BY <3>4, <3>5
  <2>3. QED
    BY <2>1, <2>2, ExtensionsFrom
<1>6. /\ Len(Order(new)) = Len(new)
      /\ \A i \in 1..Len(new) : Order(new)[i] = new[i].type
  BY <1>5, ExtensionsAre
<1>7. HasPut(Order(x), p, e.type, Order(new))
  <2>1. Order(new)[p + 1] = e.type
    BY <1>1, <1>2, <1>6
  <2>2. \A i \in 1..p : Order(new)[i] = Order(x)[i]
    BY <1>1, <1>2, <1>6
  <2>3. \A i \in (p + 1)..Len(x) : i + 1 \in 1..Len(new) /\ i \in 1..Len(x)
    BY <1>1, <1>2
  <2>4. \A i \in (p + 1)..Len(x) : Order(new)[i + 1] = Order(x)[i]
    BY <1>1, <1>2, <1>6, <2>3
  <2>5. QED
    BY <1>1, <1>2, <1>6, <2>1, <2>2, <2>4 DEF HasPut
<1>8. ASSUME NEW t, NEW v
      PROVE  Finds(new, t, v) <=> Finds(x, t, v) \/ (t = e.type /\ v = e.value)
  <2>1. p + 1 \in 1..Len(new)
    BY <1>1, <1>2
  <2>2. ASSUME Finds(new, t, v)
        PROVE  Finds(x, t, v) \/ (t = e.type /\ v = e.value)
    <3>1. PICK i \in 1..Len(new) : new[i].type = t /\ new[i].value = v
      BY <2>2 DEF Finds
    <3>2. new[i] = e \/ \E k \in 1..Len(x) : new[i] = x[k]
      BY <1>2, <1>3
    <3>3. QED
      BY <3>1, <3>2 DEF Finds
  <2>3. ASSUME Finds(x, t, v)
        PROVE  Finds(new, t, v)
    <3>1. PICK k \in 1..Len(x) : x[k].type = t /\ x[k].value = v
      BY <2>3 DEF Finds
    <3>2. PICK i \in 1..Len(new) : new[i] = x[k]
      BY <1>4
    <3>3. QED
      BY <3>1, <3>2 DEF Finds
  <2>4. t = e.type /\ v = e.value => Finds(new, t, v)
    BY <1>2, <2>1 DEF Finds
  <2>5. QED
    BY <2>2, <2>3, <2>4
<1>9. QED
  BY <1>5, <1>7, <1>8

\* The same ones, in another order.
LEMMA RearrangedExtensions ==
    ASSUME NEW x, NEW S, NEW new \in Seq(S), NEW f, Rearranges(f, x, new), AreExtensions(x)
    PROVE  /\ AreExtensions(new)
           /\ Rearranges(f, Order(x), Order(new))
           /\ \A t, v : Finds(new, t, v) <=> Finds(x, t, v)
<1>1. /\ Len(x) \in Nat /\ Len(Order(x)) = Len(x)
      /\ \A k \in 1..Len(x) : Order(x)[k] = x[k].type
      /\ \A k \in 1..Len(x) : IsExtension(x[k])
      /\ \A j, k \in 1..Len(x) : x[j].type = x[k].type => j = k
  BY ExtensionsAre DEF AreExtensions
<1>2. /\ Len(new) = Len(x)
      /\ \A k \in 1..Len(x) : f[k] \in 1..Len(new) /\ new[f[k]] = x[k]
      /\ \A q \in 1..Len(new) : \E k \in 1..Len(x) : f[k] = q
  BY DEF Rearranges, Pairs
<1>3. AreExtensions(new)
  <2>1. ASSUME NEW i \in 1..Len(new)
        PROVE  IsExtension(new[i])
    <3>1. PICK k \in 1..Len(x) : f[k] = i
      BY <1>2
    <3>2. new[i] = x[k]
      BY <1>2, <3>1
    <3>3. QED
      BY <1>1, <3>2
  <2>2. ASSUME NEW i \in 1..Len(new), NEW j \in 1..Len(new), new[i].type = new[j].type
        PROVE  i = j
    <3>1. PICK k \in 1..Len(x), l \in 1..Len(x) : f[k] = i /\ f[l] = j
      BY <1>2
    <3>2. x[k].type = x[l].type
      BY <1>2, <2>2, <3>1
    <3>3. QED
      BY <1>1, <3>1, <3>2
  <2>3. QED
    BY <2>1, <2>2, ExtensionsFrom
<1>4. /\ Len(Order(new)) = Len(new)
      /\ \A i \in 1..Len(new) : Order(new)[i] = new[i].type
  BY <1>3, ExtensionsAre
<1>5. Rearranges(f, Order(x), Order(new))
  <2>1. Len(Order(new)) = Len(Order(x)) /\ Len(Order(x)) = Len(x) /\ Len(Order(new)) = Len(new)
    BY <1>1, <1>2, <1>4
  <2>2. Pairs(f, 1..Len(Order(x)), 1..Len(Order(new)))
    BY <2>1 DEF Rearranges
  <2>3. \A k \in 1..Len(x) : Order(new)[f[k]] = Order(x)[k]
    <3> TAKE k \in 1..Len(x)
    <3>1. Order(new)[f[k]] = new[f[k]].type
      BY <1>2, <1>4
    <3>2. new[f[k]] = x[k]
      BY <1>2
    <3>3. Order(x)[k] = x[k].type
      BY <1>1
    <3>4. QED
      BY <3>1, <3>2, <3>3
  <2>4. \A k \in 1..Len(Order(x)) : Order(new)[f[k]] = Order(x)[k]
    BY <2>1, <2>3
  <2>5. QED
    BY <2>1, <2>2, <2>4 DEF Rearranges
<1>6. ASSUME NEW t, NEW v
      PROVE  Finds(new, t, v) <=> Finds(x, t, v)
  <2>1. ASSUME Finds(new, t, v)
        PROVE  Finds(x, t, v)
    <3>1. PICK i \in 1..Len(new) : new[i].type = t /\ new[i].value = v
      BY <2>1 DEF Finds
    <3>2. PICK k \in 1..Len(x) : f[k] = i
      BY <1>2
    <3>3. new[i] = x[k]
      BY <1>2, <3>2
    <3>4. QED
      BY <3>1, <3>3 DEF Finds
  <2>2. ASSUME Finds(x, t, v)
        PROVE  Finds(new, t, v)
    <3>1. PICK k \in 1..Len(x) : x[k].type = t /\ x[k].value = v
      BY <2>2 DEF Finds
    <3>2. f[k] \in 1..Len(new) /\ new[f[k]] = x[k]
      BY <1>2
    <3>3. QED
      BY <3>1, <3>2 DEF Finds
  <2>3. QED
    BY <2>1, <2>2
<1>7. QED
  BY <1>3, <1>5, <1>6

\* One of them with another value.
WithValue(x, k, w) == [x EXCEPT ![k].value = w]

\* Its type stays where it stands, and only its own answer changes.
LEMMA ChangedExtension ==
    ASSUME NEW x, NEW k, NEW w, NEW new, new = WithValue(x, k, w),
           AreExtensions(x), k \in 1..Len(x),
           IsExtension([type |-> x[k].type, value |-> w])
    PROVE  /\ AreExtensions(new) /\ Order(new) = Order(x)
           /\ Finds(new, x[k].type, w)
           /\ \A t, v : t # x[k].type => (Finds(new, t, v) <=> Finds(x, t, v))
<1> DEFINE e == [type |-> x[k].type, value |-> w]
           T == { x[i] : i \in 1..Len(x) }
           S == T \cup {e}
<1>1. /\ Len(x) \in Nat /\ DOMAIN x = 1..Len(x) /\ x \in Seq(T)
      /\ \A i \in 1..Len(x) : IsExtension(x[i])
      /\ \A i, j \in 1..Len(x) : x[i].type = x[j].type => i = j
  BY ExtensionsAre DEF AreExtensions
<1>2. x[k] = [type |-> x[k].type, value |-> x[k].value]
  BY <1>1 DEF IsExtension
<1>3. [x[k] EXCEPT !.value = w] = e
  BY <1>2
<1>4. new = [x EXCEPT ![k] = e]
  BY <1>3 DEF WithValue
<1>5. x \in Seq(S)
  BY <1>1, SeqMonotonic
<1>6. e \in S
  OBVIOUS
<1> HIDE DEF e, S, T
<1>7. new \in Seq(S) /\ Len(new) = Len(x) /\ \A i \in 1..Len(x) : new[i] = IF i = k THEN e ELSE x[i]
  BY <1>1, <1>4, <1>5, <1>6, ExceptSeq
<1>8. e.type = x[k].type /\ e.value = w /\ IsExtension(e)
  BY DEF e
<1>9. \A i \in 1..Len(x) : new[i].type = x[i].type
  BY <1>7, <1>8
<1>10. AreExtensions(new)
  <2>1. \A i \in 1..Len(new) : IsExtension(new[i])
    BY <1>1, <1>7, <1>8
  <2>2. \A i, j \in 1..Len(new) : new[i].type = new[j].type => i = j
    BY <1>1, <1>7, <1>9
  <2>3. QED
    BY <1>7, <2>1, <2>2, ExtensionsFrom
<1>11. DOMAIN new = 1..Len(x)
  BY <1>1, <1>4
<1>12. Order(new) = Order(x)
  BY <1>1, <1>9, <1>11 DEF Order
<1>13. Finds(new, x[k].type, w)
  BY <1>7, <1>8 DEF Finds
<1>14. ASSUME NEW t, NEW v, t # x[k].type
       PROVE  Finds(new, t, v) <=> Finds(x, t, v)
  <2>1. \A i \in 1..Len(x) : new[i].type = t => i # k /\ new[i] = x[i]
    BY <1>7, <1>9, <1>14
  <2>2. \A i \in 1..Len(x) : x[i].type = t => i # k /\ new[i] = x[i]
    BY <1>7, <1>14
  <2>3. QED
    BY <1>7, <2>1, <2>2 DEF Finds
<1>15. QED
  BY <1>10, <1>12, <1>13, <1>14

--------------------------------------------------------------------------------
(* What each change makes of a hello. *)

\* Other suites, or other extensions.
LEMMA HelloWith ==
    ASSUME NEW h, IsHello(h)
    PROVE  /\ \A c \in Seq(Codepoint) :
                LET n == [h EXCEPT !.ciphers = c]
                IN  IsHello(n) /\ n.ciphers = c /\ n.exts = h.exts
           /\ \A x : AreExtensions(x) =>
                LET n == [h EXCEPT !.exts = x]
                IN  IsHello(n) /\ n.ciphers = h.ciphers /\ n.exts = x
<1>1. h = [ciphers |-> h.ciphers, exts |-> h.exts] /\ h.ciphers \in Seq(Codepoint) /\ AreExtensions(h.exts)
  BY DEF IsHello
<1>2. ASSUME NEW c \in Seq(Codepoint)
      PROVE  LET n == [h EXCEPT !.ciphers = c]
             IN  IsHello(n) /\ n.ciphers = c /\ n.exts = h.exts
  <2> DEFINE n == [h EXCEPT !.ciphers = c]
  <2>1. n = [ciphers |-> c, exts |-> h.exts]
    BY <1>1
  <2> HIDE DEF n
  <2>2. IsHello(n) /\ n.ciphers = c /\ n.exts = h.exts
    BY <1>1, <2>1 DEF IsHello
  <2>3. QED
    BY <2>2 DEF n
<1>3. ASSUME NEW x, AreExtensions(x)
      PROVE  LET n == [h EXCEPT !.exts = x]
             IN  IsHello(n) /\ n.ciphers = h.ciphers /\ n.exts = x
  <2> DEFINE n == [h EXCEPT !.exts = x]
  <2>1. n = [ciphers |-> h.ciphers, exts |-> x]
    BY <1>1
  <2> HIDE DEF n
  <2>2. IsHello(n) /\ n.ciphers = h.ciphers /\ n.exts = x
    BY <1>1, <1>3, <2>1 DEF IsHello
  <2>3. QED
    BY <2>2 DEF n
<1>4. QED
  BY <1>2, <1>3

\* Nothing but GREASE tells two lists, or two hellos, apart.
MaskedList(a, b) ==
    /\ a = None <=> b = None
    /\ NoGrease(OrEmpty(b)) = NoGrease(OrEmpty(a))
    /\ \A v : v \notin Reserved => (v \in Entries(b) <=> v \in Entries(a))

Masked(h, n) ==
    /\ NoGrease(n.ciphers) = NoGrease(h.ciphers)
    /\ \A K : K \cap Reserved = {} =>
         Picked(Order(n.exts), Kept(Order(n.exts), K)) = Picked(Order(h.exts), Kept(Order(h.exts), K))
    /\ \A t : t \notin Reserved => (Has(n, t) <=> Has(h, t))
    /\ \A t : t \notin Reserved \cup Listed => Answer(n, t) = Answer(h, t)
    /\ \A t \in Listed : MaskedList(Answer(h, t), Answer(n, t))

\* Lists of codepoints with GREASE put in somewhere.
LEMMA GreasedList ==
    ASSUME NEW list \in Seq(Codepoint), NEW p \in Nat, p <= Len(list), NEW g \in Reserved
    PROVE  /\ PutAt(list, p, g) \in Seq(Codepoint)
           /\ HasPut(list, p, g, PutAt(list, p, g))
           /\ NoGrease(PutAt(list, p, g)) = NoGrease(list)
           /\ MaskedList(list, PutAt(list, p, g))
<1> DEFINE new == PutAt(list, p, g)
<1>1. g \in Codepoint /\ g \notin Plain
  BY ReservedIsUnknown
<1>2. new \in Seq(Codepoint) /\ HasPut(list, p, g, new)
  BY <1>1, InsertedAt
<1> HIDE DEF new
<1>3. NoGrease(new) = NoGrease(list)
  <2>1. Picked(new, Kept(new, Plain)) = Picked(list, Kept(list, Plain))
    BY <1>1, <1>2, DroppedUnseen
  <2>2. QED
    BY <1>2, <2>1, NoGreaseIs
<1>4. None \notin Seq(Codepoint)
  BY ClientAssumption
<1>5. list # None /\ new # None /\ OrEmpty(list) = list /\ OrEmpty(new) = new
  BY <1>2, <1>4 DEF OrEmpty
<1>6. ASSUME NEW v, v \notin Reserved
      PROVE  v \in Entries(new) <=> v \in Entries(list)
  <2>1. /\ Len(list) \in Nat /\ DOMAIN list = 1..Len(list) /\ DOMAIN new = 1..Len(new)
        /\ Len(new) = Len(list) + 1 /\ new[p + 1] = g
        /\ \A i \in 1..p : new[i] = list[i]
        /\ \A i \in (p + 1)..Len(list) : new[i + 1] = list[i]
    BY <1>2, LenProperties DEF HasPut
  <2>2. ASSUME NEW i \in 1..Len(new), i # p + 1
        PROVE  \E j \in 1..Len(list) : new[i] = list[j]
    <3>1. CASE i <= p
      BY <2>1, <3>1
    <3>2. CASE ~(i <= p)
      <4>1. i - 1 \in (p + 1)..Len(list) /\ i - 1 + 1 = i /\ i - 1 \in 1..Len(list)
        BY <2>1, <2>2, <3>2
      <4>2. QED
        BY <2>1, <4>1
    <3>3. QED
      BY <3>1, <3>2
  <2>3. ASSUME NEW j \in 1..Len(list)
        PROVE  \E i \in 1..Len(new) : new[i] = list[j]
    <3>1. CASE j <= p
      BY <2>1, <3>1
    <3>2. CASE ~(j <= p)
      <4>1. j \in (p + 1)..Len(list) /\ j + 1 \in 1..Len(new)
        BY <2>1, <3>2
      <4>2. QED
        BY <2>1, <4>1
    <3>3. QED
      BY <3>1, <3>2
  <2>4. /\ v \in Entries(new) <=> \E i \in 1..Len(new) : v = new[i]
        /\ v \in Entries(list) <=> \E j \in 1..Len(list) : v = list[j]
    BY <1>5, <2>1 DEF Entries
  <2>5. QED
    BY <1>6, <2>1, <2>2, <2>3, <2>4
<1>7. MaskedList(list, new)
  BY <1>3, <1>5, <1>6 DEF MaskedList
<1>8. QED
  BY <1>2, <1>3, <1>7 DEF new

\* A list tells nothing from itself.
LEMMA MaskedSame == \A a : MaskedList(a, a)
BY DEF MaskedList

\* Two hellos with the same extensions answer the same.
LEMMA SameExtensions ==
    ASSUME NEW h, NEW n, n.exts = h.exts
    PROVE  \A t : (Has(n, t) <=> Has(h, t)) /\ Answer(n, t) = Answer(h, t)
BY DEF Has, Answer

\* GREASE among the suites.
LEMMA CipherGreased ==
    ASSUME IsHello(hello), GreaseCipher
    PROVE  IsHello(hello') /\ Masked(hello, hello') /\ change' = "grease"
           /\ hello'.exts = hello.exts
<1>1. PICK g \in Greases, k \in 0..Len(hello.ciphers) :
        Changed("grease", [hello EXCEPT !.ciphers = PutAt(hello.ciphers, k, g)])
  BY DEF GreaseCipher
<1>2. hello.ciphers \in Seq(Codepoint) /\ g \in Reserved
  BY ClientAssumption DEF IsHello
<1>3. k \in Nat /\ k <= Len(hello.ciphers)
  BY <1>2, LenProperties
<1>4. PICK c : c = PutAt(hello.ciphers, k, g)
  OBVIOUS
<1>5. c \in Seq(Codepoint) /\ NoGrease(c) = NoGrease(hello.ciphers)
  BY <1>2, <1>3, <1>4, GreasedList
<1>6. hello' = [hello EXCEPT !.ciphers = c] /\ change' = "grease"
  BY <1>1, <1>4 DEF Changed
<1>7. IsHello(hello') /\ hello'.ciphers = c /\ hello'.exts = hello.exts
  BY <1>5, <1>6, HelloWith
<1>8. \A t : (Has(hello', t) <=> Has(hello, t)) /\ Answer(hello', t) = Answer(hello, t)
  BY <1>7, SameExtensions
<1>9. Masked(hello, hello')
  BY <1>5, <1>7, <1>8, MaskedSame DEF Masked
<1>10. QED
  BY <1>6, <1>7, <1>9

\* A GREASE extension.
LEMMA ExtensionGreased ==
    ASSUME IsHello(hello), GreaseExtension
    PROVE  IsHello(hello') /\ Masked(hello, hello') /\ change' = "grease"
           /\ Len(hello'.exts) = Len(hello.exts) + 1
<1>1. PICK g \in Greases, k \in 0..Len(hello.exts) :
        /\ ~Has(hello, g)
        /\ Changed("grease",
             [hello EXCEPT !.exts = PutAt(hello.exts, k, [type |-> g, value |-> "opaque"])])
  BY DEF GreaseExtension
<1> DEFINE x == hello.exts
           e == [type |-> g, value |-> "opaque"]
           S == { x[i] : i \in 1..Len(x) } \cup {e}
<1>2. /\ AreExtensions(x) /\ Len(x) \in Nat /\ DOMAIN x = 1..Len(x)
      /\ x \in Seq({ x[i] : i \in 1..Len(x) })
      /\ Order(x) \in Seq(Codepoint)
  BY ExtensionsAre DEF IsHello
<1>3. x \in Seq(S) /\ e \in S
  BY <1>2, SeqMonotonic
<1>4. g \in Reserved /\ g \in Codepoint /\ \A name \in DOMAIN Ext : g # Ext[name]
  BY ReservedIsUnknown, ClientAssumption
<1>5. g \notin Listed
  BY <1>4 DEF Listed, Ext
<1>6. IsExtension(e) /\ e.type = g
  BY <1>4, <1>5 DEF IsExtension
<1>7. \A i \in 1..Len(x) : x[i].type # e.type
  BY <1>1, <1>2, <1>6 DEF Has
<1>8. k \in Nat /\ k <= Len(x)
  BY <1>2
<1> DEFINE new == PutAt(x, k, e)
<1>9. hello' = [hello EXCEPT !.exts = new] /\ change' = "grease"
  BY <1>1 DEF Changed
<1> HIDE DEF S, e
<1>10. new \in Seq(S) /\ HasPut(x, k, e, new)
  BY <1>3, <1>8, InsertedAt
<1> HIDE DEF new
<1>11. /\ AreExtensions(new)
       /\ HasPut(Order(x), k, g, Order(new))
       /\ \A t, v : Finds(new, t, v) <=> Finds(x, t, v) \/ (t = g /\ v = e.value)
  <2> HIDE DEF x
  <2>1. /\ AreExtensions(new)
        /\ HasPut(Order(x), k, e.type, Order(new))
        /\ \A t, v : Finds(new, t, v) <=> Finds(x, t, v) \/ (t = e.type /\ v = e.value)
    BY <1>2, <1>6, <1>7, <1>8, <1>10, PutExtension
  <2>2. QED
    BY <1>6, <2>1
<1>12. IsHello(hello') /\ hello'.ciphers = hello.ciphers /\ hello'.exts = new
  BY <1>9, <1>11, HelloWith
<1>13. ASSUME NEW t, t \notin Reserved
       PROVE  (Has(hello', t) <=> Has(hello, t)) /\ Answer(hello', t) = Answer(hello, t)
  <2>1. \A v : Finds(hello'.exts, t, v) <=> Finds(hello.exts, t, v)
    BY <1>4, <1>11, <1>12, <1>13
  <2>2. AreExtensions(hello'.exts) /\ AreExtensions(hello.exts)
    BY <1>2, <1>11, <1>12
  <2>3. QED
    BY <2>1, <2>2, SameAnswer
<1>14. ASSUME NEW K, K \cap Reserved = {}
       PROVE  Picked(Order(new), Kept(Order(new), K)) = Picked(Order(x), Kept(Order(x), K))
  <2>1. g \notin K
    BY <1>4, <1>14
  <2>2. Order(new) \in Seq(Codepoint) /\ k <= Len(Order(x))
    BY <1>2, <1>8, <1>11, ExtensionsAre
  <2>3. PICK a \in Seq(Codepoint), b \in Seq(Codepoint) : a = Order(x) /\ b = Order(new)
    BY <1>2, <2>2
  <2>4. Picked(b, Kept(b, K)) = Picked(a, Kept(a, K))
    BY <1>4, <1>8, <1>11, <2>1, <2>2, <2>3, DroppedUnseen
  <2>5. QED
    BY <2>3, <2>4
<1>15. \A t \in Listed : t \notin Reserved
  <2>1. \A t \in Listed : \E name \in DOMAIN Ext : t = Ext[name]
    BY DEF Listed, Ext
  <2>2. QED
    BY <2>1, ReservedIsUnknown
<1>16. Masked(hello, hello')
  BY <1>12, <1>13, <1>14, <1>15, MaskedSame DEF Masked
<1>17. Len(new) = Len(x) + 1
  BY <1>10 DEF HasPut
<1>18. QED
  BY <1>9, <1>12, <1>16, <1>17

\* GREASE in a list.
LEMMA EntryGreased ==
    ASSUME IsHello(hello), GreaseEntry
    PROVE  IsHello(hello') /\ Masked(hello, hello') /\ change' = "grease"
           /\ Len(hello'.exts) = Len(hello.exts)
<1> DEFINE x == hello.exts
<1>1. PICK g \in Greases, e \in DOMAIN x :
        /\ x[e].type \in Listed
        /\ x[e].value # None
        /\ \E k \in 0..Len(x[e].value) :
             Changed("grease", [hello EXCEPT !.exts[e].value = PutAt(@, k, g)])
  BY DEF GreaseEntry
<1>2. /\ AreExtensions(x) /\ Len(x) \in Nat /\ DOMAIN x = 1..Len(x)
      /\ \A i \in 1..Len(x) : IsExtension(x[i])
  BY ExtensionsAre DEF IsHello, AreExtensions
<1>3. PICK t, list : t = x[e].type /\ list = x[e].value
  OBVIOUS
<1>4. list \in Seq(Codepoint) /\ t \in Codepoint /\ g \in Reserved /\ t \in Listed
  BY <1>1, <1>2, <1>3, ClientAssumption DEF IsExtension
<1>5. PICK k \in 0..Len(list) :
        Changed("grease", [hello EXCEPT !.exts[e].value = PutAt(@, k, g)])
  BY <1>1, <1>3
<1>6. k \in Nat /\ k <= Len(list)
  BY <1>4, LenProperties
<1>7. PICK w : w = PutAt(list, k, g)
  OBVIOUS
<1>8. w \in Seq(Codepoint) /\ MaskedList(list, w)
  BY <1>4, <1>6, <1>7, GreasedList
<1> DEFINE new == [x EXCEPT ![e].value = w]
<1>9. hello' = [hello EXCEPT !.exts = new] /\ change' = "grease"
  <2>1. hello = [ciphers |-> hello.ciphers, exts |-> x]
    BY DEF IsHello
  <2>2. x[e] = [type |-> t, value |-> list]
    BY <1>2, <1>3 DEF IsExtension
  <2>3. hello' = [hello EXCEPT !.exts[e].value = PutAt(x[e].value, k, g)] /\ change' = "grease"
    BY <1>5 DEF Changed
  <2>4. QED
    BY <1>3, <1>7, <2>3
<1>10. IsExtension([type |-> t, value |-> w])
  BY <1>4, <1>8 DEF IsExtension
<1>11. /\ AreExtensions(new) /\ Order(new) = Order(x)
       /\ Finds(new, t, w)
       /\ \A u, v : u # t => (Finds(new, u, v) <=> Finds(x, u, v))
  <2>1. new = WithValue(x, e, w) /\ e \in 1..Len(x) /\ AreExtensions(x)
    BY <1>2 DEF WithValue
  <2>2. IsExtension([type |-> x[e].type, value |-> w])
    BY <1>3, <1>10
  <2> HIDE DEF new, x
  <2>3. /\ AreExtensions(new) /\ Order(new) = Order(x)
        /\ Finds(new, x[e].type, w)
        /\ \A u, v : u # x[e].type => (Finds(new, u, v) <=> Finds(x, u, v))
    BY <2>1, <2>2, ChangedExtension
  <2>4. QED
    BY <1>3, <2>3
<1> HIDE DEF new
<1>12. IsHello(hello') /\ hello'.ciphers = hello.ciphers /\ hello'.exts = new
  BY <1>9, <1>11, HelloWith
<1>13. AreExtensions(hello'.exts) /\ AreExtensions(hello.exts)
  BY <1>2, <1>11, <1>12
<1>14. ASSUME NEW u, u # t
       PROVE  (Has(hello', u) <=> Has(hello, u)) /\ Answer(hello', u) = Answer(hello, u)
  <2>1. \A v : Finds(hello'.exts, u, v) <=> Finds(hello.exts, u, v)
    BY <1>11, <1>12, <1>14
  <2>2. QED
    BY <1>13, <2>1, SameAnswer
<1>15. Has(hello', t) /\ Answer(hello', t) = w
  BY <1>11, <1>12, <1>13, AnswerIs
<1>16. Has(hello, t) /\ Answer(hello, t) = list
  <2>1. Finds(hello.exts, t, list)
    BY <1>2, <1>3 DEF Finds
  <2>2. QED
    BY <1>13, <2>1, AnswerIs
<1>17. \A u \in Listed : MaskedList(Answer(hello, u), Answer(hello', u))
  BY <1>8, <1>14, <1>15, <1>16, MaskedSame
<1>18. \A u : Has(hello', u) <=> Has(hello, u)
  BY <1>14, <1>15, <1>16
<1>19. \A u : u \notin Listed => Answer(hello', u) = Answer(hello, u)
  BY <1>4, <1>14
<1>20. Masked(hello, hello')
  BY <1>11, <1>12, <1>17, <1>18, <1>19 DEF Masked
<1>21. Len(new) = Len(x)
  <2>1. Len(Order(new)) = Len(new) /\ Len(Order(x)) = Len(x)
    BY <1>2, <1>11, ExtensionsAre
  <2>2. QED
    BY <1>11, <2>1
<1>22. QED
  BY <1>9, <1>12, <1>20, <1>21

--------------------------------------------------------------------------------
(* What is observed of two hellos that nothing but GREASE tells apart. *)

\* The types JA4 hashes.
Hashable == Plain \ {Ext.server_name, Ext.alpn}

\* The fields that the fingerprints and the accessors read.
LEMMA ObservedIs ==
    ASSUME NEW h
    PROVE  /\ Observe(h).host = VisibleHost(h)
           /\ Observe(h).ech_present <=> Has(h, Ext.encrypted_client_hello)
           /\ Observe(h).alpn_protocols = Answer(h, Ext.alpn)
           /\ Observe(h).supported_versions = Answer(h, Ext.supported_versions)
           /\ Observe(h).key_share_groups = Answer(h, Ext.key_share)
           /\ Observe(h).compress_certificate_present <=> Has(h, Ext.compress_certificate)
           /\ Observe(h).signature_algorithms = Answer(h, Ext.signature_algorithms)
           /\ Observe(h).supported_groups = Answer(h, Ext.supported_groups)
           /\ Observe(h).ec_point_formats = Answer(h, Ext.ec_point_formats)
           /\ Observe(h).extension_order = Order(h.exts)
           /\ Observe(h).cipher_suites = h.ciphers
BY DEF Observe, Order

\* Lists of codepoints, where there are any.
LEMMA ListedAnswer ==
    ASSUME NEW h, IsHello(h), NEW t \in Listed
    PROVE  /\ Answer(h, t) = None \/ Answer(h, t) \in Seq(Codepoint)
           /\ OrEmpty(Answer(h, t)) \in Seq(Codepoint)
           /\ \A v \in Entries(Answer(h, t)) : v \in Codepoint
<1>1. AreExtensions(h.exts) /\ \A k \in 1..Len(h.exts) : IsExtension(h.exts[k])
  BY DEF IsHello, AreExtensions
<1>2. Answer(h, t) = None \/ Answer(h, t) \in Seq(Codepoint)
  <2>1. Has(h, t) => Finds(h.exts, t, Answer(h, t))
    BY <1>1, AnswerIs
  <2>2. ~Has(h, t) => Answer(h, t) = None
    BY DEF Answer
  <2>3. QED
    BY <1>1, <2>1, <2>2 DEF Finds, IsExtension
<1>3. OrEmpty(Answer(h, t)) \in Seq(Codepoint)
  BY <1>2 DEF OrEmpty
<1>4. \A k \in DOMAIN OrEmpty(Answer(h, t)) : OrEmpty(Answer(h, t))[k] \in Codepoint
  BY <1>3, LenProperties, ElementOfSeq
<1>5. QED
  BY <1>2, <1>3, <1>4 DEF Entries

\* The table of known clients knows nobody.
LEMMA LaunchIsScored == \A meta : LikelyLaunchSource(meta) = LaunchOfScore(BrowserScore(meta))
<1> TAKE meta
<1>1. Ja4(meta)[2] = [base |-> 10, codes |-> Sorted(NoGrease(meta.cipher_suites))]
  BY DEF Ja4, Ja4b, Decimal
<1>2. Ja4(meta)[2].base # KnownJa4.b.base
  BY <1>1 DEF KnownJa4
<1>3. KnownClientFromJa4(Ja4(meta)) = None
  BY <1>2 DEF KnownClientFromJa4
<1>4. QED
  BY <1>3 DEF LikelyLaunchSource

\* The types by which the fields are filled are none of GREASE.
LEMMA FieldTypes ==
    /\ \A name \in DOMAIN Ext : Ext[name] \notin Reserved
    /\ {Ext.server_name, Ext.encrypted_client_hello, Ext.alpn, Ext.compress_certificate,
        Ext.ec_point_formats} \cap (Reserved \cup Listed) = {}
    /\ Listed \cap Reserved = {}
<1>1. \A name \in DOMAIN Ext : Ext[name] \notin Reserved
  BY ReservedIsUnknown
<1>2. {Ext.server_name, Ext.encrypted_client_hello, Ext.alpn, Ext.compress_certificate,
       Ext.ec_point_formats} \cap Reserved = {}
  BY <1>1 DEF Ext
<1>3. Listed \cap Reserved = {}
  BY <1>1 DEF Ext, Listed
<1>4. {Ext.server_name, Ext.encrypted_client_hello, Ext.alpn, Ext.compress_certificate,
       Ext.ec_point_formats} \cap Listed = {}
  BY DEF Ext, Listed
<1>5. QED
  BY <1>1, <1>2, <1>3, <1>4

\* The extensions that JA4 hashes.
LEMMA HashedIs ==
    ASSUME NEW h, IsHello(h)
    PROVE  Ja4c(Observe(h)) =
             <<Decimal(Sorted(Picked(Order(h.exts), Kept(Order(h.exts), Hashable)))),
               Decimal(NoGrease(OrEmpty(Answer(h, Ext.signature_algorithms))))>>
<1> DEFINE order == Order(h.exts)
<1>1. order \in Seq(Codepoint) /\ \A k \in DOMAIN order : order[k] \in Codepoint
  <2>1. order \in Seq(Codepoint)
    BY ExtensionsAre DEF IsHello
  <2>2. QED
    BY <2>1, LenProperties, ElementOfSeq
<1>2. /\ Observe(h).extension_order = order
      /\ Observe(h).signature_algorithms = Answer(h, Ext.signature_algorithms)
  BY ObservedIs
<1> HIDE DEF order
<1>3. Kept(order, Hashable)
        = { k \in DOMAIN order : ~IsGrease(order[k]) /\ order[k] \notin {Ext.server_name, Ext.alpn} }
  BY <1>1 DEF Kept, Hashable, Plain
<1>4. QED
  BY <1>2, <1>3 DEF Ja4c, order

\* What an accessor makes of a list that nothing but GREASE changes.
LEMMA MaskedVersions ==
    ASSUME NEW m, NEW n, MaskedList(m.supported_versions, n.supported_versions),
           \A v \in Entries(m.supported_versions) : v \in Codepoint,
           \A v \in Entries(n.supported_versions) : v \in Codepoint
    PROVE  HighestVersion(m) = HighestVersion(n) /\ Ja4Version(m) = Ja4Version(n)
<1> DEFINE a == Entries(m.supported_versions)
           b == Entries(n.supported_versions)
<1>1. \A v : v \notin Reserved => (v \in b <=> v \in a)
  BY DEF MaskedList
<1>2. \A v : v \in Reserved => VersionFromWire(v) = "other"
  BY ReservedIsUnknown
<1>3. \A v \in Codepoint : IsGrease(v) <=> v \in Reserved
  BY GreaseIsReserved
<1>4. (\A v \in a : v \in Codepoint) /\ (\A v \in b : v \in Codepoint)
  OBVIOUS
<1>5. KnownVersions(m) = { VersionFromWire(v) : v \in a } \ {"other"}
      /\ KnownVersions(n) = { VersionFromWire(v) : v \in b } \ {"other"}
  BY DEF KnownVersions
<1>6. { v \in Entries(m.supported_versions) : ~IsGrease(v) } = { v \in a : ~IsGrease(v) }
      /\ { v \in Entries(n.supported_versions) : ~IsGrease(v) } = { v \in b : ~IsGrease(v) }
  OBVIOUS
<1> HIDE DEF a, b
<1>7. KnownVersions(m) = KnownVersions(n)
  BY <1>1, <1>2, <1>5
<1>8. HighestVersion(m) = HighestVersion(n)
  BY <1>7 DEF HighestVersion
<1>9. { v \in a : ~IsGrease(v) } = { v \in b : ~IsGrease(v) }
  BY <1>1, <1>3, <1>4
<1>10. Ja4Version(m) = Ja4Version(n)
  BY <1>6, <1>9 DEF Ja4Version
<1>11. QED
  BY <1>8, <1>10

\* Nothing that is derived of it changes.
LEMMA MaskedInvisible ==
    ASSUME NEW h, IsHello(h), NEW n, IsHello(n), Masked(h, n)
    PROVE  /\ Ja3(Observe(h)) = Ja3(Observe(n))
           /\ Ja4(Observe(h)) = Ja4(Observe(n))
           /\ LikelyLaunchSource(Observe(h)) = LikelyLaunchSource(Observe(n))
           /\ HighestVersion(Observe(h)) = HighestVersion(Observe(n))
           /\ HasPostQuantumKeyShare(Observe(h)) = HasPostQuantumKeyShare(Observe(n))
           /\ UnstableExtensions(Observe(h)) = UnstableExtensions(Observe(n))
           /\ HrrSniConsistent(Observe(h), Observe(n)) \in {TRUE, None}
<1> DEFINE x == Order(h.exts)
           y == Order(n.exts)
<1>1. x \in Seq(Codepoint) /\ y \in Seq(Codepoint)
  BY ExtensionsAre DEF IsHello
<1>2. \A K : K \cap Reserved = {} => Picked(y, Kept(y, K)) = Picked(x, Kept(x, K))
  BY DEF Masked
<1>3. /\ \A t : t \notin Reserved => (Has(n, t) <=> Has(h, t))
      /\ \A t : t \notin Reserved \cup Listed => Answer(n, t) = Answer(h, t)
      /\ \A t \in Listed : MaskedList(Answer(h, t), Answer(n, t))
      /\ NoGrease(n.ciphers) = NoGrease(h.ciphers)
  BY DEF Masked
<1>4. PICK M, N : M = Observe(h) /\ N = Observe(n)
  OBVIOUS
<1>5. M.extension_order = x /\ N.extension_order = y
  BY <1>4, ObservedIs
<1> HIDE DEF x, y
<1>6. Plain \cap Reserved = {} /\ Hashable \cap Reserved = {}
  BY ReservedIsUnknown DEF Hashable
<1>7. NoGrease(x) = NoGrease(y)
  BY <1>1, <1>2, <1>6, NoGreaseIs
<1>8. /\ M.ech_present <=> N.ech_present
      /\ M.compress_certificate_present <=> N.compress_certificate_present
      /\ M.host = N.host
      /\ M.alpn_protocols = N.alpn_protocols
      /\ M.ec_point_formats = N.ec_point_formats
  <2>1. \A t \in {Ext.server_name, Ext.encrypted_client_hello, Ext.alpn,
                  Ext.compress_certificate, Ext.ec_point_formats} :
          (Has(n, t) <=> Has(h, t)) /\ Answer(n, t) = Answer(h, t)
    BY <1>3, FieldTypes
  <2>2. QED
    BY <1>4, <2>1, ObservedIs DEF VisibleHost
<1>9. /\ MaskedList(M.supported_versions, N.supported_versions)
      /\ MaskedList(M.key_share_groups, N.key_share_groups)
      /\ MaskedList(M.signature_algorithms, N.signature_algorithms)
      /\ MaskedList(M.supported_groups, N.supported_groups)
  BY <1>3, <1>4, ObservedIs DEF Listed
<1>10. NoGrease(M.cipher_suites) = NoGrease(N.cipher_suites)
  BY <1>3, <1>4, ObservedIs
<1>11. HighestVersion(M) = HighestVersion(N) /\ Ja4Version(M) = Ja4Version(N)
  <2>1. /\ \A v \in Entries(M.supported_versions) : v \in Codepoint
        /\ \A v \in Entries(N.supported_versions) : v \in Codepoint
    BY <1>4, ObservedIs, ListedAnswer DEF Listed
  <2>2. QED
    BY <1>9, <2>1, MaskedVersions
<1>12. HasPostQuantumKeyShare(M) <=> HasPostQuantumKeyShare(N)
  <2>1. \A g \in Reserved : ~IsPostQuantum(GroupFromWire(g))
    BY ReservedIsUnknown
  <2>2. \A g : g \notin Reserved => (g \in Entries(N.key_share_groups) <=> g \in Entries(M.key_share_groups))
    BY <1>9 DEF MaskedList
  <2>3. QED
    BY <2>1, <2>2 DEF HasPostQuantumKeyShare
<1>13. Ja3(M) = Ja3(N)
  <2>1. NoGrease(OrEmpty(M.supported_groups)) = NoGrease(OrEmpty(N.supported_groups))
    BY <1>9 DEF MaskedList
  <2>2. QED
    BY <1>5, <1>7, <1>8, <1>10, <2>1 DEF Ja3
<1>14. Ja4(M) = Ja4(N)
  <2>1. Ja4Alpn(M) = Ja4Alpn(N)
    BY <1>8 DEF Ja4Alpn
  <2>2. Ja4a(M) = Ja4a(N)
    BY <1>5, <1>7, <1>8, <1>10, <1>11, <2>1 DEF Ja4a
  <2>3. Ja4b(M) = Ja4b(N)
    BY <1>10 DEF Ja4b
  <2>4. Ja4c(M) = Ja4c(N)
    <3>1. Picked(y, Kept(y, Hashable)) = Picked(x, Kept(x, Hashable))
      BY <1>2, <1>6
    <3>2. NoGrease(OrEmpty(M.signature_algorithms)) = NoGrease(OrEmpty(N.signature_algorithms))
      BY <1>9 DEF MaskedList
    <3>3. /\ M.signature_algorithms = Answer(h, Ext.signature_algorithms)
          /\ N.signature_algorithms = Answer(n, Ext.signature_algorithms)
      BY <1>4, ObservedIs
    <3>4. /\ Ja4c(M) = <<Decimal(Sorted(Picked(x, Kept(x, Hashable)))),
                         Decimal(NoGrease(OrEmpty(M.signature_algorithms)))>>
          /\ Ja4c(N) = <<Decimal(Sorted(Picked(y, Kept(y, Hashable)))),
                         Decimal(NoGrease(OrEmpty(N.signature_algorithms)))>>
      BY <1>4, <3>3, HashedIs DEF x, y
    <3>5. QED
      BY <3>1, <3>2, <3>4
  <2>5. QED
    BY <2>2, <2>3, <2>4 DEF Ja4
<1>15. BrowserScore(M) = BrowserScore(N)
  <2>1. M.signature_algorithms # None <=> N.signature_algorithms # None
    BY <1>9 DEF MaskedList
  <2>2. \A p : Offers(M, p) <=> Offers(N, p)
    BY <1>8 DEF Offers
  <2>3. QED
    BY <1>5, <1>7, <1>8, <1>12, <2>1, <2>2 DEF BrowserScore, Worth
<1>16. LikelyLaunchSource(M) = LikelyLaunchSource(N)
  BY <1>15, LaunchIsScored
<1>17. UnstableExtensions(M) = UnstableExtensions(N)
  <2> DEFINE U == DOMAIN UnstableTable
  <2>1. U \cap Reserved = {}
    BY ReservedIsUnknown DEF UnstableTable
  <2>2. Picked(y, Kept(y, U)) = Picked(x, Kept(x, U))
    BY <1>2, <2>1
  <2>3. Kept(x, U) = { k \in DOMAIN x : x[k] \in DOMAIN UnstableTable }
        /\ Kept(y, U) = { k \in DOMAIN y : y[k] \in DOMAIN UnstableTable }
    BY DEF Kept
  <2>4. QED
    BY <1>5, <2>2, <2>3 DEF UnstableExtensions
<1>18. HrrSniConsistent(M, N) \in {TRUE, None}
  BY <1>8 DEF HrrSniConsistent
<1>19. HasPostQuantumKeyShare(M) = HasPostQuantumKeyShare(N)
  BY <1>12 DEF HasPostQuantumKeyShare
<1>20. QED
  BY <1>4, <1>11, <1>13, <1>14, <1>16, <1>17, <1>18, <1>19

--------------------------------------------------------------------------------
(* Another order, or another host. *)

\* Nothing but order, and the host, tells two hellos apart.
Reordered(h, n) ==
    /\ Sorted(NoGrease(n.ciphers)) = Sorted(NoGrease(h.ciphers))
    /\ Len(NoGrease(n.ciphers)) = Len(NoGrease(h.ciphers))
    /\ \A K :
         /\ Sorted(Picked(Order(n.exts), Kept(Order(n.exts), K)))
              = Sorted(Picked(Order(h.exts), Kept(Order(h.exts), K)))
         /\ Len(Picked(Order(n.exts), Kept(Order(n.exts), K)))
              = Len(Picked(Order(h.exts), Kept(Order(h.exts), K)))
    /\ \A t : Has(n, t) <=> Has(h, t)
    /\ \A t : t # Ext.server_name => Answer(n, t) = Answer(h, t)
    /\ Answer(n, Ext.server_name) = None <=> Answer(h, Ext.server_name) = None

\* The suites change places.
LEMMA CiphersSwapped ==
    ASSUME IsHello(hello), SwapCiphers
    PROVE  /\ IsHello(hello') /\ Reordered(hello, hello') /\ change' = "order"
           /\ hello'.exts = hello.exts
<1>1. PICK k \in 1..(Len(hello.ciphers) - 1) :
        Changed("order", [hello EXCEPT !.ciphers = Swap(hello.ciphers, k)])
  BY DEF SwapCiphers
<1>2. PICK c, d : c = hello.ciphers /\ d = Swap(c, k)
  OBVIOUS
<1>3. c \in Seq(Codepoint) /\ Len(c) \in Nat
  BY <1>2, LenProperties DEF IsHello
<1>4. k \in Nat /\ k >= 1 /\ k < Len(c)
  BY <1>2, <1>3
<1>5. d \in Seq(Codepoint)
  BY <1>2, <1>3, <1>4, SwappedAt
<1>6. \E f : Rearranges(f, c, d)
  BY <1>2, <1>3, <1>4, SwapRearranges
<1>7. Sorted(NoGrease(c)) = Sorted(NoGrease(d)) /\ Len(NoGrease(c)) = Len(NoGrease(d))
  BY <1>3, <1>5, <1>6, RearrangedAlike, NoGreaseIs
<1>8. hello' = [hello EXCEPT !.ciphers = d] /\ change' = "order"
  BY <1>1, <1>2 DEF Changed
<1>9. IsHello(hello') /\ hello'.ciphers = d /\ hello'.exts = hello.exts
  BY <1>5, <1>8, HelloWith
<1>10. \A t : (Has(hello', t) <=> Has(hello, t)) /\ Answer(hello', t) = Answer(hello, t)
  BY <1>9, SameExtensions
<1>11. Reordered(hello, hello')
  BY <1>2, <1>7, <1>9, <1>10 DEF Reordered
<1>12. QED
  BY <1>8, <1>9, <1>11

\* The extensions change places.
LEMMA ExtensionsSwapped ==
    ASSUME IsHello(hello), SwapExtensions
    PROVE  /\ IsHello(hello') /\ Reordered(hello, hello') /\ change' = "order"
           /\ Answer(hello', Ext.server_name) = Answer(hello, Ext.server_name)
           /\ Len(hello'.exts) = Len(hello.exts)
<1>1. PICK k \in 1..(Len(hello.exts) - 1) :
        Changed("order", [hello EXCEPT !.exts = Swap(hello.exts, k)])
  BY DEF SwapExtensions
<1>2. PICK x, y : x = hello.exts /\ y = Swap(x, k)
  OBVIOUS
<1>3. /\ AreExtensions(x) /\ Len(x) \in Nat /\ x \in Seq({ x[i] : i \in 1..Len(x) })
      /\ Order(x) \in Seq(Codepoint)
  <2>1. AreExtensions(x)
    BY <1>2 DEF IsHello
  <2>2. QED
    BY <2>1, ExtensionsAre
<1>4. PICK S : x \in Seq(S)
  BY <1>3
<1>5. k \in Nat /\ k >= 1 /\ k < Len(x)
  BY <1>2, <1>3
<1>6. y \in Seq(S) /\ Len(y) = Len(x)
  BY <1>2, <1>4, <1>5, SwappedAt
<1>7. PICK f : Rearranges(f, x, y)
  BY <1>2, <1>4, <1>5, SwapRearranges
<1>8. /\ AreExtensions(y)
      /\ Rearranges(f, Order(x), Order(y))
      /\ \A t, v : Finds(y, t, v) <=> Finds(x, t, v)
  BY <1>3, <1>6, <1>7, RearrangedExtensions
<1>9. Order(y) \in Seq(Codepoint)
  BY <1>8, ExtensionsAre
<1>10. hello' = [hello EXCEPT !.exts = y] /\ change' = "order"
  BY <1>1, <1>2 DEF Changed
<1>11. IsHello(hello') /\ hello'.ciphers = hello.ciphers /\ hello'.exts = y
  BY <1>8, <1>10, HelloWith
<1>12. ASSUME NEW t
       PROVE  (Has(hello', t) <=> Has(hello, t)) /\ Answer(hello', t) = Answer(hello, t)
  <2>1. \A v : Finds(hello'.exts, t, v) <=> Finds(hello.exts, t, v)
    BY <1>2, <1>8, <1>11
  <2>2. AreExtensions(hello'.exts) /\ AreExtensions(hello.exts)
    BY <1>2, <1>3, <1>8, <1>11
  <2>3. QED
    BY <2>1, <2>2, SameAnswer
<1>13. ASSUME NEW K
       PROVE  /\ Sorted(Picked(Order(x), Kept(Order(x), K))) = Sorted(Picked(Order(y), Kept(Order(y), K)))
              /\ Len(Picked(Order(x), Kept(Order(x), K))) = Len(Picked(Order(y), Kept(Order(y), K)))
  <2>1. PICK a \in Seq(Codepoint), b \in Seq(Codepoint) : a = Order(x) /\ b = Order(y)
    BY <1>3, <1>9
  <2>2. Rearranges(f, a, b)
    BY <1>8, <2>1
  <2>3. /\ Sorted(Picked(a, Kept(a, K))) = Sorted(Picked(b, Kept(b, K)))
        /\ Len(Picked(a, Kept(a, K))) = Len(Picked(b, Kept(b, K)))
    BY <2>2, RearrangedAlike
  <2>4. QED
    BY <2>1, <2>3
<1>14. Reordered(hello, hello')
  BY <1>2, <1>11, <1>12, <1>13 DEF Reordered
<1>15. QED
  BY <1>2, <1>6, <1>10, <1>11, <1>12, <1>14

\* The host is another one.
LEMMA HostChanged ==
    ASSUME IsHello(hello), NextHost
    PROVE  /\ IsHello(hello') /\ Reordered(hello, hello') /\ change' = "host"
           /\ Answer(hello, Ext.server_name) # None
           /\ Answer(hello', Ext.server_name) # Answer(hello, Ext.server_name)
           /\ Len(hello'.exts) = Len(hello.exts)
<1> DEFINE x == hello.exts
           t == Ext.server_name
<1>1. PICK h \in NewHosts, k \in DOMAIN x :
        /\ x[k].type = t
        /\ x[k].value \notin {None, h}
        /\ Changed("host", [hello EXCEPT !.exts[k].value = h])
  BY DEF NextHost
<1>2. /\ AreExtensions(x) /\ Len(x) \in Nat /\ DOMAIN x = 1..Len(x)
      /\ \A i \in 1..Len(x) : IsExtension(x[i])
  BY ExtensionsAre DEF IsHello, AreExtensions
<1>3. h # None
  BY ClientAssumption
<1>4. t \notin Listed /\ t \in Codepoint
  BY DEF Listed, Ext, Codepoint
<1>5. IsExtension([type |-> x[k].type, value |-> h])
  BY <1>1, <1>4 DEF IsExtension
<1> DEFINE new == WithValue(x, k, h)
<1>6. hello' = [hello EXCEPT !.exts = new] /\ change' = "host"
  <2>1. hello = [ciphers |-> hello.ciphers, exts |-> x]
    BY DEF IsHello
  <2>2. hello' = [hello EXCEPT !.exts[k].value = h] /\ change' = "host"
    BY <1>1 DEF Changed
  <2>3. QED
    BY <2>2 DEF WithValue
<1>7. /\ AreExtensions(new) /\ Order(new) = Order(x)
      /\ Finds(new, t, h)
      /\ \A u, v : u # t => (Finds(new, u, v) <=> Finds(x, u, v))
  <2> HIDE DEF new, x, t
  <2>1. new = WithValue(x, k, h) /\ AreExtensions(x) /\ k \in 1..Len(x)
    BY <1>2 DEF new
  <2>2. /\ AreExtensions(new) /\ Order(new) = Order(x)
        /\ Finds(new, x[k].type, h)
        /\ \A u, v : u # x[k].type => (Finds(new, u, v) <=> Finds(x, u, v))
    BY <1>5, <2>1, ChangedExtension
  <2>3. QED
    BY <1>1, <2>2
<1> HIDE DEF new
<1>8. IsHello(hello') /\ hello'.ciphers = hello.ciphers /\ hello'.exts = new
  BY <1>6, <1>7, HelloWith
<1>9. AreExtensions(hello'.exts) /\ AreExtensions(hello.exts)
  BY <1>2, <1>7, <1>8
<1>10. ASSUME NEW u, u # t
       PROVE  (Has(hello', u) <=> Has(hello, u)) /\ Answer(hello', u) = Answer(hello, u)
  <2>1. \A v : Finds(hello'.exts, u, v) <=> Finds(hello.exts, u, v)
    BY <1>7, <1>8, <1>10
  <2>2. QED
    BY <1>9, <2>1, SameAnswer
<1>11. Has(hello', t) /\ Answer(hello', t) = h
  BY <1>7, <1>8, <1>9, AnswerIs
<1>12. Has(hello, t) /\ Answer(hello, t) = x[k].value
  <2>1. Finds(hello.exts, t, x[k].value)
    BY <1>1, <1>2 DEF Finds
  <2>2. QED
    BY <1>9, <2>1, AnswerIs
<1>13. Reordered(hello, hello')
  <2>1. \A u : Has(hello', u) <=> Has(hello, u)
    BY <1>10, <1>11, <1>12
  <2>2. Answer(hello', t) # None /\ Answer(hello, t) # None
    BY <1>1, <1>3, <1>11, <1>12
  <2>3. QED
    BY <1>7, <1>8, <1>10, <2>1, <2>2 DEF Reordered
<1>14. Len(new) = Len(x)
  <2>1. Len(Order(new)) = Len(new) /\ Len(Order(x)) = Len(x)
    BY <1>2, <1>7, ExtensionsAre
  <2>2. QED
    BY <1>7, <2>1
<1>15. QED
  BY <1>1, <1>6, <1>8, <1>11, <1>12, <1>13, <1>14

\* JA4 and the launch source do not see it.
LEMMA OrderUnseen ==
    ASSUME NEW h, IsHello(h), NEW n, IsHello(n), Reordered(h, n)
    PROVE  /\ Ja4(Observe(h)) = Ja4(Observe(n))
           /\ LikelyLaunchSource(Observe(h)) = LikelyLaunchSource(Observe(n))
           /\ Observe(h).ech_present <=> Observe(n).ech_present
<1> DEFINE x == Order(h.exts)
           y == Order(n.exts)
<1>1. x \in Seq(Codepoint) /\ y \in Seq(Codepoint)
  BY ExtensionsAre DEF IsHello
<1>2. \A K : /\ Sorted(Picked(y, Kept(y, K))) = Sorted(Picked(x, Kept(x, K)))
             /\ Len(Picked(y, Kept(y, K))) = Len(Picked(x, Kept(x, K)))
  BY DEF Reordered
<1>3. /\ \A t : Has(n, t) <=> Has(h, t)
      /\ \A t : t # Ext.server_name => Answer(n, t) = Answer(h, t)
      /\ Answer(n, Ext.server_name) = None <=> Answer(h, Ext.server_name) = None
      /\ Sorted(NoGrease(n.ciphers)) = Sorted(NoGrease(h.ciphers))
      /\ Len(NoGrease(n.ciphers)) = Len(NoGrease(h.ciphers))
  BY DEF Reordered
<1>4. PICK M, N : M = Observe(h) /\ N = Observe(n)
  OBVIOUS
<1>5. M.extension_order = x /\ N.extension_order = y /\ M.cipher_suites = h.ciphers
      /\ N.cipher_suites = n.ciphers
  BY <1>4, ObservedIs
<1> HIDE DEF x, y
<1>6. Len(NoGrease(x)) = Len(NoGrease(y))
  BY <1>1, <1>2, NoGreaseIs
<1>7. /\ M.ech_present <=> N.ech_present
      /\ M.compress_certificate_present <=> N.compress_certificate_present
      /\ M.host = None <=> N.host = None
      /\ M.alpn_protocols = N.alpn_protocols
      /\ M.supported_versions = N.supported_versions
      /\ M.key_share_groups = N.key_share_groups
      /\ M.signature_algorithms = N.signature_algorithms
  <2>1. \A t \in {Ext.alpn, Ext.supported_versions, Ext.key_share, Ext.signature_algorithms} :
          t # Ext.server_name
    BY DEF Ext
  <2>2. QED
    BY <1>3, <1>4, <2>1, ObservedIs DEF VisibleHost
<1>8. Ja4(M) = Ja4(N)
  <2>1. Ja4Alpn(M) = Ja4Alpn(N) /\ Ja4Version(M) = Ja4Version(N)
    BY <1>7 DEF Ja4Alpn, Ja4Version
  <2>2. Ja4a(M) = Ja4a(N)
    BY <1>3, <1>5, <1>6, <1>7, <2>1 DEF Ja4a
  <2>3. Ja4b(M) = Ja4b(N)
    BY <1>3, <1>5 DEF Ja4b
  <2>4. Ja4c(M) = Ja4c(N)
    <3>1. Sorted(Picked(y, Kept(y, Hashable))) = Sorted(Picked(x, Kept(x, Hashable)))
      BY <1>2
    <3>2. /\ M.signature_algorithms = Answer(h, Ext.signature_algorithms)
          /\ N.signature_algorithms = Answer(n, Ext.signature_algorithms)
      BY <1>4, ObservedIs
    <3>3. /\ Ja4c(M) = <<Decimal(Sorted(Picked(x, Kept(x, Hashable)))),
                         Decimal(NoGrease(OrEmpty(M.signature_algorithms)))>>
          /\ Ja4c(N) = <<Decimal(Sorted(Picked(y, Kept(y, Hashable)))),
                         Decimal(NoGrease(OrEmpty(N.signature_algorithms)))>>
      BY <1>4, <3>2, HashedIs DEF x, y
    <3>4. QED
      BY <1>7, <3>1, <3>3
  <2>5. QED
    BY <2>2, <2>3, <2>4 DEF Ja4
<1>9. BrowserScore(M) = BrowserScore(N)
  <2>1. HasPostQuantumKeyShare(M) <=> HasPostQuantumKeyShare(N)
    BY <1>7 DEF HasPostQuantumKeyShare
  <2>2. \A p : Offers(M, p) <=> Offers(N, p)
    BY <1>7 DEF Offers
  <2>3. QED
    BY <1>5, <1>6, <1>7, <2>1, <2>2 DEF BrowserScore, Worth
<1>10. LikelyLaunchSource(M) = LikelyLaunchSource(N)
  BY <1>9, LaunchIsScored
<1>11. QED
  BY <1>4, <1>7, <1>8, <1>10

--------------------------------------------------------------------------------
(* One extension more. *)

\* What it adds to the order and to the answers.
Grown(h, n, e) ==
    /\ \A K : e.type \in K =>
         Cardinality(Kept(Order(n.exts), K)) = Cardinality(Kept(Order(h.exts), K)) + 1
    /\ \A t : Has(h, t) => Has(n, t)
    /\ \A t : Answer(h, t) # None => Answer(n, t) = Answer(h, t)

\* The client offers one extension more.
LEMMA ExtensionAdded ==
    ASSUME IsHello(hello), AddExtension
    PROVE  /\ IsHello(hello') /\ change' = "offer"
           /\ Len(hello'.exts) = Len(hello.exts) + 1
           /\ changes < MaxChanges
           /\ \E e \in Additions : Grown(hello, hello', e)
<1>1. PICK e \in Additions :
        /\ ~Has(hello, e.type)
        /\ Changed("offer", [hello EXCEPT !.exts = Append(hello.exts, e)])
  BY DEF AddExtension
<1>2. PICK x, new : x = hello.exts /\ new = Append(x, e)
  OBVIOUS
<1>3. AreExtensions(x) /\ IsExtension(e)
  BY <1>2, ClientAssumption DEF IsHello
<1>4. PICK n \in Nat : n = Len(x)
  BY <1>3, ExtensionsAre
<1>5. PICK S : x \in Seq(S) /\ e \in S
  <2> DEFINE T == { x[k] : k \in 1..Len(x) }
  <2>1. x \in Seq(T)
    BY <1>3, ExtensionsAre
  <2> HIDE DEF T
  <2>2. x \in Seq(T \cup {e})
    BY <2>1, SeqMonotonic
  <2>3. QED
    BY <2>2
<1>6. new \in Seq(S) /\ HasPut(x, n, e, new) /\ Len(new) = Len(x) + 1
  BY <1>2, <1>4, <1>5, AppendedAt DEF HasPut
<1>7. \A k \in 1..Len(x) : x[k].type # e.type
  BY <1>1, <1>2, <1>3, ExtensionsAre DEF Has
<1>8. /\ AreExtensions(new)
      /\ HasPut(Order(x), n, e.type, Order(new))
      /\ \A t, v : Finds(new, t, v) <=> Finds(x, t, v) \/ (t = e.type /\ v = e.value)
  BY <1>3, <1>4, <1>6, <1>7, PutExtension
<1>9. hello' = [hello EXCEPT !.exts = new] /\ change' = "offer" /\ changes < MaxChanges
  BY <1>1, <1>2 DEF Changed
<1>10. IsHello(hello') /\ hello'.exts = new
  BY <1>8, <1>9, HelloWith
<1>11. AreExtensions(hello'.exts) /\ AreExtensions(hello.exts)
  BY <1>2, <1>3, <1>8, <1>10
<1>12. ASSUME NEW K, e.type \in K
       PROVE  Cardinality(Kept(Order(new), K)) = Cardinality(Kept(Order(x), K)) + 1
  <2>1. PICK a \in Seq(Codepoint), b \in Seq(Codepoint) :
          a = Order(x) /\ b = Order(new) /\ Len(a) = n
    BY <1>3, <1>4, <1>8, ExtensionsAre
  <2>2. HasPut(a, Len(a), e.type, b)
    BY <1>8, <2>1
  <2>3. Cardinality(Kept(b, K)) = Cardinality(Kept(a, K)) + 1
    BY <1>12, <2>2, KeptSeen
  <2>4. QED
    BY <2>1, <2>3
<1>13. ASSUME NEW t
       PROVE  (Has(hello, t) => Has(hello', t))
              /\ (Answer(hello, t) # None => Answer(hello', t) = Answer(hello, t))
  <2>1. /\ Has(hello, t) => Finds(x, t, Answer(hello, t))
        /\ ~Has(hello, t) => Answer(hello, t) = None
    BY <1>2, <1>11, AnswerIs
  <2>2. \A v : Finds(new, t, v) => Has(hello', t) /\ Answer(hello', t) = v
    BY <1>10, <1>11, AnswerIs
  <2>3. QED
    BY <1>8, <2>1, <2>2
<1>14. Grown(hello, hello', e)
  BY <1>2, <1>10, <1>12, <1>13 DEF Grown
<1>15. QED
  BY <1>2, <1>6, <1>9, <1>10, <1>14

\* How many extensions JA4 counts and how many it hashes.
LEMMA CountedIs ==
    ASSUME NEW h, IsHello(h)
    PROVE  /\ Len(NoGrease(Order(h.exts))) = Cardinality(Kept(Order(h.exts), Plain))
           /\ Len(NoGrease(Order(h.exts))) \in 0..Len(h.exts)
           /\ Len(h.exts) \in Nat
           /\ DOMAIN Sorted(Picked(Order(h.exts), Kept(Order(h.exts), Hashable)))
                = 1..Cardinality(Kept(Order(h.exts), Hashable))
           /\ Cardinality(Kept(Order(h.exts), Hashable)) \in Nat
<1>1. PICK a \in Seq(Codepoint) : a = Order(h.exts) /\ Len(a) = Len(h.exts) /\ Len(h.exts) \in Nat
  BY ExtensionsAre DEF IsHello
<1>2. Len(NoGrease(a)) = Cardinality(Kept(a, Plain))
  BY NoGreaseIs, PickedLength
<1>3. Cardinality(Kept(a, Plain)) \in 0..Len(a)
  <2>1. Kept(a, Plain) \subseteq 1..Len(a)
    BY KeptAre
  <2>2. IsFiniteSet(1..Len(a)) /\ Cardinality(1..Len(a)) = Len(a)
    <3>1. 1 \in Int /\ Len(a) \in Int /\ Len(a) \in Nat
      BY <1>1
    <3>2. QED
      BY <3>1, FS_Interval
  <2>3. Cardinality(Kept(a, Plain)) <= Len(a) /\ Cardinality(Kept(a, Plain)) \in Nat
    BY <2>1, <2>2, FS_Subset, FS_CardinalityType
  <2>4. QED
    BY <1>1, <2>3
<1>4. /\ DOMAIN Picked(a, Kept(a, Hashable)) = 1..Cardinality(Kept(a, Hashable))
      /\ Cardinality(Kept(a, Hashable)) \in Nat
  BY PickedLength, KeptAre
<1>5. DOMAIN Sorted(Picked(a, Kept(a, Hashable))) = 1..Cardinality(Kept(a, Hashable))
  BY <1>4 DEF Sorted
<1>6. QED
  BY <1>1, <1>2, <1>3, <1>4, <1>5

\* It shows in both fingerprints.
LEMMA OfferShows ==
    ASSUME NEW h, IsHello(h), NEW n, IsHello(n), NEW e \in Additions, Grown(h, n, e),
           e.type \in {Ext.server_name, Ext.alpn} => Len(h.exts) < 99
    PROVE  Ja3(Observe(h)) # Ja3(Observe(n)) /\ Ja4(Observe(h)) # Ja4(Observe(n))
<1>1. e.type \in Plain
  BY ClientAssumption, GreaseIsReserved DEF IsExtension, Plain
<1>2. PICK x, y : x = Order(h.exts) /\ y = Order(n.exts)
  OBVIOUS
<1>3. Observe(h).extension_order = x /\ Observe(n).extension_order = y
  BY <1>2, ObservedIs
<1>4. PICK c \in Nat, d \in Nat : c = Len(NoGrease(x)) /\ d = Len(NoGrease(y)) /\ d = c + 1 /\ c <= Len(h.exts)
                                  /\ Len(h.exts) \in Nat
  BY <1>1, <1>2, CountedIs DEF Grown
<1>5. Ja3(Observe(h)) # Ja3(Observe(n))
  <2>0. c # d
    BY <1>4
  <2>1. NoGrease(x) # NoGrease(y)
    BY <1>4, <2>0, Zenon
  <2>2. Ja3(Observe(h))[3] = NoGrease(x) /\ Ja3(Observe(n))[3] = NoGrease(y)
    BY <1>3 DEF Ja3
  <2>3. QED
    BY <2>1, <2>2
<1>6. CASE e.type \in {Ext.server_name, Ext.alpn}
  <2>1. c < 99 /\ TwoDigits(c) = c /\ TwoDigits(d) = d
    BY <1>4, <1>6 DEF TwoDigits
  <2>2. Ja4(Observe(h))[1].extensions = TwoDigits(c) /\ Ja4(Observe(n))[1].extensions = TwoDigits(d)
    BY <1>3, <1>4 DEF Ja4, Ja4a
  <2>3. QED
    BY <1>4, <1>5, <2>1, <2>2
<1>7. CASE e.type \notin {Ext.server_name, Ext.alpn}
  <2>1. e.type \in Hashable
    BY <1>1, <1>7 DEF Hashable
  <2>2. PICK a, b : /\ a = Sorted(Picked(x, Kept(x, Hashable)))
                    /\ b = Sorted(Picked(y, Kept(y, Hashable)))
    OBVIOUS
  <2>3. PICK p \in Nat, q \in Nat : DOMAIN a = 1..p /\ DOMAIN b = 1..q /\ q = p + 1
    BY <1>2, <2>1, <2>2, CountedIs DEF Grown
  <2>4. a # b
    BY <2>3
  <2>5. Ja4(Observe(h))[3][1] = Decimal(a) /\ Ja4(Observe(n))[3][1] = Decimal(b)
    BY <1>2, <2>2, HashedIs DEF Ja4
  <2>6. Decimal(a).codes = a /\ Decimal(b).codes = b
    BY DEF Decimal
  <2>7. QED
    BY <1>5, <2>4, <2>5, <2>6
<1>8. QED
  BY <1>6, <1>7

--------------------------------------------------------------------------------
(* The score of a client. *)

\* What counts for a browser counts no less where more of it holds.
LEMMA WorthGrows ==
    ASSUME NEW w \in Nat, NEW c, NEW d, c => d
    PROVE  /\ Worth(w, c) \in Int /\ Worth(w, d) \in Int
           /\ Worth(w, c) <= Worth(w, d)
BY DEF Worth

\* So the score of the client does not fall.
LEMMA ScoreGrows ==
    ASSUME NEW h, IsHello(h), NEW n, IsHello(n), NEW e \in Additions, Grown(h, n, e)
    PROVE  /\ BrowserScore(Observe(h)) \in Int /\ BrowserScore(Observe(n)) \in Int
           /\ BrowserScore(Observe(h)) <= BrowserScore(Observe(n))
<1>1. PICK M, N : M = Observe(h) /\ N = Observe(n)
  OBVIOUS
<1>2. e.type \in Plain
  BY ClientAssumption, GreaseIsReserved DEF IsExtension, Plain
<1>3. PICK c \in Nat, d \in Nat :
        /\ c = Len(NoGrease(M.extension_order)) /\ d = Len(NoGrease(N.extension_order))
        /\ c <= d
  <2>1. M.extension_order = Order(h.exts) /\ N.extension_order = Order(n.exts)
    BY <1>1, ObservedIs
  <2>2. /\ Len(NoGrease(Order(h.exts))) \in Nat /\ Len(NoGrease(Order(n.exts))) \in Nat
        /\ Len(NoGrease(Order(n.exts))) = Len(NoGrease(Order(h.exts))) + 1
    BY <1>2, CountedIs DEF Grown
  <2>3. QED
    BY <2>1, <2>2
<1>4. /\ M.ech_present => N.ech_present
      /\ M.compress_certificate_present => N.compress_certificate_present
      /\ M.signature_algorithms # None => N.signature_algorithms # None
      /\ M.key_share_groups # None => N.key_share_groups = M.key_share_groups
      /\ M.alpn_protocols # None => N.alpn_protocols = M.alpn_protocols
  BY <1>1, ObservedIs DEF Grown
<1>5. Entries(None) = {}
  BY DEF Entries, OrEmpty
<1>6. HasPostQuantumKeyShare(M) => HasPostQuantumKeyShare(N)
  BY <1>4, <1>5 DEF HasPostQuantumKeyShare
<1>7. \A p : Offers(M, p) => Offers(N, p)
  BY <1>4, <1>5 DEF Offers
<1>8. /\ Worth(3, M.ech_present) \in Int /\ Worth(3, N.ech_present) \in Int
      /\ Worth(3, M.ech_present) <= Worth(3, N.ech_present)
  BY <1>4, WorthGrows
<1>9. /\ Worth(3, HasPostQuantumKeyShare(M)) \in Int /\ Worth(3, HasPostQuantumKeyShare(N)) \in Int
      /\ Worth(3, HasPostQuantumKeyShare(M)) <= Worth(3, HasPostQuantumKeyShare(N))
  BY <1>6, WorthGrows
<1>10. /\ Worth(1, M.compress_certificate_present) \in Int
       /\ Worth(1, N.compress_certificate_present) \in Int
       /\ Worth(1, M.compress_certificate_present) <= Worth(1, N.compress_certificate_present)
  BY <1>4, WorthGrows
<1>11. /\ Worth(2, Offers(M, "http_3")) \in Int /\ Worth(2, Offers(N, "http_3")) \in Int
       /\ Worth(2, Offers(M, "http_3")) <= Worth(2, Offers(N, "http_3"))
  BY <1>7, WorthGrows
<1>12. /\ Worth(1, Offers(M, "http_2")) \in Int /\ Worth(1, Offers(N, "http_2")) \in Int
       /\ Worth(1, Offers(M, "http_2")) <= Worth(1, Offers(N, "http_2"))
  BY <1>7, WorthGrows
<1>13. /\ Worth(1, M.signature_algorithms # None) \in Int
       /\ Worth(1, N.signature_algorithms # None) \in Int
       /\ Worth(1, M.signature_algorithms # None) <= Worth(1, N.signature_algorithms # None)
  BY <1>4, WorthGrows
<1>14. /\ Worth(1, c >= 12) \in Int /\ Worth(1, d >= 12) \in Int
       /\ Worth(1, c >= 12) <= Worth(1, d >= 12)
       /\ Worth(2, c <= 5) \in Int /\ Worth(2, d <= 5) \in Int
       /\ Worth(2, d <= 5) <= Worth(2, c <= 5)
  <2>1. (c >= 12 => d >= 12) /\ (d <= 5 => c <= 5)
    BY <1>3
  <2>2. QED
    BY <2>1, WorthGrows
<1>15. /\ BrowserScore(M) =
            Worth(3, M.ech_present) + Worth(3, HasPostQuantumKeyShare(M))
              + Worth(1, M.compress_certificate_present) + Worth(2, Offers(M, "http_3"))
              + Worth(1, Offers(M, "http_2")) + Worth(1, M.signature_algorithms # None)
              + Worth(1, c >= 12) - Worth(2, c <= 5)
       /\ BrowserScore(N) =
            Worth(3, N.ech_present) + Worth(3, HasPostQuantumKeyShare(N))
              + Worth(1, N.compress_certificate_present) + Worth(2, Offers(N, "http_3"))
              + Worth(1, Offers(N, "http_2")) + Worth(1, N.signature_algorithms # None)
              + Worth(1, d >= 12) - Worth(2, d <= 5)
  BY <1>3, Zenon DEF BrowserScore
<1>16. BrowserScore(M) \in Int /\ BrowserScore(N) \in Int /\ BrowserScore(M) <= BrowserScore(N)
  BY <1>8, <1>9, <1>10, <1>11, <1>12, <1>13, <1>14, <1>15
<1>17. QED
  BY <1>1, <1>16

\* A higher score ranks no lower.
LEMMA RankGrows ==
    ASSUME NEW s \in Int, NEW t \in Int, s <= t
    PROVE  Rank[LaunchOfScore(s)] <= Rank[LaunchOfScore(t)]
<1>1. /\ Rank["cli"] = 0 /\ Rank["unknown"] = 1 /\ Rank["library"] = 2 /\ Rank["browser"] = 3
  BY DEF Rank, LaunchSources
<1>2. PICK p, q : p = LaunchOfScore(s) /\ q = LaunchOfScore(t)
  OBVIOUS
<1>3. /\ s >= 5 => p = "browser" /\ q = "browser"
      /\ s \in 2..4 => p = "library" /\ q \in {"library", "browser"}
      /\ s \in 0..1 => p = "unknown" /\ q \in {"unknown", "library", "browser"}
      /\ s <= -1 => p = "cli" /\ q \in {"cli", "unknown", "library", "browser"}
  <2>1. /\ t >= 5 => q = "browser"
        /\ t \in 2..4 => q = "library"
        /\ t \in 0..1 => q = "unknown"
        /\ t <= -1 => q = "cli"
    BY <1>2 DEF LaunchOfScore
  <2>2. /\ s >= 5 => p = "browser"
        /\ s \in 2..4 => p = "library"
        /\ s \in 0..1 => p = "unknown"
        /\ s <= -1 => p = "cli"
    BY <1>2 DEF LaunchOfScore
  <2>3. QED
    BY <2>1, <2>2
<1>4. s >= 5 \/ s \in 2..4 \/ s \in 0..1 \/ s <= -1
  OBVIOUS
<1>5. Rank[p] <= Rank[q]
  BY <1>1, <1>3, <1>4
<1>6. QED
  BY <1>2, <1>5

--------------------------------------------------------------------------------
(* Versions. *)

\* The codepoints the code knows.
KnownCodes == \h0300..\h0304

\* Their classes; none of them is GREASE.
LEMMA CodesAre ==
    /\ VersionFromWire(768) = "ssl_3_0" /\ VersionFromWire(769) = "tls_1_0"
    /\ VersionFromWire(770) = "tls_1_1" /\ VersionFromWire(771) = "tls_1_2"
    /\ VersionFromWire(772) = "tls_1_3"
    /\ \A v \in KnownCodes : v \in {768, 769, 770, 771, 772} /\ ~IsGrease(v)
<1>1. /\ VersionFromWire(768) = "ssl_3_0" /\ VersionFromWire(769) = "tls_1_0"
      /\ VersionFromWire(770) = "tls_1_1" /\ VersionFromWire(771) = "tls_1_2"
      /\ VersionFromWire(772) = "tls_1_3"
  BY DEF VersionFromWire, Versions
<1>2. \A v \in KnownCodes : v \in {768, 769, 770, 771, 772} /\ ~IsGrease(v)
  BY DEF KnownCodes, IsGrease
<1>3. QED
  BY <1>1, <1>2

\* They are ranked as they are numbered.
LEMMA RanksAre ==
    \A v \in KnownCodes :
        /\ VersionFromWire(v) # "other"
        /\ VersionRank(VersionFromWire(v)) = v - 766
<1>1. /\ VersionRank("ssl_3_0") = 2 /\ VersionRank("tls_1_0") = 3 /\ VersionRank("tls_1_1") = 4
      /\ VersionRank("tls_1_2") = 5 /\ VersionRank("tls_1_3") = 6
  <2>1. DOMAIN Versions = 1..6
    BY DEF Versions
  <2>2. /\ Versions[1] = "other" /\ Versions[2] = "ssl_3_0" /\ Versions[3] = "tls_1_0"
        /\ Versions[4] = "tls_1_1" /\ Versions[5] = "tls_1_2" /\ Versions[6] = "tls_1_3"
    BY DEF Versions
  <2>3. ASSUME NEW j \in 2..6
        PROVE  VersionRank(Versions[j]) = j
    <3>1. \A k \in 1..6 : Versions[k] = Versions[j] => k = j
      BY <2>2
    <3>2. j \in DOMAIN Versions /\ \A k \in DOMAIN Versions : Versions[k] = Versions[j] => k = j
      BY <2>1, <3>1
    <3>3. QED
      BY <3>2, Zenon DEF VersionRank
  <2>4. QED
    BY <2>2, <2>3
<1>2. QED
  BY <1>1, CodesAre

\* Codepoints are numbers of 16 bits.
LEMMA CodepointIs == \A v \in Codepoint : v \in Nat /\ v < 65536
BY DEF Codepoint

\* The greatest of the codepoints of a list.
LEMMA GreatestCode ==
    ASSUME NEW S, S # {}, \A v \in S : v \in Codepoint
    PROVE  \E g \in S : \A v \in S : v <= g
<1>1. \A k \in S : k \in Nat /\ k < 65536
  BY CodepointIs
<1>2. PICK m \in Nat : m = 65536
  OBVIOUS
<1>3. S \subseteq Nat /\ \A k \in S : k < m
  BY <1>1, <1>2
<1>4. QED
  BY <1>3, GreatestNatural

\* The highest version is that of the greatest codepoint that is known.
LEMMA HighestIs ==
    ASSUME NEW meta, \A v \in Entries(meta.supported_versions) : v \in Codepoint
    PROVE  LET C == Entries(meta.supported_versions) \cap KnownCodes
           IN  /\ C = {} <=> KnownVersions(meta) = {}
               /\ \A g \in C : (\A v \in C : v <= g) =>
                    /\ HighestVersion(meta) = VersionFromWire(g)
                    /\ \A v \in KnownVersions(meta) :
                         VersionRank(v) <= VersionRank(HighestVersion(meta))
<1> DEFINE E == Entries(meta.supported_versions)
           C == E \cap KnownCodes
           V == KnownVersions(meta)
<1>1. \A v \in E : VersionFromWire(v) # "other" => v \in C
  BY DEF VersionFromWire, KnownCodes
<1>2. \A v \in C : /\ VersionFromWire(v) # "other" /\ v \in Int
                   /\ VersionRank(VersionFromWire(v)) = v - 766
  BY RanksAre DEF KnownCodes
<1>3. V = { VersionFromWire(v) : v \in E } \ {"other"}
  BY DEF KnownVersions
<1>4. C \subseteq E
  OBVIOUS
<1> HIDE DEF E, C, V
<1>5. /\ \A w \in V : \E v \in C : w = VersionFromWire(v)
      /\ \A v \in C : VersionFromWire(v) \in V
  BY <1>1, <1>2, <1>3, <1>4
<1>6. C = {} <=> V = {}
  BY <1>5
<1>7. ASSUME NEW g \in C, \A v \in C : v <= g
      PROVE  /\ HighestVersion(meta) = VersionFromWire(g)
             /\ \A w \in V : VersionRank(w) <= VersionRank(HighestVersion(meta))
  <2>1. PICK top : top = VersionFromWire(g)
    OBVIOUS
  <2>2. top \in V /\ VersionRank(top) = g - 766 /\ g \in Int
    BY <1>2, <1>5, <2>1
  <2>3. \A w \in V : VersionRank(w) <= VersionRank(top)
    <3> TAKE w \in V
    <3>1. PICK v \in C : w = VersionFromWire(v)
      BY <1>5
    <3>2. VersionRank(w) = v - 766 /\ v \in Int /\ v <= g
      BY <1>2, <1>7, <3>1
    <3>3. QED
      BY <2>2, <3>2
  <2>4. \A w \in V : (\A u \in V : VersionRank(u) <= VersionRank(w)) => w = top
    <3> TAKE w \in V
    <3>1. PICK v \in C : w = VersionFromWire(v)
      BY <1>5
    <3>2. VersionRank(w) = v - 766 /\ v \in Int /\ v <= g
      BY <1>2, <1>7, <3>1
    <3>3. VersionRank(top) <= VersionRank(w) => v = g
      BY <2>2, <3>2
    <3>4. QED
      BY <2>1, <2>2, <3>1, <3>3
  <2>5. HighestVersion(meta)
          = CHOOSE v \in V : \A w \in V : VersionRank(w) <= VersionRank(v)
    BY <2>2 DEF HighestVersion, V
  <2>6. HighestVersion(meta) = top
    BY <2>2, <2>3, <2>4, <2>5, Zenon
  <2>7. QED
    BY <2>1, <2>3, <2>6
<1>8. QED
  BY <1>6, <1>7 DEF C, E, V

\* JA4's version is of the greatest codepoint that is offered.
LEMMA Ja4VersionIs ==
    ASSUME NEW meta, NEW g,
           \/ /\ g \in Entries(meta.supported_versions) /\ ~IsGrease(g) /\ g \in Int
              /\ \A v \in Entries(meta.supported_versions) : ~IsGrease(v) => v \in Int /\ v <= g
           \/ g = LegacyVersion /\ \A v \in Entries(meta.supported_versions) : IsGrease(v)
    PROVE  Ja4Version(meta) = CASE g = \h0304 -> "13"
                                [] g = \h0303 -> "12"
                                [] g = \h0302 -> "11"
                                [] g = \h0301 -> "10"
                                [] g = \h0300 -> "s3"
                                [] OTHER -> "00"
<1> DEFINE O == { v \in Entries(meta.supported_versions) : ~IsGrease(v) }
           top == IF O = {} THEN LegacyVersion ELSE Maximum(O)
<1>1. \/ g \in O /\ \A v \in O : v \in Int /\ v <= g
      \/ g = LegacyVersion /\ O = {}
  OBVIOUS
<1>2. Ja4Version(meta) = CASE top = \h0304 -> "13"
                           [] top = \h0303 -> "12"
                           [] top = \h0302 -> "11"
                           [] top = \h0301 -> "10"
                           [] top = \h0300 -> "s3"
                           [] OTHER -> "00"
  BY Zenon DEF Ja4Version
<1>3. top = g
  <2> HIDE DEF O
  <2>1. CASE g \in O /\ \A v \in O : v \in Int /\ v <= g
    <3>1. \A v \in O : (\A k \in O : k <= v) => v = g
      BY <2>1
    <3>2. Maximum(O) = g
      BY <2>1, <3>1, Zenon DEF Maximum
    <3>3. QED
      BY <2>1, <3>2
  <2>2. QED
    BY <1>1, <2>1
<1> HIDE DEF top
<1>4. QED
  BY <1>2, <1>3

\* The highest version and that of JA4, of the codepoints that are offered.
LEMMA VersionsOf ==
    ASSUME IsHello(hello)
    PROVE  VersionsAgree
<1>1. PICK meta : meta = Observe(hello)
  OBVIOUS
<1> DEFINE E == Entries(meta.supported_versions)
           C == E \cap KnownCodes
           U == { v \in E : ~IsGrease(v) /\ VersionFromWire(v) = "other" }
           codes == [ssl_3_0 |-> "s3", tls_1_0 |-> "10", tls_1_1 |-> "11",
                     tls_1_2 |-> "12", tls_1_3 |-> "13"]
<1>2. \A v \in E : v \in Codepoint
  BY <1>1, ObservedIs, ListedAnswer DEF Listed
<1>3. /\ C = {} <=> KnownVersions(meta) = {}
      /\ \A g \in C : (\A v \in C : v <= g) =>
           /\ HighestVersion(meta) = VersionFromWire(g)
           /\ \A v \in KnownVersions(meta) :
                VersionRank(v) <= VersionRank(HighestVersion(meta))
  BY <1>2, HighestIs
<1>4. KnownVersions(meta) = {} => HighestVersion(meta) = "tls_1_2"
  BY DEF HighestVersion
<1>5. /\ \A v \in C : v \in E /\ v \in KnownCodes /\ ~IsGrease(v) /\ v \in Int
                      /\ v >= 768 /\ v <= 772
      /\ \A v \in U : v \in E /\ v \notin KnownCodes /\ ~IsGrease(v) /\ v \in Int
                      /\ (v < 768 \/ v > 772)
      /\ \A v \in E : ~IsGrease(v) => v \in C \/ v \in U
  <2>1. \A v \in KnownCodes : VersionFromWire(v) # "other"
    BY RanksAre
  <2>2. \A v : v \notin KnownCodes => VersionFromWire(v) = "other"
    BY DEF VersionFromWire, KnownCodes
  <2>3. \A v \in Codepoint : v \in Int /\ (v \in KnownCodes <=> v >= 768 /\ v <= 772)
    BY DEF Codepoint, KnownCodes
  <2>4. QED
    BY <1>2, <2>1, <2>2, <2>3, CodesAre
<1> HIDE DEF C, U
<1>6. ASSUME NEW S, S # {}, \A v \in S : v \in C \/ v \in U
      PROVE  \E g \in S : \A v \in S : v <= g
  <2>1. \A v \in S : v \in Codepoint
    BY <1>2, <1>5, <1>6
  <2>2. QED
    BY <1>6, <2>1, GreatestCode
<1>7. /\ \/ OffersVersion(meta, HighestVersion(meta))
         \/ KnownVersions(meta) = {} /\ HighestVersion(meta) = "tls_1_2"
      /\ \A v \in KnownVersions(meta) : VersionRank(v) <= VersionRank(HighestVersion(meta))
  <2>1. CASE C = {}
    BY <1>3, <1>4, <2>1
  <2>2. CASE C # {}
    <3>1. PICK g \in C : \A v \in C : v <= g
      BY <1>6, <2>2
    <3>2. g \in E /\ HighestVersion(meta) = VersionFromWire(g)
      BY <1>3, <1>5, <3>1
    <3>3. meta.supported_versions # None
      BY <3>2 DEF Entries, OrEmpty
    <3>4. QED
      BY <1>3, <3>1, <3>2, <3>3 DEF OffersVersion
  <2>3. QED
    BY <2>1, <2>2
<1>8. Ja4Version(meta) =
        IF \E v \in U : v > 772 THEN "00"
        ELSE IF U # {} /\ KnownVersions(meta) = {} THEN "00"
        ELSE codes[HighestVersion(meta)]
  <2>1. CASE \E v \in U : v > 772
    <3>1. PICK g \in C \cup U : \A v \in C \cup U : v <= g
      BY <1>6, <2>1
    <3>2. g \in Int /\ g > 772 /\ g \in E /\ ~IsGrease(g)
      BY <1>5, <2>1, <3>1
    <3>3. \A v \in E : ~IsGrease(v) => v \in Int /\ v <= g
      BY <1>5, <3>1
    <3>4. Ja4Version(meta) = "00"
      BY <3>2, <3>3, Ja4VersionIs
    <3>5. QED
      BY <2>1, <3>4
  <2>2. CASE (\A v \in U : ~(v > 772)) /\ U # {} /\ C = {}
    <3>1. PICK g \in U : \A v \in U : v <= g
      BY <1>6, <2>2
    <3>2. g \in Int /\ g < 768 /\ g \in E /\ ~IsGrease(g)
      BY <1>5, <2>2, <3>1
    <3>3. \A v \in E : ~IsGrease(v) => v \in Int /\ v <= g
      BY <1>5, <2>2, <3>1
    <3>4. Ja4Version(meta) = "00"
      BY <3>2, <3>3, Ja4VersionIs
    <3>5. QED
      BY <1>3, <2>2, <3>4
  <2>3. CASE (\A v \in U : ~(v > 772)) /\ C # {}
    <3>1. PICK g \in C : \A v \in C : v <= g
      BY <1>6, <2>3
    <3>2. g \in Int /\ g \in E /\ ~IsGrease(g) /\ g \in {768, 769, 770, 771, 772}
      BY <1>5, <3>1, CodesAre
    <3>3. \A v \in E : ~IsGrease(v) => v \in Int /\ v <= g
      BY <1>5, <2>3, <3>1, <3>2
    <3>4. Ja4Version(meta) = CASE g = 772 -> "13" [] g = 771 -> "12" [] g = 770 -> "11"
                               [] g = 769 -> "10" [] g = 768 -> "s3" [] OTHER -> "00"
      BY <3>2, <3>3, Ja4VersionIs
    <3>5. HighestVersion(meta) = VersionFromWire(g)
      BY <1>3, <3>1
    <3>6. Ja4Version(meta) = codes[HighestVersion(meta)]
      BY <3>2, <3>4, <3>5, CodesAre
    <3>7. QED
      BY <1>3, <2>3, <3>6
  <2>4. CASE U = {} /\ C = {}
    <3>1. \A v \in E : IsGrease(v)
      BY <1>5, <2>4
    <3>2. LegacyVersion = 771
      BY DEF LegacyVersion
    <3>3. Ja4Version(meta) = "12"
      BY <3>1, <3>2, Ja4VersionIs
    <3>4. QED
      BY <1>3, <1>4, <2>4, <3>3
  <2>5. QED
    BY <2>1, <2>2, <2>3, <2>4
<1>9. QED
  BY <1>1, <1>7, <1>8 DEF VersionsAgree, U

--------------------------------------------------------------------------------
(* The inductive invariant: the parser accepts every hello of the client, and JA4  *)
(* has digits left to count an extension it may come to offer and does not hash.   *)

DriftInv ==
    /\ IsHello(hello)
    /\ changes \in Nat
    /\ \/ \A e \in Additions : e.type \notin {Ext.server_name, Ext.alpn}
       \/ Len(hello.exts) + MaxChanges <= 99 + changes

\* It holds when the client opens.
LEMMA DriftStarts ==
    ASSUME Init
    PROVE  DriftInv
<1>1. hello \in Hellos /\ changes = 0
  BY DEF Init
<1>2. IsHello(hello)
  BY <1>1, ClientAssumption
<1>3. Len(hello.exts) \in Nat /\ MaxChanges \in Nat
  BY <1>2, ClientAssumption DEF IsHello, AreExtensions
<1>4. \/ \A e \in Additions : e.type \notin {Ext.server_name, Ext.alpn}
      \/ Len(hello.exts) + MaxChanges <= 99
  BY <1>1, CountAssumption
<1>5. QED
  BY <1>1, <1>2, <1>3, <1>4 DEF DriftInv

\* Every change keeps it.
LEMMA DriftSteps ==
    ASSUME DriftInv, [Next]_vars
    PROVE  DriftInv'
<1>1. /\ IsHello(hello) /\ changes \in Nat /\ MaxChanges \in Nat
      /\ Len(hello.exts) \in Nat
  BY ClientAssumption DEF DriftInv, IsHello, AreExtensions
<1>2. ASSUME Next
      PROVE  IsHello(hello') /\ Len(hello'.exts) \in {Len(hello.exts), Len(hello.exts) + 1}
  <2>1. CASE GreaseCipher
    BY <1>1, <2>1, CipherGreased
  <2>2. CASE GreaseExtension
    BY <1>1, <2>2, ExtensionGreased
  <2>3. CASE GreaseEntry
    BY <1>1, <2>3, EntryGreased
  <2>4. CASE SwapCiphers
    BY <1>1, <2>4, CiphersSwapped
  <2>5. CASE SwapExtensions
    BY <1>1, <2>5, ExtensionsSwapped
  <2>6. CASE NextHost
    BY <1>1, <2>6, HostChanged
  <2>7. CASE AddExtension
    BY <1>1, <2>7, ExtensionAdded
  <2>8. QED
    BY <1>2, <2>1, <2>2, <2>3, <2>4, <2>5, <2>6, <2>7 DEF Next
<1>3. ASSUME Next
      PROVE  changes' = changes + 1
  BY <1>3 DEF Next, GreaseCipher, GreaseExtension, GreaseEntry, SwapCiphers, SwapExtensions,
              NextHost, AddExtension, Changed
<1>4. CASE Next
  <2>1. PICK l \in Nat, m \in Nat : l = Len(hello.exts) /\ m = Len(hello'.exts) /\ m <= l + 1
    BY <1>1, <1>2, <1>4
  <2>2. changes' \in Nat /\ changes' = changes + 1
    BY <1>1, <1>3, <1>4
  <2>3. l + MaxChanges <= 99 + changes => m + MaxChanges <= 99 + changes'
    BY <1>1, <2>1, <2>2
  <2>4. QED
    BY <1>2, <1>4, <2>1, <2>2, <2>3 DEF DriftInv
<1>5. CASE UNCHANGED vars
  BY <1>5 DEF vars, DriftInv
<1>6. QED
  BY <1>4, <1>5

\* So it holds of every hello of the client.
LEMMA DriftHolds == Spec => []DriftInv
<1>1. Init => DriftInv
  BY DriftStarts
<1>2. DriftInv /\ [Next]_vars => DriftInv'
  BY DriftSteps
<1>3. QED
  BY <1>1, <1>2, PTL DEF Spec

\* What a step is called.
LEMMA StepsAreNamed ==
    ASSUME IsHello(hello), Next
    PROVE  \/ Masked(hello, hello') /\ IsHello(hello') /\ change' = "grease"
           \/ SwapCiphers /\ change' = "order"
           \/ SwapExtensions /\ change' = "order"
           \/ NextHost /\ change' = "host"
           \/ AddExtension /\ change' = "offer"
<1>1. CASE GreaseCipher
  BY <1>1, CipherGreased
<1>2. CASE GreaseExtension
  BY <1>2, ExtensionGreased
<1>3. CASE GreaseEntry
  BY <1>3, EntryGreased
<1>4. CASE SwapCiphers
  BY <1>4, CiphersSwapped
<1>5. CASE SwapExtensions
  BY <1>5, ExtensionsSwapped
<1>6. CASE NextHost
  BY <1>6, HostChanged
<1>7. CASE AddExtension
  BY <1>7, ExtensionAdded
<1>8. QED
  BY <1>1, <1>2, <1>3, <1>4, <1>5, <1>6, <1>7 DEF Next

--------------------------------------------------------------------------------
(* The properties. *)

\* For every client: the version the accessor answers is one the hello offers, or the
\* default where it offers none that is known, no known one that it offers is higher,
\* and JA4 says the same version but where a codepoint nobody knows is the largest.
THEOREM VersionsAlwaysAgree == Spec => []VersionsAgree
<1>1. DriftInv => VersionsAgree
  BY VersionsOf DEF DriftInv
<1>2. QED
  BY <1>1, DriftHolds, PTL

\* For every client: GREASE, among the suites, the extensions or the entries of a list,
\* changes neither fingerprint, launch source nor class.
THEOREM GreaseStaysInvisible == Spec => GreaseInvisible
<1> DEFINE Unseen ==
      change' = "grease" =>
        LET m == Observe(hello)
            n == Observe(hello')
        IN  /\ Ja3(m) = Ja3(n)
            /\ Ja4(m) = Ja4(n)
            /\ LikelyLaunchSource(m) = LikelyLaunchSource(n)
            /\ HighestVersion(m) = HighestVersion(n)
            /\ HasPostQuantumKeyShare(m) = HasPostQuantumKeyShare(n)
            /\ UnstableExtensions(m) = UnstableExtensions(n)
            /\ HrrSniConsistent(m, n) \in {TRUE, None}
<1>1. DriftInv /\ [Next]_vars => [Unseen]_vars
  <2>1. SUFFICES ASSUME DriftInv, Next, change' = "grease"
                 PROVE  Unseen
    OBVIOUS
  <2>2. IsHello(hello)
    BY <2>1 DEF DriftInv
  <2>3. Masked(hello, hello') /\ IsHello(hello')
    BY <2>1, <2>2, StepsAreNamed
  <2>4. QED
    BY <2>2, <2>3, MaskedInvisible
<1> HIDE DEF Unseen
<1>2. Spec => [][Unseen]_vars
  BY <1>1, DriftHolds, PTL DEF Spec
<1>3. QED
  BY <1>2 DEF Unseen, GreaseInvisible

\* For every client: the order of its suites and extensions, and the host it goes to,
\* change neither JA4 nor launch source, and its two hellos are consistent exactly
\* when the host stays.
THEOREM OrderStaysInvisible == Spec => OrderInvisible
<1> DEFINE Unseen ==
      change' \in {"order", "host"} =>
        LET m == Observe(hello)
            n == Observe(hello')
        IN  /\ Ja4(m) = Ja4(n)
            /\ LikelyLaunchSource(m) = LikelyLaunchSource(n)
            /\ HrrSniConsistent(m, n) =
                 IF m.ech_present \/ Answer(hello, Ext.server_name) = None THEN None
                 ELSE change' # "host"
<1>1. DriftInv /\ [Next]_vars => [Unseen]_vars
  <2>1. SUFFICES ASSUME DriftInv, Next, change' \in {"order", "host"}
                 PROVE  Unseen
    OBVIOUS
  <2>2. IsHello(hello)
    BY <2>1 DEF DriftInv
  <2>3. PICK old, new : old = Answer(hello, Ext.server_name) /\ new = Answer(hello', Ext.server_name)
    OBVIOUS
  <2>4. /\ IsHello(hello') /\ Reordered(hello, hello')
        /\ \/ change' = "order" /\ new = old
           \/ change' = "host" /\ old # None /\ new # None /\ new # old
    <3>1. CASE SwapCiphers /\ change' = "order"
      BY <2>2, <2>3, <3>1, CiphersSwapped, SameExtensions
    <3>2. CASE SwapExtensions /\ change' = "order"
      BY <2>2, <2>3, <3>2, ExtensionsSwapped
    <3>3. CASE NextHost /\ change' = "host"
      BY <2>2, <2>3, <3>3, HostChanged DEF Reordered
    <3>4. QED
      BY <2>1, <2>2, <3>1, <3>2, <3>3, StepsAreNamed
  <2>5. PICK m, n : m = Observe(hello) /\ n = Observe(hello')
    OBVIOUS
  <2>6. /\ Ja4(m) = Ja4(n)
        /\ LikelyLaunchSource(m) = LikelyLaunchSource(n)
        /\ m.ech_present <=> n.ech_present
    BY <2>2, <2>4, <2>5, OrderUnseen
  <2>7. /\ m.host = IF m.ech_present THEN None ELSE old
        /\ n.host = IF n.ech_present THEN None ELSE new
    BY <2>3, <2>5, ObservedIs DEF VisibleHost
  <2>8. HrrSniConsistent(m, n) =
          IF m.ech_present \/ old = None THEN None ELSE change' # "host"
    <3>1. CASE m.ech_present \/ old = None
      BY <2>4, <2>6, <2>7, <3>1 DEF HrrSniConsistent, OutcomeKind
    <3>2. CASE ~(m.ech_present \/ old = None)
      <4>1. ~m.ech_present /\ ~n.ech_present /\ m.host = old /\ n.host = new
            /\ old # None /\ new # None
        BY <2>4, <2>6, <2>7, <3>2
      <4>2. OutcomeKind(m) = "cleartext" /\ OutcomeKind(n) = "cleartext"
        BY <4>1 DEF OutcomeKind
      <4>3. HrrSniConsistent(m, n) = (old = new)
        BY <4>1, <4>2 DEF HrrSniConsistent
      <4>4. (old = new) <=> change' # "host"
        BY <2>4
      <4>5. QED
        BY <3>2, <4>3, <4>4
    <3>3. QED
      BY <3>1, <3>2
  <2>9. QED
    BY <2>3, <2>5, <2>6, <2>8
<1> HIDE DEF Unseen
<1>2. Spec => [][Unseen]_vars
  BY <1>1, DriftHolds, PTL DEF Spec
<1>3. QED
  BY <1>2 DEF Unseen, OrderInvisible

\* For every client: no extension it comes to offer makes it look less like a browser.
THEOREM OffersNeverDemote == Spec => OfferNeverDemotes
<1> DEFINE Undemoted ==
      change' = "offer" =>
        Rank[LikelyLaunchSource(Observe(hello))] <= Rank[LikelyLaunchSource(Observe(hello'))]
<1>1. DriftInv /\ [Next]_vars => [Undemoted]_vars
  <2>1. SUFFICES ASSUME DriftInv, Next, change' = "offer"
                 PROVE  Undemoted
    OBVIOUS
  <2>2. IsHello(hello)
    BY <2>1 DEF DriftInv
  <2>3. IsHello(hello') /\ \E e \in Additions : Grown(hello, hello', e)
    BY <2>1, <2>2, StepsAreNamed, ExtensionAdded
  <2>4. PICK s \in Int, t \in Int :
          s = BrowserScore(Observe(hello)) /\ t = BrowserScore(Observe(hello')) /\ s <= t
    BY <2>2, <2>3, ScoreGrows
  <2>5. /\ LikelyLaunchSource(Observe(hello)) = LaunchOfScore(s)
        /\ LikelyLaunchSource(Observe(hello')) = LaunchOfScore(t)
    BY <2>4, LaunchIsScored
  <2>6. QED
    BY <2>4, <2>5, RankGrows
<1> HIDE DEF Undemoted
<1>2. Spec => [][Undemoted]_vars
  BY <1>1, DriftHolds, PTL DEF Spec
<1>3. QED
  BY <1>2 DEF Undemoted, OfferNeverDemotes

\* For every client: an extension it comes to offer shows in JA3 and in JA4.
THEOREM OffersAlwaysShow == Spec => OfferVisible
<1> DEFINE Shown ==
      change' = "offer" =>
        /\ Ja3(Observe(hello)) # Ja3(Observe(hello'))
        /\ Ja4(Observe(hello)) # Ja4(Observe(hello'))
<1>1. DriftInv /\ [Next]_vars => [Shown]_vars
  <2>1. SUFFICES ASSUME DriftInv, Next, change' = "offer"
                 PROVE  Shown
    OBVIOUS
  <2>2. IsHello(hello) /\ changes \in Nat /\ MaxChanges \in Nat /\ Len(hello.exts) \in Nat
    BY <2>1, ClientAssumption DEF DriftInv, IsHello, AreExtensions
  <2>3. IsHello(hello') /\ changes < MaxChanges
    BY <2>1, <2>2, StepsAreNamed, ExtensionAdded
  <2>4. PICK e \in Additions : Grown(hello, hello', e)
    BY <2>1, <2>2, StepsAreNamed, ExtensionAdded
  <2>5. e.type \in {Ext.server_name, Ext.alpn} => Len(hello.exts) < 99
    <3>1. Len(hello.exts) + MaxChanges <= 99 + changes => Len(hello.exts) < 99
      BY <2>2, <2>3
    <3>2. QED
      BY <2>1, <3>1 DEF DriftInv
  <2>6. QED
    BY <2>2, <2>3, <2>4, <2>5, OfferShows
<1> HIDE DEF Shown
<1>2. Spec => [][Shown]_vars
  BY <1>1, DriftHolds, PTL DEF Spec
<1>3. QED
  BY <1>2 DEF Shown, OfferVisible

================================================================================
