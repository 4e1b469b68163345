----------------------------- MODULE SniToolsProofs ----------------------------
(***************************************************************************)
(* For every corpus of lines and every set of hosts: the tally is what the *)
(* lines behind say, the report ranks its hosts by it, and what inspect    *)
(* shows of a line is the bucket its copies were counted in.               *)
(***************************************************************************)
EXTENDS SniTools, FunctionTheorems, FiniteSetTheorems, SequenceTheorems, TLAPS

--------------------------------------------------------------------------------
(* Numbers. *)

\* Of some numbers one is the least.
LEMMA LeastNatural ==
    ASSUME NEW S, S \subseteq Nat, S # {}
    PROVE  \E m \in S : \A k \in S : m <= k
<1> DEFINE Below == { 0..k : k \in S }
<1>1. Below \subseteq FiniteSubsetsOf(Nat)
  <2> SUFFICES ASSUME NEW k \in S PROVE 0..k \in FiniteSubsetsOf(Nat)
    OBVIOUS
  <2>1. k \in Int /\ 0 \in Int /\ 0..k \subseteq Nat
    OBVIOUS
  <2>2. QED
    BY <2>1, FS_Interval DEF FiniteSubsetsOf
<1>2. Below # {}
  OBVIOUS
<1>3. PICK b \in Below : \A c \in Below : ~(<<c, b>> \in StrictSubsetOrdering(Nat))
  <2> HIDE DEF Below
  <2>1. IsWellFoundedOn(StrictSubsetOrdering(Nat), FiniteSubsetsOf(Nat))
    BY FS_StrictSubsetOrderingWellFounded
  <2>2. QED
    BY <1>1, <1>2, <2>1, WFMin
<1>4. PICK m \in S : b = 0..m
  OBVIOUS
<1>5. ASSUME NEW k \in S, k < m
      PROVE  FALSE
  <2>1. 0..k \subseteq 0..m /\ m \in 0..m /\ m \notin 0..k
    BY <1>5
  <2>2. 0..k \in SUBSET Nat /\ 0..m \in SUBSET Nat
    BY <1>5
  <2>3. <<0..k, 0..m>> \in StrictSubsetOrdering(Nat)
    BY <2>1, <2>2 DEF StrictSubsetOrdering
  <2>4. QED
    BY <1>3, <1>4, <2>3
<1>6. QED
  BY <1>5

\* Of some numbers below m one is the greatest.
LEMMA GreatestNatural ==
    ASSUME NEW S, S \subseteq Nat, NEW m \in Nat, S # {}, \A k \in S : k < m
    PROVE  \E g \in S : \A k \in S : k <= g
<1> DEFINE T == { e \in Nat : m - e \in S }
<1>1. T \subseteq Nat /\ T # {}
  <2>1. PICK k \in S : TRUE
    OBVIOUS
  <2>2. k \in Nat /\ m - k \in Nat /\ m - (m - k) = k
    OBVIOUS
  <2>3. m - k \in T
    BY <2>2
  <2>4. QED
    BY <2>3
<1>2. PICK t \in T : \A u \in T : t <= u
  <2> HIDE DEF T
  <2>1. QED
    BY <1>1, LeastNatural
<1>3. m - t \in S /\ t \in Nat
  OBVIOUS
<1>4. ASSUME NEW k \in S
      PROVE  k <= m - t
  <2>1. k \in Nat /\ k < m /\ m - k \in Nat /\ m - (m - k) = k
    OBVIOUS
  <2>2. m - k \in T
    BY <2>1
  <2>3. t <= m - k
    BY <1>2, <2>2
  <2>4. QED
    BY <1>3, <2>1, <2>3
<1>5. QED
  BY <1>3, <1>4

\* Numbers that are moved by d are as many as before.
LEMMA MovedAreAsMany ==
    ASSUME NEW S, S \subseteq Nat, IsFiniteSet(S), NEW d \in Nat,
           NEW T, T \subseteq Nat, \A k \in Nat : k \in T <=> k + d \in S,
           \A k \in S : k >= d
    PROVE  IsFiniteSet(T) /\ Cardinality(T) = Cardinality(S)
<1> DEFINE f == [k \in S |-> k - d]
<1>1. f \in [S -> T]
  <2>1. \A k \in S : k - d \in Nat /\ (k - d) + d = k
    OBVIOUS
  <2>2. \A k \in S : k - d \in T
    BY <2>1
  <2>3. QED
    BY <2>2
<1>2. \A a, b \in S : f[a] = f[b] => a = b
  OBVIOUS
<1>3. \A t \in T : \E k \in S : f[k] = t
  <2> TAKE t \in T
  <2>1. t + d \in S /\ (t + d) - d = t
    OBVIOUS
  <2>2. f[t + d] = t
    BY <2>1
  <2>3. QED
    BY <2>1, <2>2
<1> HIDE DEF f
<1>4. f \in Bijection(S, T)
  BY <1>1, <1>2, <1>3, Fun_IsBij
<1>5. ExistsBijection(S, T)
  BY <1>4, Fun_ExistsBij
<1>6. QED
  BY <1>5, FS_Bijection

\* How many of some numbers there are up to x.
LEMMA UpTo ==
    ASSUME NEW S, S \subseteq Nat \ {0}, IsFiniteSet(S)
    PROVE  /\ Cardinality(S) \in Nat
           /\ \A x \in Nat : /\ IsFiniteSet(S \cap 1..x) /\ Cardinality(S \cap 1..x) \in Nat
                             /\ Cardinality(S \cap 1..x) <= Cardinality(S)
           /\ \A x, y \in S : x < y => Cardinality(S \cap 1..x) < Cardinality(S \cap 1..y)
<1>1. Cardinality(S) \in Nat
  BY FS_CardinalityType
<1>2. ASSUME NEW x \in Nat
      PROVE  /\ IsFiniteSet(S \cap 1..x) /\ Cardinality(S \cap 1..x) \in Nat
             /\ Cardinality(S \cap 1..x) <= Cardinality(S)
  <2>1. S \cap 1..x \in SUBSET S
    OBVIOUS
  <2>2. QED
    BY <2>1, FS_Subset, FS_CardinalityType
<1>3. ASSUME NEW x \in S, NEW y \in S, x < y
      PROVE  Cardinality(S \cap 1..x) < Cardinality(S \cap 1..y)
  <2>1. x \in Nat /\ y \in Nat /\ y \in 1..y /\ y \notin 1..x
    BY <1>3
  <2>2. S \cap 1..x \in SUBSET (S \cap 1..y)
    BY <1>3, <2>1
  <2>3. S \cap 1..x # S \cap 1..y
    BY <2>1
  <2>4. IsFiniteSet(S \cap 1..y) /\ Cardinality(S \cap 1..y) \in Nat /\ Cardinality(S \cap 1..x) \in Nat
    BY <1>2, <2>1
  <2>5. /\ Cardinality(S \cap 1..x) <= Cardinality(S \cap 1..y)
        /\ Cardinality(S \cap 1..x) # Cardinality(S \cap 1..y)
    BY <2>2, <2>3, <2>4, FS_Subset
  <2>6. QED
    BY <2>4, <2>5
<1>4. QED
  BY <1>1, <1>2, <1>3

\* One of some numbers is the n-th: the least with n of them up to it.
LEMMA Nth ==
    ASSUME NEW u \in Nat, NEW S, S \subseteq 1..u, IsFiniteSet(S), NEW n \in 1..Cardinality(S)
    PROVE  \E k \in S : /\ Cardinality(S \cap 1..k) = n
                        /\ \A j \in S : Cardinality(S \cap 1..j) = n => j = k
<1>0. /\ Cardinality(S) \in Nat /\ n \in Nat /\ n >= 1
      /\ \A x \in Nat : IsFiniteSet(S \cap 1..x) /\ Cardinality(S \cap 1..x) \in Nat
      /\ \A x, y \in S : x < y => Cardinality(S \cap 1..x) < Cardinality(S \cap 1..y)
      /\ \A x \in S : x \in Nat /\ x >= 1 /\ x <= u
      /\ S \subseteq Nat
  <2>1. \A x \in S : x \in Nat /\ x >= 1 /\ x <= u
    OBVIOUS
  <2>2. S \subseteq Nat \ {0}
    BY <2>1
  <2>3. /\ Cardinality(S) \in Nat
        /\ \A x \in Nat : IsFiniteSet(S \cap 1..x) /\ Cardinality(S \cap 1..x) \in Nat
        /\ \A x, y \in S : x < y => Cardinality(S \cap 1..x) < Cardinality(S \cap 1..y)
    BY <2>2, UpTo
  <2>4. n \in Nat /\ n >= 1
    BY <2>3
  <2>5. S \subseteq Nat
    BY <2>2
  <2>6. QED
    BY <2>1, <2>3, <2>4, <2>5
<1> DEFINE B == { k \in S : Cardinality(S \cap 1..k) >= n }
<1>1. B # {}
  <2>1. S # {}
    BY <1>0, FS_EmptySet
  <2>2. \A k \in S : k <= u
    OBVIOUS
  <2>3. S \cap 1..u = S
    BY <1>0, <2>2
  <2>4. PICK g \in S : \A k \in S : k <= g
    <3>1. \A k \in S : k < u + 1
      BY <1>0, <2>2
    <3>2. u + 1 \in Nat /\ S \subseteq Nat
      OBVIOUS
    <3>3. QED
      BY <2>1, <3>1, <3>2, GreatestNatural
  <2>5. S \cap 1..g = S
    <3>1. \A k \in S : k \in 1..g
      BY <1>0, <2>4
    <3>2. QED
      BY <3>1
  <2>6. g \in B
    BY <1>0, <2>5
  <2>7. QED
    BY <2>6
<1>2. B \subseteq Nat
  BY <1>0
<1>3. PICK k \in B : \A j \in B : k <= j
  <2> HIDE DEF B
  <2>1. QED
    BY <1>1, <1>2, LeastNatural
<1>4. k \in S /\ Cardinality(S \cap 1..k) >= n /\ Cardinality(S \cap 1..k) \in Nat
  BY <1>0
<1>5. Cardinality(S \cap 1..k) = n
  <2>1. SUFFICES ASSUME Cardinality(S \cap 1..k) > n PROVE FALSE
    BY <1>0, <1>4
  <2> DEFINE L == { j \in S : j < k }
  <2>2. S \cap 1..k = L \cup {k} /\ k \notin L /\ L \subseteq Nat /\ L \subseteq S
    <3>1. \A j \in S : j \in 1..k <=> j \in L \cup {k}
      BY <1>0, <1>4
    <3>2. k \notin L /\ L \subseteq S /\ k \in S
      BY <1>0, <1>4
    <3>3. S \cap 1..k = L \cup {k}
      <4> HIDE DEF L
      <4>1. QED
        BY <3>1, <3>2
    <3>4. QED
      BY <1>0, <3>2, <3>3
  <2>3. \A j \in L : j < k
    OBVIOUS
  <2> HIDE DEF L
  <2>4. IsFiniteSet(L)
    BY <2>2, FS_Subset
  <2>5. Cardinality(S \cap 1..k) = Cardinality(L) + 1 /\ Cardinality(L) \in Nat
    BY <2>2, <2>4, FS_AddElement, FS_CardinalityType
  <2>6. Cardinality(L) >= n
    BY <1>0, <2>1, <2>5
  <2>7. L # {}
    BY <1>0, <2>6, FS_EmptySet
  <2>8. k \in Nat
    BY <1>0, <1>4
  <2>9. PICK g \in L : \A j \in L : j <= g
    BY <2>2, <2>3, <2>7, <2>8, GreatestNatural
  <2>10. S \cap 1..g = L
    <3>1. g \in Nat /\ g < k /\ g \in S
      BY <1>0, <2>2, <2>3
    <3>2. \A j \in S : j <= g <=> j \in L
      BY <1>0, <2>2, <2>9, <3>1, <1>4 DEF L
    <3>3. QED
      BY <1>0, <2>2, <3>1, <3>2
  <2>11. g \in B /\ g < k
    BY <2>2, <2>3, <2>6, <2>10
  <2>12. QED
    BY <1>0, <1>3, <1>4, <2>2, <2>11
<1>6. ASSUME NEW j \in S, Cardinality(S \cap 1..j) = n
      PROVE  j = k
  <2>1. j \in Nat /\ k \in Nat /\ ~(j < k) /\ ~(k < j)
    BY <1>0, <1>4, <1>5, <1>6
  <2>2. QED
    BY <2>1
<1>7. QED
  BY <1>4, <1>5, <1>6

--------------------------------------------------------------------------------
(* The digits of a line, whatever is around them. *)

\* Where they are.
LEMMA PlacesAre ==
    ASSUME NEW text \in Seq(STRING)
    PROVE  /\ Len(text) \in Nat
           /\ \A k : k \in Places(text) <=> k \in 1..Len(text) /\ text[k] \in Hex
           /\ Places(text) \subseteq 1..Len(text)
           /\ IsFiniteSet(Places(text)) /\ Cardinality(Places(text)) \in Nat
<1>1. Len(text) \in Nat /\ DOMAIN text = 1..Len(text)
  BY LenProperties
<1>2. /\ \A k : k \in Places(text) <=> k \in 1..Len(text) /\ text[k] \in Hex
      /\ Places(text) \in SUBSET (1..Len(text))
  BY <1>1 DEF Places
<1>3. IsFiniteSet(1..Len(text))
  BY <1>1, FS_Interval
<1>4. QED
  BY <1>1, <1>2, <1>3, FS_Subset, FS_CardinalityType

\* A part that holds them all has the same digits.
LEMMA PartDigits ==
    ASSUME NEW text \in Seq(STRING), NEW a \in Nat, a >= 1, NEW b \in Nat, b <= Len(text),
           a <= b, \A k \in Places(text) : a <= k /\ k <= b,
           NEW part, part = SubSeq(text, a, b)
    PROVE  Digits(part) = Digits(text)
<1>1. /\ Len(text) \in Nat
      /\ \A k : k \in Places(text) <=> k \in 1..Len(text) /\ text[k] \in Hex
      /\ Places(text) \subseteq 1..Len(text)
      /\ IsFiniteSet(Places(text)) /\ Cardinality(Places(text)) \in Nat
  BY PlacesAre
<1>2. PICK d \in Nat : d = a - 1
  OBVIOUS
<1>3. /\ part \in Seq(STRING) /\ Len(part) = b - d
      /\ \A k \in 1..(b - d) : part[k] = text[k + d]
  <2>1. \A k \in a..b : k \in 1..Len(text)
    BY <1>1
  <2>2. \A k \in a..b : text[k] \in STRING
    BY <2>1, ElementOfSeq
  <2>3. a \in Int /\ b \in Int
    OBVIOUS
  <2>4. /\ SubSeq(text, a, b) \in Seq(STRING)
        /\ Len(SubSeq(text, a, b)) = IF a <= b THEN b - a + 1 ELSE 0
        /\ \A i \in 1..(b - a + 1) : SubSeq(text, a, b)[i] = text[a + i - 1]
    BY <2>2, <2>3, SubSeqProperties
  <2>5. b - a + 1 = b - d /\ \A i \in 1..(b - d) : a + i - 1 = i + d
    BY <1>2
  <2>6. QED
    BY <2>4, <2>5
<1>4. /\ \A k : k \in Places(part) <=> k \in 1..(b - d) /\ part[k] \in Hex
      /\ IsFiniteSet(Places(part)) /\ Cardinality(Places(part)) \in Nat
      /\ Places(part) \subseteq 1..(b - d)
  BY <1>3, PlacesAre
<1> DEFINE S == Places(text)
           T == Places(part)
<1>5. \A k \in Nat : k \in T <=> k + d \in S
  <2> TAKE k \in Nat
  <2>1. k \in 1..(b - d) <=> k + d \in a..b
    BY <1>2
  <2>2. k + d \in S => k + d \in a..b
    BY <1>1
  <2>3. k + d \in a..b => k + d \in 1..Len(text)
    BY <1>1
  <2> HIDE DEF S, T
  <2>4. k \in T <=> k \in 1..(b - d) /\ text[k + d] \in Hex
    BY <1>3, <1>4 DEF T
  <2>5. k + d \in S <=> k + d \in 1..Len(text) /\ text[k + d] \in Hex
    BY <1>1 DEF S
  <2>6. QED
    BY <2>1, <2>2, <2>3, <2>4, <2>5
<1>6. /\ S \subseteq Nat /\ T \subseteq Nat /\ \A k \in S : k >= d /\ k >= 1
      /\ \A k \in S : k \in Nat
      /\ \A k \in T : k \in Nat /\ k >= 1
  <2>1. \A k \in S : k \in Nat /\ a <= k
    BY <1>1
  <2>2. \A k \in T : k \in Nat /\ k >= 1
    BY <1>4
  <2>3. QED
    BY <1>2, <2>1, <2>2
<1> HIDE DEF S, T
<1>7. IsFiniteSet(S) /\ Cardinality(S) \in Nat /\ IsFiniteSet(T) /\ Cardinality(T) = Cardinality(S)
  <2>1. IsFiniteSet(S) /\ Cardinality(S) \in Nat
    BY <1>1 DEF S
  <2>2. QED
    BY <1>5, <1>6, <2>1, MovedAreAsMany
<1>8. ASSUME NEW k \in T
      PROVE  k + d \in S /\ Cardinality(T \cap 1..k) = Cardinality(S \cap 1..(k + d))
  <2>1. k \in Nat /\ k + d \in S
    BY <1>5, <1>6
  <2>2. S \cap 1..(k + d) \in SUBSET S /\ S \cap 1..(k + d) \subseteq Nat /\ T \cap 1..k \subseteq Nat
    BY <1>6
  <2>3. IsFiniteSet(S \cap 1..(k + d))
    BY <1>7, <2>2, FS_Subset
  <2>4. \A j \in Nat : j \in T \cap 1..k <=> j + d \in S \cap 1..(k + d)
    <3> TAKE j \in Nat
    <3>1. j \in T => j >= 1
      BY <1>6
    <3>2. k \in T /\ j \in T => (j <= k <=> j + d <= k + d)
      BY <1>2, <2>1
    <3>3. j \in T <=> j + d \in S
      BY <1>5
    <3>4. j \in T => j + d >= 1
      BY <1>2, <3>1
    <3>5. j \in 1..k <=> j >= 1 /\ j <= k
      BY <2>1
    <3>6. j + d \in 1..(k + d) <=> j + d >= 1 /\ j + d <= k + d
      BY <1>2, <2>1
    <3>7. QED
      BY <3>1, <3>2, <3>3, <3>4, <3>5, <3>6, <2>1
  <2>5. \A j \in S \cap 1..(k + d) : j >= d
    BY <1>6
  <2>6. QED
    BY <2>1, <2>2, <2>3, <2>4, <2>5, MovedAreAsMany
<1>9. ASSUME NEW n \in 1..Cardinality(S)
      PROVE  part[CHOOSE k \in T : Cardinality(T \cap 1..k) = n]
                = text[CHOOSE k \in S : Cardinality(S \cap 1..k) = n]
  <2>1. T \subseteq 1..(b - d) /\ b - d \in Nat
    BY <1>2, <1>4 DEF T
  <2>2. n \in 1..Cardinality(T)
    BY <1>7
  <2>3. PICK k \in T : /\ Cardinality(T \cap 1..k) = n
                       /\ \A j \in T : Cardinality(T \cap 1..j) = n => j = k
    BY <1>7, <2>1, <2>2, Nth
  <2>4. S \subseteq 1..Len(text)
    BY <1>1 DEF S
  <2>5. PICK m \in S : /\ Cardinality(S \cap 1..m) = n
                       /\ \A j \in S : Cardinality(S \cap 1..j) = n => j = m
    BY <1>1, <1>7, <2>4, Nth
  <2>6. m = k + d
    BY <1>8, <2>3, <2>5
  <2>7. (CHOOSE j \in T : Cardinality(T \cap 1..j) = n) = k
    BY <2>3
  <2>8. (CHOOSE j \in S : Cardinality(S \cap 1..j) = n) = m
    BY <2>5
  <2>9. part[k] = text[k + d]
    BY <1>3, <2>1
  <2>10. QED
    BY <2>6, <2>7, <2>8, <2>9
<1> DEFINE nth(n) == part[CHOOSE k \in T : Cardinality(T \cap 1..k) = n]
           mth(n) == text[CHOOSE k \in S : Cardinality(S \cap 1..k) = n]
<1>10. Digits(part) = [n \in 1..Cardinality(T) |-> nth(n)]
  BY DEF Digits, T
<1>11. Digits(text) = [n \in 1..Cardinality(S) |-> mth(n)]
  BY DEF Digits, S
<1>12. \A n \in 1..Cardinality(S) : nth(n) = mth(n)
  BY <1>9
<1> HIDE DEF nth, mth
<1>13. QED
  BY <1>7, <1>10, <1>11, <1>12

\* A blank is no digit.
LEMMA BlankIsNoDigit == " " \notin Hex
<1>1. /\ Lowercase[1] # " " /\ Lowercase[2] # " " /\ Lowercase[3] # " " /\ Lowercase[4] # " "
      /\ Lowercase[5] # " " /\ Lowercase[6] # " " /\ Lowercase[7] # " " /\ Lowercase[8] # " "
      /\ Lowercase[9] # " " /\ Lowercase[10] # " " /\ Lowercase[11] # " " /\ Lowercase[12] # " "
      /\ Lowercase[13] # " " /\ Lowercase[14] # " " /\ Lowercase[15] # " " /\ Lowercase[16] # " "
  BY DEF Lowercase
<1>2. /\ Capital[1] # " " /\ Capital[2] # " " /\ Capital[3] # " "
      /\ Capital[4] # " " /\ Capital[5] # " " /\ Capital[6] # " "
  BY DEF Capital
<1>3. \A k \in 1..16 : \/ k = 1 \/ k = 2 \/ k = 3 \/ k = 4 \/ k = 5 \/ k = 6 \/ k = 7 \/ k = 8
                       \/ k = 9 \/ k = 10 \/ k = 11 \/ k = 12 \/ k = 13 \/ k = 14 \/ k = 15 \/ k = 16
  OBVIOUS
<1>4. \A k \in 1..6 : k = 1 \/ k = 2 \/ k = 3 \/ k = 4 \/ k = 5 \/ k = 6
  OBVIOUS
<1>5. \A k \in 1..16 : Lowercase[k] # " "
  BY <1>1, <1>3
<1>6. \A k \in 1..6 : Capital[k] # " "
  BY <1>2, <1>4
<1>7. QED
  BY <1>5, <1>6 DEF Hex

\* So a trimmed line has the digits of the line.
LEMMA TrimmedDigits ==
    ASSUME NEW text \in Seq(STRING)
    PROVE  Digits(Trimmed(text)) = Digits(text)
<1> DEFINE solid == { k \in DOMAIN text : text[k] # " " }
           first == CHOOSE k \in solid : \A j \in solid : k <= j
<1>1. /\ Len(text) \in Nat /\ DOMAIN text = 1..Len(text)
      /\ \A k : k \in Places(text) <=> k \in 1..Len(text) /\ text[k] \in Hex
  BY LenProperties, PlacesAre
<1>2. Places(text) \subseteq solid
  BY <1>1, BlankIsNoDigit
<1>3. Trimmed(text) = IF solid = {} THEN <<>> ELSE SubSeq(text, first, Maximum(solid))
  BY DEF Trimmed
<1>4. \A k \in solid : k \in Nat /\ k >= 1 /\ k <= Len(text)
  <2> TAKE k \in solid
  <2>1. k \in 1..Len(text)
    BY <1>1
  <2> HIDE DEF solid
  <2>2. QED
    BY <1>1, <2>1
<1> HIDE DEF solid
<1>5. CASE solid = {}
  <2>1. Trimmed(text) = <<>> /\ Places(text) = {}
    BY <1>2, <1>3, <1>5
  <2>2. Places(<<>>) = {}
    BY DEF Places
  <2>3. 1..Cardinality({}) = {}
    BY FS_EmptySet
  <2>4. QED
    BY <2>1, <2>2, <2>3 DEF Digits
<1>6. CASE solid # {}
  <2>1. solid \subseteq Nat
    BY <1>4
  <2>2. \E k \in solid : \A j \in solid : k <= j
    BY <1>6, <2>1, LeastNatural
  <2>3. first \in solid /\ \A j \in solid : first <= j
    BY <2>2
  <2>4. Len(text) + 1 \in Nat /\ \A k \in solid : k < Len(text) + 1
    BY <1>1, <1>4
  <2>5. \E k \in solid : \A j \in solid : j <= k
    BY <1>6, <2>1, <2>4, GreatestNatural
  <2>6. Maximum(solid) \in solid /\ \A j \in solid : j <= Maximum(solid)
    BY <2>5 DEF Maximum
  <2> HIDE DEF first
  <2>7. PICK a \in Nat, b \in Nat : a = first /\ b = Maximum(solid) /\ a \in solid /\ b \in solid
    BY <1>4, <2>3, <2>6
  <2>8. Trimmed(text) = SubSeq(text, a, b)
    BY <1>3, <1>6, <2>7
  <2>9. \A k \in Places(text) : a <= k /\ k <= b
    BY <1>2, <2>3, <2>6, <2>7
  <2>10. a >= 1 /\ b <= Len(text) /\ a <= b
    BY <1>4, <2>3, <2>7
  <2>11. QED
    BY <2>8, <2>9, <2>10, PartDigits
<1>7. QED
  BY <1>5, <1>6

--------------------------------------------------------------------------------
(* The tally. *)

\* The keys of host_counts.
Hosts == { HostNames[k] : k \in DOMAIN HostNames }

\* What a tally holds.
Tallies == [outcomes : [Kinds -> Nat], decode_errors : Nat, host_counts : [Hosts -> Nat]]

\* The lines behind that do not decode.
ErrorLines == { k \in Behind : ~Decodes(corpus[k]) }

\* The tally is that of the lines behind, its decode errors too.
TallyInv ==
    /\ corpus \in Seq(Seq(STRING))
    /\ next \in Nat /\ 1 <= next /\ next <= Len(corpus) + 1
    /\ tally \in Tallies
    /\ TallyIsCorpus
    /\ tally.decode_errors = Cardinality(ErrorLines)

\* A line that is trimmed decodes as it did.
LEMMA TrimmedDecodes ==
    ASSUME NEW text \in Seq(STRING)
    PROVE  /\ Decodes(Trimmed(text)) <=> Decodes(text)
           /\ Decoded(Trimmed(text)) = Decoded(text)
<1>1. Digits(Trimmed(text)) = Digits(text)
  BY TrimmedDigits
<1>2. QED
  BY <1>1 DEF Decodes, Decoded

\* A host is reported with the outcome that shows it, and with no other.
LEMMA OutcomeIs ==
    ASSUME NEW bytes
    PROVE  /\ Outcome(bytes) \in Kinds
           /\ Outcome(bytes) = "malformed" <=> Parse(bytes) = None
           /\ Outcome(bytes) = "cleartext" =>
                /\ Parse(bytes).host \in Hosts
                /\ Parse(bytes).host # None
<1>1. CASE bytes \in DOMAIN Hellos
  <2> DEFINE meta == Observe(Hellos[bytes])
  <2>1. Parse(bytes) = meta /\ meta # None
    BY <1>1, HellosAssumption DEF Parse
  <2>2. Outcome(bytes) = OutcomeKind(meta)
    BY <2>1 DEF Outcome
  <2>3. meta.host = VisibleHost(Hellos[bytes])
    BY DEF Observe
  <2>4. meta.host \in {None} \cup Hosts
    BY <1>1, <2>3, HellosAssumption DEF Hosts
  <2> HIDE DEF meta
  <2>5. QED
    BY <2>1, <2>2, <2>4 DEF OutcomeKind, Kinds
<1>2. CASE bytes \notin DOMAIN Hellos
  BY <1>2 DEF Parse, Outcome, Kinds
<1>3. QED
  BY <1>1, <1>2

\* The sets of lines are finite.
LEMMA LinesAreFinite ==
    ASSUME next \in Nat, next >= 1
    PROVE  /\ Behind \subseteq 1..(next - 1) /\ next \notin Behind
           /\ IsFiniteSet(Behind) /\ Cardinality(Behind) \in Nat
           /\ \A T \in SUBSET Behind : IsFiniteSet(T) /\ Cardinality(T) \in Nat
<1>1. Behind \in SUBSET (1..(next - 1)) /\ next \notin 1..(next - 1)
  BY DEF Behind
<1>2. IsFiniteSet(1..(next - 1))
  BY FS_Interval
<1>3. IsFiniteSet(Behind) /\ Cardinality(Behind) \in Nat
  BY <1>1, <1>2, FS_Subset, FS_CardinalityType
<1>4. \A T \in SUBSET Behind : IsFiniteSet(T) /\ Cardinality(T) \in Nat
  BY <1>3, FS_Subset, FS_CardinalityType
<1>5. QED
  BY <1>1, <1>3, <1>4

\* Another line is one more.
LEMMA OneMore ==
    ASSUME NEW S, IsFiniteSet(S), NEW n, n \notin S
    PROVE  Cardinality(S \cup {n}) = Cardinality(S) + 1
BY FS_AddElement

\* Before the first line.
LEMMA TallyStart == Init => TallyInv
<1> SUFFICES ASSUME Init PROVE TallyInv
  OBVIOUS
<1>1. /\ corpus \in Seq(Seq(STRING)) /\ next = 1 /\ tally = EmptyTally
      /\ Len(corpus) \in Nat
  BY CorporaAssumption, LenProperties DEF Init
<1>2. tally \in Tallies /\ tally.decode_errors = 0
      /\ (\A kind \in Kinds : tally.outcomes[kind] = 0)
      /\ \A host \in Hosts : tally.host_counts[host] = 0
  BY <1>1 DEF EmptyTally, Tallies, Hosts
<1>3. 1..(next - 1) = {}
  BY <1>1
<1>4. Behind = {}
  BY <1>3 DEF Behind
<1>5. ErrorLines = {} /\ (\A kind \in Kinds : LinesOf(kind) = {}) /\ \A host : HostLines(host) = {}
  BY <1>4 DEF ErrorLines, LinesOf, HostLines
<1>6. Cardinality({}) = 0
  BY FS_EmptySet
<1>7. TotalLines(tally) = 0
  BY <1>2 DEF TotalLines, TotalParsed, Kinds
<1>8. TallyIsCorpus
  <2>1. \A k \in DOMAIN HostNames : HostNames[k] \in Hosts
    BY DEF Hosts
  <2>2. QED
    BY <1>2, <1>4, <1>5, <1>6, <1>7, <2>1 DEF TallyIsCorpus
<1>9. 1 \in Nat /\ 1 <= Len(corpus) + 1
  BY <1>1
<1>10. QED
  BY <1>1, <1>2, <1>5, <1>6, <1>8, <1>9 DEF TallyInv

\* The lines behind, when one more is.
LEMMA BehindGrows ==
    ASSUME TallyInv, Reading, corpus' = corpus, next' = next + 1
    PROVE  /\ next' \in Nat /\ 1 <= next' /\ next' <= Len(corpus) + 1
           /\ corpus[next] \in Seq(STRING) /\ next \notin Behind
           /\ Behind' = IF Skipped(Line) THEN Behind ELSE Behind \cup {next}
<1>1. /\ corpus \in Seq(Seq(STRING)) /\ Len(corpus) \in Nat /\ next \in Nat
      /\ 1 <= next /\ next <= Len(corpus)
  BY LenProperties DEF TallyInv, Reading
<1>2. next \in 1..Len(corpus)
  BY <1>1
<1>3. corpus[next] \in Seq(STRING)
  BY <1>1, <1>2, ElementOfSeq
<1>4. /\ \A k : k \in Behind <=> k \in 1..(next - 1) /\ ~Skipped(Trimmed(corpus[k]))
      /\ \A k : k \in Behind' <=> k \in 1..(next' - 1) /\ ~Skipped(Trimmed(corpus[k]))
  BY DEF Behind
<1>5. \A k : k \in 1..(next' - 1) <=> k \in 1..(next - 1) \/ k = next
  BY <1>1
<1>6. Behind' = IF Skipped(Line) THEN Behind ELSE Behind \cup {next}
  BY <1>4, <1>5 DEF Line
<1>7. next \notin Behind
  BY <1>1, LinesAreFinite
<1>8. next' \in Nat /\ 1 <= next' /\ next' <= Len(corpus) + 1
  BY <1>1
<1>9. QED
  BY <1>3, <1>6, <1>7, <1>8

--------------------------------------------------------------------------------
\* What the tally counts, of the types it has.
LEMMA CountsAre ==
    ASSUME TallyInv
    PROVE  /\ \A kind \in Kinds : /\ tally.outcomes[kind] = Cardinality(LinesOf(kind))
                                  /\ tally.outcomes[kind] \in Nat
                                  /\ IsFiniteSet(LinesOf(kind)) /\ LinesOf(kind) \subseteq Behind
           /\ \A host \in Hosts : /\ tally.host_counts[host] = Cardinality(HostLines(host))
                                  /\ tally.host_counts[host] \in Nat
                                  /\ IsFiniteSet(HostLines(host)) /\ HostLines(host) \subseteq Behind
           /\ tally.decode_errors = Cardinality(ErrorLines) /\ tally.decode_errors \in Nat
           /\ IsFiniteSet(ErrorLines) /\ ErrorLines \subseteq Behind
           /\ TotalLines(tally) = Cardinality(Behind) /\ IsFiniteSet(Behind)
<1>1. tally \in Tallies /\ TallyIsCorpus /\ tally.decode_errors = Cardinality(ErrorLines)
  BY DEF TallyInv
<1>2. IsFiniteSet(Behind) /\ \A T \in SUBSET Behind : IsFiniteSet(T)
  BY LinesAreFinite DEF TallyInv
<1>3. /\ \A kind : LinesOf(kind) \in SUBSET Behind
      /\ \A host : HostLines(host) \in SUBSET Behind
      /\ ErrorLines \in SUBSET Behind
  BY DEF LinesOf, HostLines, ErrorLines
<1>4. /\ \A kind \in Kinds : tally.outcomes[kind] = Cardinality(LinesOf(kind))
      /\ TotalLines(tally) = Cardinality(Behind)
      /\ \A k \in DOMAIN HostNames :
            tally.host_counts[HostNames[k]] = Cardinality(HostLines(HostNames[k]))
  BY <1>1 DEF TallyIsCorpus
<1>5. \A host \in Hosts : tally.host_counts[host] = Cardinality(HostLines(host))
  BY <1>4 DEF Hosts
<1>6. /\ \A kind \in Kinds : tally.outcomes[kind] \in Nat
      /\ \A host \in Hosts : tally.host_counts[host] \in Nat
      /\ tally.decode_errors \in Nat
  BY <1>1 DEF Tallies
<1>7. QED
  BY <1>1, <1>2, <1>3, <1>4, <1>5, <1>6

\* To show it of the next tally, by the hosts instead of their places.
LEMMA CountsBecome ==
    ASSUME \A kind \in Kinds : tally'.outcomes[kind] = Cardinality(LinesOf(kind)'),
           \A host \in Hosts : tally'.host_counts[host] = Cardinality(HostLines(host)'),
           TotalLines(tally') = Cardinality(Behind')
    PROVE  TallyIsCorpus'
<1>1. \A k \in DOMAIN HostNames : HostNames[k] \in Hosts
  BY DEF Hosts
<1>2. QED
  BY <1>1 DEF TallyIsCorpus

\* What each of the records of the histogram changes.
LEMMA RecordsAre ==
    ASSUME NEW t \in Tallies
    PROVE  /\ /\ RecordDecodeError(t) \in Tallies
              /\ RecordDecodeError(t).outcomes = t.outcomes
              /\ RecordDecodeError(t).host_counts = t.host_counts
              /\ RecordDecodeError(t).decode_errors = t.decode_errors + 1
           /\ \A kind \in Kinds :
              /\ RecordKind(t, kind) \in Tallies
              /\ \A k \in Kinds : RecordKind(t, kind).outcomes[k] =
                    IF k = kind THEN t.outcomes[k] + 1 ELSE t.outcomes[k]
              /\ RecordKind(t, kind).host_counts = t.host_counts
              /\ RecordKind(t, kind).decode_errors = t.decode_errors
           /\ \A host \in Hosts :
              /\ RecordHost(t, host) \in Tallies
              /\ RecordHost(t, host).outcomes = t.outcomes
              /\ RecordHost(t, host).decode_errors = t.decode_errors
              /\ \A h \in Hosts : RecordHost(t, host).host_counts[h] =
                    IF h = host THEN t.host_counts[h] + 1 ELSE t.host_counts[h]
<1>1. PICK o \in [Kinds -> Nat], e \in Nat, c \in [Hosts -> Nat] :
        t = [outcomes |-> o, decode_errors |-> e, host_counts |-> c]
  BY DEF Tallies
<1>2. t.outcomes = o /\ t.decode_errors = e /\ t.host_counts = c
  BY <1>1
<1>3. RecordDecodeError(t) = [outcomes |-> o, decode_errors |-> e + 1, host_counts |-> c]
  BY <1>1 DEF RecordDecodeError
<1>4. ASSUME NEW kind \in Kinds
      PROVE  /\ RecordKind(t, kind)
                  = [outcomes |-> [o EXCEPT ![kind] = @ + 1], decode_errors |-> e, host_counts |-> c]
             /\ [o EXCEPT ![kind] = @ + 1] \in [Kinds -> Nat]
             /\ \A k \in Kinds : [o EXCEPT ![kind] = @ + 1][k] = IF k = kind THEN o[k] + 1 ELSE o[k]
  BY <1>1 DEF RecordKind
<1>5. ASSUME NEW host \in Hosts
      PROVE  /\ RecordHost(t, host)
                  = [outcomes |-> o, decode_errors |-> e, host_counts |-> [c EXCEPT ![host] = @ + 1]]
             /\ [c EXCEPT ![host] = @ + 1] \in [Hosts -> Nat]
             /\ \A h \in Hosts : [c EXCEPT ![host] = @ + 1][h] = IF h = host THEN c[h] + 1 ELSE c[h]
  BY <1>1 DEF RecordHost
<1>6. /\ RecordDecodeError(t) \in Tallies
      /\ RecordDecodeError(t).outcomes = t.outcomes
      /\ RecordDecodeError(t).host_counts = t.host_counts
      /\ RecordDecodeError(t).decode_errors = t.decode_errors + 1
  BY <1>1, <1>2, <1>3 DEF Tallies
<1>7. ASSUME NEW kind \in Kinds
      PROVE  /\ RecordKind(t, kind) \in Tallies
             /\ \A k \in Kinds : RecordKind(t, kind).outcomes[k] =
                   IF k = kind THEN t.outcomes[k] + 1 ELSE t.outcomes[k]
             /\ RecordKind(t, kind).host_counts = t.host_counts
             /\ RecordKind(t, kind).decode_errors = t.decode_errors
  <2>1. PICK f \in [Kinds -> Nat] :
           /\ RecordKind(t, kind) = [outcomes |-> f, decode_errors |-> e, host_counts |-> c]
           /\ \A k \in Kinds : f[k] = IF k = kind THEN o[k] + 1 ELSE o[k]
    BY <1>4
  <2>2. QED
    BY <1>1, <1>2, <2>1 DEF Tallies
<1>8. ASSUME NEW host \in Hosts
      PROVE  /\ RecordHost(t, host) \in Tallies
             /\ RecordHost(t, host).outcomes = t.outcomes
             /\ RecordHost(t, host).decode_errors = t.decode_errors
             /\ \A h \in Hosts : RecordHost(t, host).host_counts[h] =
                   IF h = host THEN t.host_counts[h] + 1 ELSE t.host_counts[h]
  <2>1. PICK f \in [Hosts -> Nat] :
           /\ RecordHost(t, host) = [outcomes |-> o, decode_errors |-> e, host_counts |-> f]
           /\ \A h \in Hosts : f[h] = IF h = host THEN c[h] + 1 ELSE c[h]
    BY <1>5
  <2>2. QED
    BY <1>1, <1>2, <2>1 DEF Tallies
<1>9. QED
  BY <1>6, <1>7, <1>8

\* A line that is skipped is in no bucket.
LEMMA SkipKeeps ==
    ASSUME TallyInv, SkipLine
    PROVE  TallyInv'
<1>1. /\ Reading /\ Skipped(Line) /\ corpus' = corpus /\ next' = next + 1 /\ tally' = tally
  BY DEF SkipLine, Counted
<1>2. /\ next' \in Nat /\ 1 <= next' /\ next' <= Len(corpus) + 1 /\ Behind' = Behind
  BY <1>1, BehindGrows
<1>3. /\ \A kind : LinesOf(kind)' = LinesOf(kind)
      /\ ErrorLines' = ErrorLines
  BY <1>1, <1>2 DEF LinesOf, ErrorLines
<1>4. \A host : HostLines(host)' = HostLines(host)
  BY <1>1, <1>3 DEF HostLines
<1>5. TallyIsCorpus'
  BY <1>1, <1>2, <1>3, <1>4, CountsAre, CountsBecome
<1>6. QED
  BY <1>1, <1>2, <1>3, <1>5 DEF TallyInv

\* One that does not decode is an error and nothing else.
LEMMA ErrorCounts ==
    ASSUME TallyInv, CountDecodeError
    PROVE  TallyInv'
<1>1. /\ Reading /\ ~Skipped(Line) /\ ~Decodes(Line)
      /\ corpus' = corpus /\ next' = next + 1 /\ tally' = RecordDecodeError(tally)
  BY DEF CountDecodeError, Counted
<1>2. /\ next' \in Nat /\ 1 <= next' /\ next' <= Len(corpus) + 1
      /\ next \notin Behind /\ Behind' = Behind \cup {next}
      /\ ~Decodes(corpus[next])
  BY <1>1, BehindGrows, TrimmedDecodes DEF Line
<1>3. /\ \A kind : LinesOf(kind)' = LinesOf(kind)
      /\ ErrorLines' = ErrorLines \cup {next} /\ next \notin ErrorLines
  BY <1>1, <1>2 DEF LinesOf, ErrorLines
<1>4. \A host : HostLines(host)' = HostLines(host)
  BY <1>1, <1>3 DEF HostLines
<1>5. /\ tally' \in Tallies /\ tally'.outcomes = tally.outcomes
      /\ tally'.host_counts = tally.host_counts
      /\ tally'.decode_errors = tally.decode_errors + 1
  BY <1>1, RecordsAre DEF TallyInv
<1>6. TotalLines(tally') = TotalLines(tally) + 1
  BY <1>5, CountsAre DEF TotalLines, TotalParsed, Kinds
<1>7. Cardinality(Behind') = Cardinality(Behind) + 1
  BY <1>2, CountsAre, OneMore
<1>8. Cardinality(ErrorLines') = Cardinality(ErrorLines) + 1
  BY <1>3, CountsAre, OneMore
<1>9. TallyIsCorpus'
  BY <1>3, <1>4, <1>5, <1>6, <1>7, CountsAre, CountsBecome
<1>10. tally'.decode_errors = Cardinality(ErrorLines')
  BY <1>5, <1>8, CountsAre
<1>11. QED
  BY <1>1, <1>2, <1>5, <1>9, <1>10 DEF TallyInv

\* One that decodes is in the bucket of its outcome, and of its host if it shows one.
LEMMA OutcomeCounts ==
    ASSUME TallyInv, CountOutcome
    PROVE  TallyInv'
<1> DEFINE bytes == Decoded(corpus[next])
           kind == Outcome(bytes)
           host == Parse(bytes).host
<1>1. /\ Reading /\ ~Skipped(Line) /\ Decodes(Line)
      /\ corpus' = corpus /\ next' = next + 1
      /\ tally' = IF Outcome(Decoded(Line)) = "cleartext"
                  THEN RecordHost(RecordKind(tally, Outcome(Decoded(Line))),
                                  Parse(Decoded(Line)).host)
                  ELSE RecordKind(tally, Outcome(Decoded(Line)))
  BY DEF CountOutcome, Counted
<1>2. /\ next' \in Nat /\ 1 <= next' /\ next' <= Len(corpus) + 1
      /\ next \notin Behind /\ Behind' = Behind \cup {next}
      /\ Decodes(corpus[next]) /\ Decoded(Line) = bytes
  BY <1>1, BehindGrows, TrimmedDecodes DEF Line
<1>3. tally' = IF kind = "cleartext" THEN RecordHost(RecordKind(tally, kind), host)
               ELSE RecordKind(tally, kind)
  BY <1>1, <1>2
<1>4. kind \in Kinds /\ (kind = "cleartext" => host \in Hosts)
  BY OutcomeIs
<1>5. /\ \A k : LinesOf(k)' = IF k = kind THEN LinesOf(k) \cup {next} ELSE LinesOf(k)
      /\ \A k : next \notin LinesOf(k)
      /\ ErrorLines' = ErrorLines
  BY <1>1, <1>2 DEF LinesOf, ErrorLines
<1>6. /\ \A h : HostLines(h)' = IF kind = "cleartext" /\ h = host
                                THEN HostLines(h) \cup {next} ELSE HostLines(h)
      /\ \A h : next \notin HostLines(h)
  BY <1>1, <1>2, <1>5 DEF HostLines
<1> HIDE DEF bytes, kind, host
<1>7. /\ tally' \in Tallies
      /\ \A k \in Kinds : tally'.outcomes[k] = IF k = kind THEN tally.outcomes[k] + 1
                                               ELSE tally.outcomes[k]
      /\ \A h \in Hosts : tally'.host_counts[h] =
              IF kind = "cleartext" /\ h = host THEN tally.host_counts[h] + 1
              ELSE tally.host_counts[h]
      /\ tally'.decode_errors = tally.decode_errors
  <2>1. tally \in Tallies
    BY DEF TallyInv
  <2>2. PICK t \in Tallies :
          /\ t = RecordKind(tally, kind)
          /\ \A k \in Kinds : t.outcomes[k] = IF k = kind THEN tally.outcomes[k] + 1
                                             ELSE tally.outcomes[k]
          /\ t.host_counts = tally.host_counts
          /\ t.decode_errors = tally.decode_errors
    BY <1>4, <2>1, RecordsAre
  <2>3. CASE kind = "cleartext"
    <3>1. tally' = RecordHost(t, host) /\ host \in Hosts
      BY <1>3, <1>4, <2>2, <2>3
    <3>2. QED
      BY <2>2, <2>3, <3>1, RecordsAre
  <2>4. CASE kind # "cleartext"
    BY <1>3, <2>2, <2>4
  <2>5. QED
    BY <2>3, <2>4
<1>8. TotalLines(tally') = TotalLines(tally) + 1
  <2>1. /\ \A k \in Kinds : tally.outcomes[k] \in Nat
        /\ tally.decode_errors \in Nat
    BY CountsAre
  <2>2. QED
    BY <1>4, <1>7, <2>1 DEF TotalLines, TotalParsed, Kinds
<1>9. Cardinality(Behind') = Cardinality(Behind) + 1
  BY <1>2, CountsAre, OneMore
<1>10. \A k \in Kinds : tally'.outcomes[k] = Cardinality(LinesOf(k)')
  <2> TAKE k \in Kinds
  <2>1. Cardinality(LinesOf(k) \cup {next}) = Cardinality(LinesOf(k)) + 1
    BY <1>5, CountsAre, OneMore
  <2>2. QED
    BY <1>5, <1>7, <2>1, CountsAre
<1>11. \A h \in Hosts : tally'.host_counts[h] = Cardinality(HostLines(h)')
  <2> TAKE h \in Hosts
  <2>1. Cardinality(HostLines(h) \cup {next}) = Cardinality(HostLines(h)) + 1
    BY <1>6, CountsAre, OneMore
  <2>2. QED
    BY <1>6, <1>7, <2>1, CountsAre
<1>12. TallyIsCorpus'
  BY <1>8, <1>9, <1>10, <1>11, CountsAre, CountsBecome
<1>13. QED
  BY <1>1, <1>2, <1>5, <1>7, <1>12, CountsAre DEF TallyInv

\* So after any step the tally is what is behind.
LEMMA TallyKept ==
    ASSUME TallyInv, [Next]_vars
    PROVE  TallyInv'
<1>1. CASE SkipLine
  BY <1>1, SkipKeeps
<1>2. CASE CountDecodeError
  BY <1>2, ErrorCounts
<1>3. CASE CountOutcome
  BY <1>3, OutcomeCounts
<1>4. CASE corpus' = corpus /\ next' = next /\ tally' = tally
  <2>1. Behind' = Behind
    BY <1>4 DEF Behind
  <2>2. ErrorLines' = ErrorLines /\ \A kind : LinesOf(kind)' = LinesOf(kind)
    BY <1>4, <2>1 DEF ErrorLines, LinesOf
  <2>3. \A host : HostLines(host)' = HostLines(host)
    BY <1>4, <2>2 DEF HostLines
  <2>4. TallyIsCorpus'
    BY <1>4, <2>1, <2>2, <2>3, CountsAre, CountsBecome
  <2>5. QED
    BY <1>4, <2>2, <2>4 DEF TallyInv
<1>5. \/ SkipLine \/ CountDecodeError \/ CountOutcome
      \/ corpus' = corpus /\ next' = next /\ tally' = tally
  BY DEF Next, ReplayRefuses, ReplayOpens, PrintReport, InspectRefuses, InspectRefusesHex,
     InspectShows, InspectExits, vars
<1>6. QED
  BY <1>1, <1>2, <1>3, <1>4, <1>5

\* Every line behind is in one bucket, that of its outcome or the decode errors, and each
\* host is counted once for every cleartext line that names it.
THEOREM TallyHoldsCorpus == Spec => []TallyIsCorpus
<1>1. TallyInv /\ [Next]_vars => TallyInv'
  BY TallyKept
<1>2. TallyInv => TallyIsCorpus
  BY DEF TallyInv
<1>3. QED
  BY <1>1, <1>2, TallyStart, PTL DEF Spec

--------------------------------------------------------------------------------
(* aegiuw-sni-inspect, beside the tally. *)

\* What inspect prints of some bytes.
Shown(bytes) == [outcome |-> Outcome(bytes),
                 metadata |-> IF Parse(bytes) = None THEN None ELSE Printed(Parse(bytes))]

\* What inspect was given, and answered.
Inspected ==
    \/ line = <<>>
    \/ \E k \in DOMAIN corpus :
        /\ line = corpus[k]
        /\ \/ shown = None /\ (~Decodes(line) \/ Digits(line) = <<>>)
           \/ Decodes(line) /\ shown = Shown(Decoded(line))

\* The line is inspected when the corpus has been read to its end.
InspectInv ==
    /\ replay = Success => next > Len(corpus)
    /\ inspect # "starts" => replay = Success /\ Inspected

\* Bytes that are none do not parse.
LEMMA NoDigits ==
    ASSUME NEW text, Digits(text) = <<>>
    PROVE  Decodes(text) /\ Outcome(Decoded(text)) = "malformed"
<1>1. Len(Digits(text)) = 0
  OBVIOUS
<1>2. Decodes(text)
  BY <1>1 DEF Decodes
<1>3. 1..(Len(Digits(text)) \div 2) = {}
  BY <1>1
<1>4. Decoded(text) = <<>>
  BY <1>3 DEF Decoded
<1>5. QED
  BY <1>2, <1>4, HellosAssumption DEF Parse, Outcome

\* The story that the outcome and the metadata tell.
LEMMA ShownIs ==
    ASSUME NEW bytes
    PROVE  /\ Shown(bytes) # None /\ Shown(bytes).outcome = Outcome(bytes)
           /\ (Shown(bytes).metadata = None) <=> (Outcome(bytes) = "malformed")
           /\ Shown(bytes).metadata # None =>
                /\ (Shown(bytes).metadata.host # None) <=> (Outcome(bytes) = "cleartext")
                /\ Shown(bytes).metadata.flags[1] <=> (Outcome(bytes) = "encrypted")
<1> DEFINE printed == { Printed(Observe(Hellos[b])) : b \in DOMAIN Hellos }
           meta == IF Parse(bytes) = None THEN None ELSE Printed(Parse(bytes))
<1>1. None \notin printed \cup [outcome : Kinds, metadata : {None} \cup printed]
  BY AnswersAssumption
<1>2. Shown(bytes).outcome = Outcome(bytes) /\ Shown(bytes).metadata = meta
  BY DEF Shown
<1>3. Outcome(bytes) \in Kinds /\ (Outcome(bytes) = "malformed" <=> Parse(bytes) = None)
  BY OutcomeIs
<1>4. CASE bytes \notin DOMAIN Hellos
  <2>1. Parse(bytes) = None
    BY <1>4 DEF Parse
  <2>2. meta = None
    BY <2>1
  <2>3. Shown(bytes) \in [outcome : Kinds, metadata : {None} \cup printed]
    BY <1>3, <2>1 DEF Shown
  <2>4. QED
    BY <1>1, <1>2, <1>3, <2>1, <2>2, <2>3
<1>5. CASE bytes \in DOMAIN Hellos
  <2> DEFINE m == Observe(Hellos[bytes])
  <2>1. Parse(bytes) = m /\ m # None
    BY <1>5, HellosAssumption DEF Parse
  <2>2. meta = Printed(m) /\ Printed(m) \in printed
    BY <1>5, <2>1
  <2>3. Shown(bytes) \in [outcome : Kinds, metadata : {None} \cup printed]
    BY <1>3, <2>1, <2>2 DEF Shown
  <2>4. m.ech_present \in BOOLEAN
    BY DEF Observe, Has
  <2>5. m.ech_present => m.host = None
    BY DEF Observe, VisibleHost
  <2>6. Outcome(bytes) = OutcomeKind(m)
    BY <2>1 DEF Outcome
  <2>7. Printed(m).host = m.host /\ Printed(m).flags[1] = m.ech_present
    BY DEF Printed
  <2> HIDE DEF m, printed
  <2>8. /\ (m.host # None) <=> (OutcomeKind(m) = "cleartext")
        /\ m.ech_present <=> (OutcomeKind(m) = "encrypted")
    BY <2>4, <2>5 DEF OutcomeKind
  <2>9. meta # None
    BY <1>1, <2>2
  <2>10. QED
    BY <1>1, <1>2, <1>3, <2>1, <2>2, <2>3, <2>6, <2>7, <2>8, <2>9
<1>6. QED
  BY <1>4, <1>5

\* The corpus and the answer, kept by every step.
LEMMA InspectKept ==
    ASSUME InspectInv, [Next]_vars
    PROVE  InspectInv'
<1>1. CASE PrintReport
  BY <1>1 DEF PrintReport, InspectLater, InspectInv, Success
<1>2. CASE ReplayRefuses \/ ReplayOpens
  BY <1>2 DEF ReplayRefuses, ReplayOpens, InspectLater, InspectInv, Success, Usage
<1>3. CASE SkipLine \/ CountDecodeError \/ CountOutcome
  BY <1>3 DEF SkipLine, CountDecodeError, CountOutcome, Reading, Counted, InspectLater,
     InspectInv, Success
<1>4. CASE InspectRefuses
  BY <1>4 DEF InspectRefuses, InspectExits, InspectInv, Inspected
<1>5. CASE InspectRefusesHex
  <2>1. PICK k \in DOMAIN corpus :
          /\ ~Decodes(corpus[k]) \/ Digits(corpus[k]) = <<>>
          /\ InspectExits(Usage, corpus[k], None)
    BY <1>5 DEF InspectRefusesHex
  <2>2. /\ line' = corpus[k] /\ shown' = None /\ corpus' = corpus
        /\ replay = Success /\ replay' = replay /\ next' = next
    BY <2>1 DEF InspectExits
  <2>3. Inspected'
    BY <2>1, <2>2 DEF Inspected
  <2>4. QED
    BY <2>2, <2>3 DEF InspectInv
<1>6. CASE InspectShows
  <2>1. PICK k \in DOMAIN corpus :
          /\ Decodes(corpus[k])
          /\ InspectExits(Success, corpus[k], Shown(Decoded(corpus[k])))
    BY <1>6 DEF InspectShows, Shown
  <2>2. /\ line' = corpus[k] /\ shown' = Shown(Decoded(corpus[k])) /\ corpus' = corpus
        /\ replay = Success /\ replay' = replay /\ next' = next
    BY <2>1 DEF InspectExits
  <2>3. Inspected'
    BY <2>1, <2>2 DEF Inspected
  <2>4. QED
    BY <2>2, <2>3 DEF InspectInv
<1>7. CASE UNCHANGED vars
  BY <1>7 DEF vars, InspectInv, Inspected
<1>8. QED
  BY <1>1, <1>2, <1>3, <1>4, <1>5, <1>6, <1>7 DEF Next

\* The tally holds every copy of the line that was inspected.
LEMMA CopiesAreCounted ==
    ASSUME TallyInv, InspectInv
    PROVE  ToolsAgree
<1> DEFINE same == { k \in DOMAIN corpus : corpus[k] = line }
<1>1. SUFFICES ASSUME inspect # "starts", line # <<>>, ~Skipped(Trimmed(line))
               PROVE  IF shown = None
                      THEN \/ tally.decode_errors >= Cardinality(same)
                           \/ tally.outcomes["malformed"] >= Cardinality(same)
                      ELSE /\ tally.outcomes[shown.outcome] >= Cardinality(same)
                           /\ (shown.metadata = None) <=> (shown.outcome = "malformed")
                           /\ shown.metadata # None =>
                               /\ (shown.metadata.host # None) <=> (shown.outcome = "cleartext")
                               /\ shown.metadata.flags[1] <=> (shown.outcome = "encrypted")
  BY DEF ToolsAgree
<1>2. /\ \/ shown = None /\ (~Decodes(line) \/ Digits(line) = <<>>)
         \/ Decodes(line) /\ shown = Shown(Decoded(line))
      /\ next > Len(corpus)
  BY <1>1 DEF InspectInv, Inspected
<1>3. corpus \in Seq(Seq(STRING)) /\ next \in Nat /\ next <= Len(corpus) + 1
  BY DEF TallyInv
<1>4. Len(corpus) \in Nat /\ DOMAIN corpus = 1..Len(corpus)
  BY <1>3, LenProperties
<1>5. same \subseteq Behind
  <2>1. \A k \in DOMAIN corpus : k \in 1..(next - 1)
    BY <1>2, <1>3, <1>4
  <2>2. QED
    BY <1>1, <2>1 DEF Behind
<1>6. /\ \A kind \in Kinds : /\ tally.outcomes[kind] = Cardinality(LinesOf(kind))
                             /\ IsFiniteSet(LinesOf(kind))
      /\ tally.decode_errors = Cardinality(ErrorLines) /\ IsFiniteSet(ErrorLines)
      /\ IsFiniteSet(Behind)
  BY CountsAre
<1>7. Cardinality(same) \in Nat
  BY <1>5, <1>6, FS_Subset, FS_CardinalityType
<1>8. ASSUME NEW T, IsFiniteSet(T), same \subseteq T
      PROVE  Cardinality(T) >= Cardinality(same)
  <2>1. Cardinality(same) <= Cardinality(T) /\ Cardinality(T) \in Nat
    BY <1>8, FS_Subset, FS_CardinalityType
  <2>2. QED
    BY <1>7, <2>1
<1>9. CASE ~Decodes(line) /\ shown = None
  <2>1. same \subseteq ErrorLines
    BY <1>5, <1>9 DEF ErrorLines
  <2>2. QED
    BY <1>6, <1>8, <1>9, <2>1
<1>10. ASSUME Decodes(line), NEW kind \in Kinds, Outcome(Decoded(line)) = kind
       PROVE  tally.outcomes[kind] >= Cardinality(same)
  <2>1. same \subseteq LinesOf(kind)
    BY <1>5, <1>10 DEF LinesOf
  <2>2. QED
    BY <1>6, <1>8, <2>1
<1>11. CASE Digits(line) = <<>> /\ shown = None
  BY <1>10, <1>11, NoDigits DEF Kinds
<1>12. CASE Decodes(line) /\ shown = Shown(Decoded(line))
  <2>1. PICK bytes : bytes = Decoded(line)
    OBVIOUS
  <2>2. /\ shown # None /\ shown.outcome = Outcome(bytes)
        /\ (shown.metadata = None) <=> (Outcome(bytes) = "malformed")
        /\ shown.metadata # None =>
             /\ (shown.metadata.host # None) <=> (Outcome(bytes) = "cleartext")
             /\ shown.metadata.flags[1] <=> (Outcome(bytes) = "encrypted")
    BY <1>12, <2>1, ShownIs
  <2>3. tally.outcomes[Outcome(bytes)] >= Cardinality(same)
    BY <1>10, <1>12, <2>1, OutcomeIs
  <2> HIDE DEF same
  <2>4. QED
    BY <2>2, <2>3
<1>13. QED
  BY <1>2, <1>9, <1>11, <1>12

\* What inspect shows for a line is the bucket replay counted its copies in, and the outcome
\* and the metadata it shows tell one story.
THEOREM ToolsAlwaysAgree == Spec => []ToolsAgree
<1>1. Init => InspectInv
  BY DEF Init, InspectInv, Success
<1>2. TallyInv /\ [Next]_vars => TallyInv'
  BY TallyKept
<1>3. InspectInv /\ [Next]_vars => InspectInv'
  BY InspectKept
<1>4. TallyInv /\ InspectInv => ToolsAgree
  BY CopiesAreCounted
<1>5. QED
  BY <1>1, <1>2, <1>3, <1>4, TallyStart, PTL DEF Spec

--------------------------------------------------------------------------------
(* The order of a report, on numbers with t[k] as the count of k. *)

\* Those of S that go before j.
Ahead(S, t, j) == { i \in S : t[i] > t[j] \/ (t[i] = t[j] /\ i < j) }

\* Those of S that count as much as m.
Enough(S, t, m) == { i \in S : t[i] >= t[m] }

\* S and m.
With(S, m) == S \cup {m}

\* Some of S, and how many.
LEMMA SomeOf ==
    ASSUME NEW S, IsFiniteSet(S), NEW T, T \subseteq S
    PROVE  /\ IsFiniteSet(T) /\ Cardinality(T) \in Nat /\ Cardinality(S) \in Nat
           /\ Cardinality(T) <= Cardinality(S)
           /\ T # S => Cardinality(T) < Cardinality(S)
<1>1. /\ IsFiniteSet(T) /\ Cardinality(T) <= Cardinality(S)
      /\ Cardinality(S) = Cardinality(T) => S = T
  BY FS_Subset
<1>2. Cardinality(T) \in Nat /\ Cardinality(S) \in Nat
  BY <1>1, FS_CardinalityType
<1>3. QED
  BY <1>1, <1>2

\* Each of S has a place of its own, and they are the first ones.
LEMMA RanksFill ==
    ASSUME NEW N \in Nat, NEW t \in [1..N -> Nat], NEW S, S \subseteq 1..N, IsFiniteSet(S),
           NEW r, r = [j \in S |-> Cardinality(Ahead(S, t, j)) + 1]
    PROVE  r \in Bijection(S, 1..Cardinality(S))
<1>1. \A j \in S : j \in Nat /\ t[j] \in Nat
  OBVIOUS
<1>2. ASSUME NEW j \in S
      PROVE  /\ Ahead(S, t, j) \subseteq S /\ j \notin Ahead(S, t, j)
             /\ Cardinality(Ahead(S, t, j)) \in Nat
             /\ Cardinality(Ahead(S, t, j)) < Cardinality(S)
  <2>1. Ahead(S, t, j) \subseteq S /\ j \notin Ahead(S, t, j)
    BY <1>1 DEF Ahead
  <2>2. Ahead(S, t, j) # S
    BY <2>1
  <2>3. QED
    BY <2>1, <2>2, SomeOf
<1>3. Cardinality(S) \in Nat
  BY FS_CardinalityType
<1>4. r \in [S -> 1..Cardinality(S)]
  <2>1. \A j \in S : Cardinality(Ahead(S, t, j)) + 1 \in 1..Cardinality(S)
    BY <1>2, <1>3
  <2>2. QED
    BY <2>1
<1>5. ASSUME NEW i \in S, NEW j \in S, i \in Ahead(S, t, j)
      PROVE  Cardinality(Ahead(S, t, i)) < Cardinality(Ahead(S, t, j))
  <2>1. Ahead(S, t, i) \subseteq Ahead(S, t, j)
    <3> SUFFICES ASSUME NEW x \in Ahead(S, t, i) PROVE x \in Ahead(S, t, j)
      OBVIOUS
    <3>1. x \in S /\ (t[x] > t[i] \/ (t[x] = t[i] /\ x < i))
      BY DEF Ahead
    <3>2. t[i] > t[j] \/ (t[i] = t[j] /\ i < j)
      BY <1>5 DEF Ahead
    <3>3. x \in Nat /\ t[x] \in Nat /\ i \in Nat /\ t[i] \in Nat /\ j \in Nat /\ t[j] \in Nat
      BY <1>1, <3>1
    <3>4. t[x] > t[j] \/ (t[x] = t[j] /\ x < j)
      BY <3>1, <3>2, <3>3
    <3>5. QED
      BY <3>1, <3>4 DEF Ahead
  <2>2. Ahead(S, t, i) # Ahead(S, t, j) /\ IsFiniteSet(Ahead(S, t, j))
    BY <1>2, <1>5, SomeOf
  <2>3. QED
    BY <2>1, <2>2, SomeOf
<1>6. \A i, j \in S : i = j \/ i \in Ahead(S, t, j) \/ j \in Ahead(S, t, i)
  BY <1>1 DEF Ahead
<1>7. \A i, j \in S : r[i] = r[j] => i = j
  <2> TAKE i \in S, j \in S
  <2>1. r[i] = Cardinality(Ahead(S, t, i)) + 1 /\ r[j] = Cardinality(Ahead(S, t, j)) + 1
    OBVIOUS
  <2>2. QED
    BY <1>2, <1>5, <1>6, <2>1
<1>8. r \in Injection(S, 1..Cardinality(S))
  BY <1>4, <1>7, Fun_IsInj
<1>9. IsFiniteSet(1..Cardinality(S)) /\ Cardinality(1..Cardinality(S)) = Cardinality(S)
  <2>1. Cardinality(S) \in Int /\ 1 \in Int
    BY <1>3
  <2>2. /\ IsFiniteSet(1..Cardinality(S))
        /\ Cardinality(1..Cardinality(S)) =
             IF 1 > Cardinality(S) THEN 0 ELSE Cardinality(S) - 1 + 1
    BY <2>1, FS_Interval
  <2>3. QED
    BY <1>3, <2>2
<1>10. r \in Surjection(S, 1..Cardinality(S))
  BY <1>8, <1>9, FS_Injection
<1>11. QED
  BY <1>8, <1>10, Fun_IsBij

\* One more goes behind those that count as much, and before the others.
LEMMA RanksMove ==
    ASSUME NEW N \in Nat, NEW t \in [1..N -> Nat], NEW m \in 1..N, NEW S, NEW G, NEW D,
           \A k \in S : k \in 1..N /\ k < m, IsFiniteSet(S),
           G = Enough(S, t, m), D = With(S, m)
    PROVE  /\ Cardinality(G) \in Nat /\ Cardinality(G) <= Cardinality(S)
           /\ Cardinality(S) \in Nat /\ Cardinality(D) = Cardinality(S) + 1 /\ IsFiniteSet(D)
           /\ Ahead(D, t, m) = G
           /\ \A j \in S : Cardinality(Ahead(S, t, j)) \in Nat
           /\ \A j \in G : /\ Cardinality(Ahead(D, t, j)) = Cardinality(Ahead(S, t, j))
                           /\ Cardinality(Ahead(S, t, j)) < Cardinality(G)
           /\ \A j \in S \ G : /\ Cardinality(Ahead(D, t, j)) = Cardinality(Ahead(S, t, j)) + 1
                               /\ Cardinality(Ahead(S, t, j)) >= Cardinality(G)
<1> USE DEF With
<1>0. \A i : i \in G <=> i \in S /\ t[i] >= t[m]
  BY DEF Enough
<1>1. /\ m \in Nat /\ t[m] \in Nat /\ m \notin S
      /\ \A j \in S : j \in Nat /\ j < m /\ t[j] \in Nat
  <2>1. \A j \in S : j \in 1..N /\ j < m
    OBVIOUS
  <2>2. m \in Nat /\ t[m] \in Nat
    OBVIOUS
  <2>3. \A j \in S : j \in Nat /\ t[j] \in Nat
    BY <2>1
  <2>4. QED
    BY <2>1, <2>2, <2>3
<1>2. G \subseteq S
  BY <1>0
<1>3. Cardinality(G) \in Nat /\ Cardinality(G) <= Cardinality(S) /\ IsFiniteSet(G) /\ Cardinality(S) \in Nat
  BY <1>2, SomeOf
<1>4. Cardinality(D) = Cardinality(S) + 1 /\ IsFiniteSet(D)
  BY <1>1, FS_AddElement
<1>5. Ahead(D, t, m) = G
  <2>1. ~(t[m] > t[m]) /\ ~(m < m)
    BY <1>1
  <2>2. \A i \in S : t[i] > t[m] \/ (t[i] = t[m] /\ i < m) <=> t[i] >= t[m]
    BY <1>1
  <2>3. \A i : i \in Ahead(D, t, m) <=> i \in S /\ t[i] >= t[m]
    BY <2>1, <2>2 DEF Ahead
  <2>4. QED
    BY <1>0, <2>3
<1>6. ASSUME NEW j \in S
      PROVE  Ahead(S, t, j) \subseteq S /\ IsFiniteSet(Ahead(S, t, j)) /\ Cardinality(Ahead(S, t, j)) \in Nat
  <2>1. Ahead(S, t, j) \subseteq S
    BY DEF Ahead
  <2>2. QED
    BY <2>1, SomeOf
<1>7. ASSUME NEW j \in G
      PROVE  /\ Cardinality(Ahead(D, t, j)) = Cardinality(Ahead(S, t, j))
             /\ Cardinality(Ahead(S, t, j)) < Cardinality(G)
  <2>1. Ahead(D, t, j) = Ahead(S, t, j)
    <3>1. j \in S /\ j \in Nat /\ t[j] \in Nat /\ t[j] >= t[m] /\ j < m
      BY <1>0, <1>1, <1>7
    <3>2. ~(t[m] > t[j] \/ (t[m] = t[j] /\ m < j))
      BY <1>1, <3>1
    <3>3. \A i : i \in Ahead(D, t, j) <=> i \in Ahead(S, t, j)
      BY <3>2 DEF Ahead
    <3>4. QED
      BY <3>3
  <2>2. Ahead(S, t, j) \subseteq G /\ j \notin Ahead(S, t, j)
    <3>1. j \in S /\ j \in Nat /\ t[j] \in Nat /\ t[j] >= t[m]
      BY <1>0, <1>1, <1>7
    <3>2. \A i \in S : (t[i] > t[j] \/ (t[i] = t[j] /\ i < j)) => t[i] >= t[m]
      BY <1>1, <3>1
    <3>3. \A i \in Ahead(S, t, j) : i \in S /\ t[i] >= t[m]
      BY <3>2 DEF Ahead
    <3>4. j \notin Ahead(S, t, j)
      BY <3>1 DEF Ahead
    <3>5. QED
      BY <1>0, <3>3, <3>4
  <2>3. QED
    BY <1>3, <2>1, <2>2, SomeOf
<1>8. ASSUME NEW j \in S \ G
      PROVE  /\ Cardinality(Ahead(D, t, j)) = Cardinality(Ahead(S, t, j)) + 1
             /\ Cardinality(Ahead(S, t, j)) >= Cardinality(G)
  <2>1. Ahead(D, t, j) = Ahead(S, t, j) \cup {m} /\ m \notin Ahead(S, t, j)
    BY <1>0, <1>1, <1>8 DEF Ahead
  <2>2. Cardinality(Ahead(S, t, j) \cup {m}) = Cardinality(Ahead(S, t, j)) + 1
    BY <1>6, <2>1, FS_AddElement
  <2>3. G \subseteq Ahead(S, t, j)
    <3>1. j \in S /\ t[j] \in Nat /\ t[j] < t[m]
      BY <1>0, <1>1, <1>8
    <3>2. \A i \in G : i \in S /\ t[i] >= t[m] /\ t[i] \in Nat
      BY <1>0, <1>1
    <3>3. \A i \in G : i \in S /\ t[i] > t[j]
      BY <1>1, <3>1, <3>2
    <3>4. QED
      BY <3>3 DEF Ahead
  <2>4. Cardinality(G) <= Cardinality(Ahead(S, t, j))
    BY <1>6, <2>3, SomeOf
  <2>5. QED
    BY <1>3, <1>6, <2>1, <2>2, <2>4
<1>9. QED
  BY <1>3, <1>4, <1>5, <1>6, <1>7, <1>8

--------------------------------------------------------------------------------
(* The lists that are sorted. *)

\* A list of the hosts of S, each at its place.
Ranked(S, t, s) ==
    /\ s \in Seq(Hosts) /\ Len(s) = Cardinality(S)
    /\ \A j \in S : s[Cardinality(Ahead(S, t, j)) + 1] = HostNames[j]

\* A part of a list.
LEMMA PartIs ==
    ASSUME NEW X, NEW s \in Seq(X), NEW a \in Nat, NEW b \in Nat, a >= 1, b <= Len(s), a <= b + 1
    PROVE  /\ SubSeq(s, a, b) \in Seq(X) /\ Len(SubSeq(s, a, b)) = b + 1 - a
           /\ \A i \in 1..(b + 1 - a) : SubSeq(s, a, b)[i] = s[a + i - 1]
<1>1. a \in Int /\ b \in Int /\ Len(s) \in Nat
  BY LenProperties
<1>2. \A k \in a..b : k \in 1..Len(s)
  BY <1>1
<1>3. \A k \in a..b : s[k] \in X
  BY <1>2, ElementOfSeq
<1>4. /\ SubSeq(s, a, b) \in Seq(X)
      /\ Len(SubSeq(s, a, b)) = IF a <= b THEN b - a + 1 ELSE 0
      /\ \A i \in 1..(b - a + 1) : SubSeq(s, a, b)[i] = s[a + i - 1]
  BY <1>1, <1>3, SubSeqProperties
<1>5. b - a + 1 = b + 1 - a /\ (~(a <= b) => b + 1 - a = 0)
  BY <1>1
<1>6. QED
  BY <1>4, <1>5

\* A list with one more behind the first p.
Put(s, p, h) == SubSeq(s, 1, p) \o <<h>> \o SubSeq(s, p + 1, Len(s))

\* What new then is.
HasPut(s, p, h, new) ==
    /\ Len(new) = Len(s) + 1
    /\ new[p + 1] = h
    /\ \A i \in 1..p : new[i] = s[i]
    /\ \A i \in (p + 1)..Len(s) : new[i + 1] = s[i]

\* It keeps the others in their order.
LEMMA InsertedAt ==
    ASSUME NEW X, NEW s \in Seq(X), NEW p \in Nat, NEW h \in X, p <= Len(s)
    PROVE  Put(s, p, h) \in Seq(X) /\ HasPut(s, p, h, Put(s, p, h))
<1> DEFINE new == Put(s, p, h)
<1>0. PICK q \in Nat, n \in Nat : q = p + 1 /\ n = Len(s) /\ p <= n
  BY LenProperties
<1> DEFINE low == SubSeq(s, 1, p)
           high == SubSeq(s, q, n)
<1>1. low \in Seq(X) /\ Len(low) = p /\ \A i \in 1..p : low[i] = s[i]
  <2>1. /\ SubSeq(s, 1, p) \in Seq(X) /\ Len(SubSeq(s, 1, p)) = p + 1 - 1
        /\ \A i \in 1..(p + 1 - 1) : SubSeq(s, 1, p)[i] = s[1 + i - 1]
    BY <1>0, PartIs
  <2>2. QED
    BY <2>1
<1>2. high \in Seq(X) /\ Len(high) = n - p /\ \A i \in 1..(n - p) : high[i] = s[p + i]
  <2>1. /\ SubSeq(s, q, n) \in Seq(X) /\ Len(SubSeq(s, q, n)) = n + 1 - q
        /\ \A i \in 1..(n + 1 - q) : SubSeq(s, q, n)[i] = s[q + i - 1]
    BY <1>0, PartIs
  <2>2. n + 1 - q = n - p /\ \A i \in 1..(n - p) : q + i - 1 = p + i
    BY <1>0
  <2>3. QED
    BY <2>1, <2>2
<1> HIDE DEF low, high
<1>3. <<h>> \in Seq(X) /\ Len(<<h>>) = 1 /\ <<h>>[1] = h
  OBVIOUS
<1>4. /\ low \o <<h>> \in Seq(X) /\ Len(low \o <<h>>) = p + 1
      /\ \A i \in 1..p : (low \o <<h>>)[i] = s[i]
      /\ (low \o <<h>>)[q] = h
  <2>1. /\ low \o <<h>> \in Seq(X) /\ Len(low \o <<h>>) = Len(low) + Len(<<h>>)
        /\ \A i \in 1..(Len(low) + Len(<<h>>)) : (low \o <<h>>)[i] =
              IF i <= Len(low) THEN low[i] ELSE <<h>>[i - Len(low)]
    BY <1>1, <1>3, ConcatProperties
  <2>2. q \in 1..(p + 1) /\ ~(q <= p) /\ q - p = 1
    BY <1>0
  <2>3. \A i \in 1..p : i \in 1..(p + 1) /\ i <= p
    OBVIOUS
  <2>4. QED
    BY <1>1, <1>3, <2>1, <2>2, <2>3
<1> DEFINE front == low \o <<h>>
<1>5. /\ new = front \o high /\ front \in Seq(X) /\ Len(front) = p + 1
      /\ front[q] = h /\ \A i \in 1..p : front[i] = s[i]
  BY <1>0, <1>4 DEF low, high, Put
<1> HIDE DEF front, new
<1>6. /\ new \in Seq(X) /\ Len(new) = Len(front) + Len(high)
      /\ \A i \in 1..(Len(front) + Len(high)) : new[i] =
            IF i <= Len(front) THEN front[i] ELSE high[i - Len(front)]
  <2>1. PICK f \in Seq(X), g \in Seq(X) : f = front /\ g = high
    BY <1>2, <1>5
  <2>2. /\ f \o g \in Seq(X) /\ Len(f \o g) = Len(f) + Len(g)
        /\ \A i \in 1..(Len(f) + Len(g)) : (f \o g)[i] =
              IF i <= Len(f) THEN f[i] ELSE g[i - Len(f)]
    BY <2>1, ConcatProperties
  <2>3. new = f \o g
    BY <1>5, <2>1
  <2>4. QED
    BY <2>1, <2>2, <2>3
<1>7. Len(front) + Len(high) = n + 1 /\ p + 1 + (n - p) = n + 1
  BY <1>0, <1>2, <1>5
<1>8. /\ Len(new) = n + 1
      /\ \A i \in 1..(n + 1) : new[i] = IF i <= p + 1 THEN front[i] ELSE high[i - (p + 1)]
  BY <1>5, <1>6, <1>7
<1>9. new[q] = h /\ \A i \in 1..p : new[i] = s[i]
  <2>1. q \in 1..(n + 1) /\ q <= p + 1
    BY <1>0
  <2>2. \A i \in 1..p : i \in 1..(n + 1) /\ i <= p + 1
    BY <1>0
  <2>3. QED
    BY <1>5, <1>8, <2>1, <2>2
<1>10. \A i \in q..n : new[i + 1] = s[i]
  <2> TAKE i \in q..n
  <2>1. /\ i + 1 \in 1..(n + 1) /\ ~(i + 1 <= p + 1)
        /\ i + 1 - (p + 1) = i - p /\ i - p \in 1..(n - p) /\ p + (i - p) = i
    BY <1>0
  <2>2. new[i + 1] = high[i - p]
    <3>1. new[i + 1] = IF i + 1 <= p + 1 THEN front[i + 1] ELSE high[(i + 1) - (p + 1)]
      BY <1>8, <2>1
    <3>2. new[i + 1] = high[(i + 1) - (p + 1)]
      BY <2>1, <3>1
    <3>3. (i + 1) - (p + 1) = i - p
      BY <2>1
    <3>4. QED
      BY <3>2, <3>3
  <2>3. high[i - p] = s[p + (i - p)]
    BY <1>2, <2>1
  <2>4. QED
    BY <2>1, <2>2, <2>3
<1>11. QED
  BY <1>0, <1>6, <1>8, <1>9, <1>10 DEF HasPut, new

\* So a list stays in its order when a host is inserted.
LEMMA InsertRanks ==
    ASSUME NEW N \in Nat, NEW t \in [1..N -> Nat], NEW c \in [Hosts -> Nat],
           \A j \in 1..N : HostNames[j] \in Hosts /\ t[j] = c[HostNames[j]],
           NEW m \in 1..N, NEW S, \A k \in S : k \in 1..N /\ k < m, IsFiniteSet(S),
           NEW s, Ranked(S, t, s), NEW D, D = With(S, m)
    PROVE  Ranked(D, t, Inserted(s, HostNames[m], c))
<1> DEFINE h == HostNames[m]
           P == { j \in DOMAIN s : c[s[j]] >= c[h] }
           G == { i \in S : t[i] >= t[m] }
           r == [j \in S |-> Cardinality(Ahead(S, t, j)) + 1]
<1>1. /\ s \in Seq(Hosts) /\ Len(s) = Cardinality(S) /\ Len(s) \in Nat /\ DOMAIN s = 1..Len(s)
      /\ \A j \in S : s[r[j]] = HostNames[j]
  BY LenProperties DEF Ranked
<1>2. S \subseteq 1..N /\ \A j \in S : j \in 1..N
  <2>1. \A j \in S : j \in 1..N
    OBVIOUS
  <2>2. QED
    BY <2>1
<1>3. r \in Bijection(S, 1..Len(s))
  <2> HIDE DEF r
  <2>1. r = [j \in S |-> Cardinality(Ahead(S, t, j)) + 1]
    BY DEF r
  <2>2. r \in Bijection(S, 1..Cardinality(S))
    BY <1>2, <2>1, RanksFill
  <2>3. QED
    BY <1>1, <2>2
<1>4. \A j \in S : c[s[r[j]]] = t[j]
  BY <1>1, <1>2
<1>5. c[h] = t[m]
  OBVIOUS
<1>6. \A j \in S : r[j] = Cardinality(Ahead(S, t, j)) + 1
  OBVIOUS
<1> HIDE DEF r, h
<1>7. /\ r \in [S -> 1..Len(s)]
      /\ \A a, b \in S : r[a] = r[b] => a = b
      /\ \A x \in 1..Len(s) : \E j \in S : r[j] = x
  <2>1. PICK T : T = 1..Len(s)
    OBVIOUS
  <2>2. r \in Bijection(S, T)
    BY <1>3, <2>1
  <2>3. /\ r \in [S -> T]
        /\ \A a, b \in S : r[a] = r[b] => a = b
        /\ \A x \in T : \E j \in S : r[j] = x
    <3>1. r \in [S -> T]
      BY <2>2, Zenon DEF Bijection, Injection
    <3>2. \A a, b \in S : r[a] = r[b] => a = b
      BY <2>2, Zenon DEF Bijection, Injection, IsInjective
    <3>3. \A x \in T : \E j \in S : r[j] = x
      BY <2>2, Zenon DEF Bijection, Surjection
    <3>4. QED
      BY <3>1, <3>2, <3>3
  <2>4. QED
    BY <2>1, <2>3
<1>8. Cardinality(P) = Cardinality(G) /\ IsFiniteSet(G)
  <2> DEFINE f == [i \in G |-> r[i]]
  <2>1. f \in [G -> P]
    <3>1. \A i \in G : i \in S /\ t[i] >= t[m]
      OBVIOUS
    <3>2. \A i \in G : r[i] \in DOMAIN s /\ c[s[r[i]]] >= c[h]
      BY <1>1, <1>4, <1>5, <1>7, <3>1
    <3>3. \A i \in G : r[i] \in P
      BY <3>2
    <3>4. QED
      BY <3>3
  <2>2. \A a, b \in G : f[a] = f[b] => a = b
    BY <1>7
  <2>3. \A x \in P : \E i \in G : f[i] = x
    <3> TAKE x \in P
    <3>1. x \in 1..Len(s) /\ c[s[x]] >= c[h]
      BY <1>1
    <3>2. PICK i \in S : r[i] = x
      BY <1>7, <3>1
    <3>3. t[i] >= t[m]
      BY <1>4, <1>5, <3>1, <3>2
    <3>4. i \in G /\ f[i] = x
      BY <3>2, <3>3
    <3>5. QED
      BY <3>4
  <2>4. G \subseteq S
    OBVIOUS
  <2> HIDE DEF f, G, P
  <2>5. f \in Bijection(G, P)
    BY <2>1, <2>2, <2>3, Fun_IsBij
  <2>6. IsFiniteSet(G)
    BY <2>4, SomeOf
  <2>7. QED
    BY <2>5, <2>6, Fun_ExistsBij, FS_Bijection
<1> HIDE DEF P, G
<1>9. PICK p \in Nat, q \in Nat, n \in Nat :
        p = Cardinality(G) /\ q = p + 1 /\ n = Len(s)
  <2>1. Cardinality(G) \in Nat
    BY <1>8, FS_CardinalityType
  <2>2. Cardinality(G) + 1 \in Nat
    BY <2>1
  <2>3. QED
    BY <1>1, <2>1, <2>2, Zenon
<1>10. /\ p <= n /\ Cardinality(D) = n + 1
       /\ Ahead(D, t, m) = G
       /\ \A j \in S : Cardinality(Ahead(S, t, j)) \in Nat
       /\ \A j \in G : /\ Cardinality(Ahead(D, t, j)) = Cardinality(Ahead(S, t, j))
                       /\ Cardinality(Ahead(S, t, j)) < p
       /\ \A j \in S \ G : /\ Cardinality(Ahead(D, t, j)) = Cardinality(Ahead(S, t, j)) + 1
                           /\ Cardinality(Ahead(S, t, j)) >= p
  <2>1. PICK g : g = G /\ g = Enough(S, t, m)
    BY DEF G, Enough
  <2>2. /\ Cardinality(g) \in Nat /\ Cardinality(g) <= Cardinality(S)
        /\ Cardinality(S) \in Nat /\ Cardinality(D) = Cardinality(S) + 1 /\ IsFiniteSet(D)
        /\ Ahead(D, t, m) = g
        /\ \A j \in S : Cardinality(Ahead(S, t, j)) \in Nat
        /\ \A j \in g : /\ Cardinality(Ahead(D, t, j)) = Cardinality(Ahead(S, t, j))
                        /\ Cardinality(Ahead(S, t, j)) < Cardinality(g)
        /\ \A j \in S \ g : /\ Cardinality(Ahead(D, t, j)) = Cardinality(Ahead(S, t, j)) + 1
                            /\ Cardinality(Ahead(S, t, j)) >= Cardinality(g)
    <3>1. g = Enough(S, t, m)
      BY <2>1
    <3>2. QED
      BY <3>1, RanksMove
  <2>3. QED
    BY <1>1, <1>9, <2>1, <2>2
<1>11. PICK new : new = Inserted(s, h, c)
  OBVIOUS
<1>12. new = Put(s, p, h)
  <2>1. Cardinality({ j \in DOMAIN s : c[s[j]] >= c[h] }) = p
    BY <1>8, <1>9 DEF P
  <2>2. new = SubSeq(s, 1, p) \o <<h>> \o SubSeq(s, p + 1, Len(s))
    BY <1>11, <2>1, Zenon DEF Inserted
  <2>3. QED
    BY <2>2 DEF Put
<1>13. h \in Hosts
  BY DEF h
<1>14. /\ new \in Seq(Hosts) /\ Len(new) = n + 1
       /\ new[q] = h
       /\ \A i \in 1..p : new[i] = s[i]
       /\ \A i \in q..n : new[i + 1] = s[i]
  <2>1. p <= Len(s)
    BY <1>9, <1>10
  <2>2. s \in Seq(Hosts) /\ q = p + 1 /\ n = Len(s)
    BY <1>1, <1>9
  <2>3. QED
    <3>1. PICK X : X = Hosts
      OBVIOUS
    <3>2. s \in Seq(X) /\ h \in X
      BY <1>13, <2>2, <3>1
    <3>3. PICK u \in X : u = h
      BY <3>2
    <3>4. new = Put(s, p, u)
      BY <1>12, <3>3
    <3>5. new \in Seq(X) /\ HasPut(s, p, u, new)
      BY <1>9, <2>1, <2>2, <3>2, <3>3, <3>4, InsertedAt
    <3>6. QED
      BY <2>2, <3>1, <3>3, <3>5 DEF HasPut
<1>15. new[Cardinality(Ahead(D, t, m)) + 1] = HostNames[m]
  BY <1>9, <1>10, <1>14 DEF h
<1>16. ASSUME NEW j \in S
       PROVE  new[Cardinality(Ahead(D, t, j)) + 1] = HostNames[j]
  <2>1. r[j] \in 1..n /\ s[r[j]] = HostNames[j] /\ r[j] = Cardinality(Ahead(S, t, j)) + 1
    BY <1>1, <1>6, <1>7, <1>9
  <2>2. PICK a \in Nat : a = Cardinality(Ahead(S, t, j))
    BY <1>10
  <2>3. CASE j \in G
    <3>1. a < p /\ Cardinality(Ahead(D, t, j)) = a
      BY <1>9, <1>10, <2>2, <2>3
    <3>2. a + 1 \in 1..p /\ Cardinality(Ahead(D, t, j)) + 1 = a + 1
      BY <3>1
    <3>3. QED
      BY <1>14, <2>1, <2>2, <3>2
  <2>4. CASE j \notin G
    <3>1. a >= p /\ Cardinality(Ahead(D, t, j)) = a + 1
      BY <1>9, <1>10, <2>2, <2>4
    <3>2. a + 1 \in q..n /\ Cardinality(Ahead(D, t, j)) + 1 = (a + 1) + 1
      BY <1>9, <2>1, <2>2, <3>1
    <3>3. QED
      BY <1>14, <2>1, <2>2, <3>2
  <2>5. QED
    BY <2>3, <2>4
<1>17. Ranked(D, t, new)
  <2>1. \A j \in D : j \in S \/ j = m
    BY DEF With
  <2>2. \A j \in D : new[Cardinality(Ahead(D, t, j)) + 1] = HostNames[j]
    BY <1>15, <1>16, <2>1
  <2>3. Len(new) = Cardinality(D)
    BY <1>10, <1>14
  <2>4. QED
    BY <1>14, <2>2, <2>3 DEF Ranked
<1>18. QED
  BY <1>11, <1>17 DEF h

--------------------------------------------------------------------------------
(* The function of TopHosts. *)

\* The hosts among the first n that are counted at all.
Named(c, n) == { j \in 1..n : c[HostNames[j]] # 0 }

\* The list of the first k hosts, from that of one less.
SortStep(c, f, k) ==
    IF k = 0 THEN <<>>
    ELSE IF c[HostNames[k]] = 0 THEN f[k - 1]
    ELSE Inserted(f[k - 1], HostNames[k], c)

\* The lists of the first hosts, up to n.
Sorts(c, n, f) == f = [k \in 0..n |-> SortStep(c, f, k)]

\* They exist for one more.
LEMMA SortsExtend ==
    ASSUME NEW c, NEW n \in Nat, NEW f, Sorts(c, n, f), NEW m \in Nat, m = n + 1
    PROVE  \E g : Sorts(c, m, g)
<1> DEFINE g == [k \in 0..m |-> IF k <= n THEN f[k] ELSE SortStep(c, f, k)]
<1>1. ASSUME NEW k \in 0..m
      PROVE  SortStep(c, f, k) = SortStep(c, g, k)
  <2>1. CASE k = 0
    BY <2>1 DEF SortStep
  <2>2. CASE k # 0
    <3>1. k - 1 \in 0..m /\ k - 1 <= n
      BY <2>2
    <3>2. g[k - 1] = f[k - 1]
      BY <3>1
    <3> HIDE DEF g
    <3>3. QED
      BY <3>2 DEF SortStep
  <2>3. QED
    BY <2>1, <2>2
<1>2. ASSUME NEW k \in 0..m
      PROVE  g[k] = SortStep(c, g, k)
  <2>1. CASE k <= n
    <3>1. k \in 0..n
      BY <2>1
    <3>2. f[k] = SortStep(c, f, k)
      <4> HIDE DEF g
      <4>1. f = [i \in 0..n |-> SortStep(c, f, i)]
        BY DEF Sorts
      <4> DEFINE S(i) == SortStep(c, f, i)
      <4>2. f = [i \in 0..n |-> S(i)]
        BY <4>1
      <4> HIDE DEF S
      <4>3. f[k] = S(k)
        BY <3>1, <4>2
      <4>4. QED
        BY <4>3 DEF S
    <3>3. g[k] = f[k]
      BY <2>1
    <3> HIDE DEF g
    <3>4. QED
      BY <1>1, <3>2, <3>3
  <2>2. CASE ~(k <= n)
    <3>1. g[k] = SortStep(c, f, k)
      BY <2>2
    <3> HIDE DEF g
    <3>2. QED
      BY <1>1, <3>1
  <2>3. QED
    BY <2>1, <2>2
<1>3. \E X : g \in [0..m -> X]
  <2> DEFINE B(k) == IF k <= n THEN f[k] ELSE SortStep(c, f, k)
  <2>1. g = [k \in 0..m |-> B(k)]
    OBVIOUS
  <2> HIDE DEF B, g
  <2>2. g \in [0..m -> { B(k) : k \in 0..m }]
    BY <2>1
  <2>3. QED
    BY <2>2
<1> HIDE DEF g
<1>4. g = [k \in 0..m |-> SortStep(c, g, k)]
  <2> DEFINE S(k) == SortStep(c, g, k)
  <2>1. \A k \in 0..m : g[k] = S(k)
    BY <1>2
  <2> HIDE DEF S
  <2>2. g = [k \in 0..m |-> S(k)]
    BY <1>3, <2>1
  <2>3. QED
    BY <2>2 DEF S
<1>5. QED
  BY <1>4 DEF Sorts

\* So they exist.
LEMMA SortsExist ==
    ASSUME NEW c
    PROVE  \A n \in Nat : \E f : Sorts(c, n, f)
<1> DEFINE Bad == { n \in Nat : ~\E f : Sorts(c, n, f) }
<1>1. SUFFICES ASSUME Bad # {} PROVE FALSE
  OBVIOUS
<1>2. PICK m \in Bad : \A n \in Bad : m <= n
  <2>1. Bad \subseteq Nat
    OBVIOUS
  <2> HIDE DEF Bad
  <2>2. QED
    BY <1>1, <2>1, LeastNatural
<1>3. m \in Nat /\ ~\E f : Sorts(c, m, f)
  BY <1>2
<1>4. m # 0
  <2>1. SUFFICES ASSUME m = 0 PROVE FALSE
    OBVIOUS
  <2> DEFINE f == [k \in 0..0 |-> <<>>]
  <2>2. \A g : \A k \in 0..0 : SortStep(c, g, k) = <<>>
    BY DEF SortStep
  <2>3. [k \in 0..0 |-> SortStep(c, f, k)] = [k \in 0..0 |-> <<>>]
    <3> HIDE DEF f
    <3> DEFINE S(k) == SortStep(c, f, k)
    <3>1. \A k \in 0..0 : S(k) = <<>>
      BY <2>2
    <3> HIDE DEF S
    <3>2. [k \in 0..0 |-> S(k)] = [k \in 0..0 |-> <<>>]
      BY <3>1
    <3>3. QED
      BY <3>2 DEF S
  <2>4. Sorts(c, 0, f)
    BY <2>3 DEF Sorts
  <2>5. QED
    BY <1>3, <2>1, <2>4
<1>5. PICK n \in Nat : m = n + 1
  <2>1. m - 1 \in Nat /\ m = (m - 1) + 1
    BY <1>3, <1>4
  <2>2. QED
    BY <2>1
<1>6. n \notin Bad
  BY <1>2, <1>5
<1>7. PICK f : Sorts(c, n, f)
  BY <1>5, <1>6
<1>8. QED
  BY <1>3, <1>5, <1>7, SortsExtend

\* What they are, of the first.
LEMMA SortsAre ==
    ASSUME NEW c, NEW n \in Nat, NEW f, Sorts(c, n, f)
    PROVE  /\ f[0] = <<>>
           /\ \A k \in 1..n : f[k] = IF c[HostNames[k]] = 0 THEN f[k - 1]
                                     ELSE Inserted(f[k - 1], HostNames[k], c)
<1>1. \A k \in 0..n : f[k] = SortStep(c, f, k)
  <2>1. f = [i \in 0..n |-> SortStep(c, f, i)]
    BY DEF Sorts
  <2> DEFINE S(i) == SortStep(c, f, i)
  <2>2. f = [i \in 0..n |-> S(i)]
    BY <2>1
  <2> HIDE DEF S
  <2>3. \A k \in 0..n : f[k] = S(k)
    BY <2>2
  <2>4. QED
    BY <2>3 DEF S
<1>2. 0 \in 0..n /\ \A k \in 1..n : k \in 0..n /\ k # 0
  OBVIOUS
<1>3. f[0] = <<>>
  BY <1>1, <1>2 DEF SortStep
<1>4. \A k \in 1..n : f[k] = IF c[HostNames[k]] = 0 THEN f[k - 1]
                             ELSE Inserted(f[k - 1], HostNames[k], c)
  BY <1>1, <1>2, Zenon DEF SortStep
<1>5. QED
  BY <1>3, <1>4

\* Each is in its order.
LEMMA SortsRank ==
    ASSUME NEW N \in Nat, NEW t \in [1..N -> Nat], NEW c \in [Hosts -> Nat], NEW f,
           \A j \in 1..N : HostNames[j] \in Hosts /\ t[j] = c[HostNames[j]],
           Sorts(c, N, f)
    PROVE  \A k \in 0..N : Ranked(Named(c, k), t, f[k])
<1> DEFINE Bad == { k \in 0..N : ~Ranked(Named(c, k), t, f[k]) }
<1>1. SUFFICES ASSUME Bad # {} PROVE FALSE
  OBVIOUS
<1>2. PICK m \in Bad : \A k \in Bad : m <= k
  <2>1. Bad \subseteq Nat
    OBVIOUS
  <2> HIDE DEF Bad
  <2>2. QED
    BY <1>1, <2>1, LeastNatural
<1>3. m \in 0..N /\ ~Ranked(Named(c, m), t, f[m])
  BY <1>2
<1>4. /\ f[0] = <<>>
      /\ \A k \in 1..N : f[k] = IF c[HostNames[k]] = 0 THEN f[k - 1]
                                ELSE Inserted(f[k - 1], HostNames[k], c)
  <2> HIDE DEF Bad
  <2>1. QED
    BY SortsAre
<1>5. m # 0
  <2>1. Named(c, 0) = {}
    BY DEF Named
  <2>2. <<>> \in Seq(Hosts) /\ Len(<<>>) = 0 /\ Cardinality({}) = 0
    BY FS_EmptySet
  <2>3. Ranked(Named(c, 0), t, f[0])
    BY <1>4, <2>1, <2>2 DEF Ranked
  <2>4. QED
    BY <1>3, <2>3
<1>6. PICK p \in Nat : p = m - 1
  BY <1>3, <1>5
<1>7. m \in 1..N /\ p \in 0..N /\ p < m /\ m = p + 1
  BY <1>3, <1>5, <1>6
<1>8. Ranked(Named(c, p), t, f[p])
  <2>1. p \notin Bad
    BY <1>2, <1>7
  <2>2. QED
    BY <1>7, <2>1
<1> HIDE DEF Bad
<1>9. \A j : j \in 1..m <=> j \in 1..p \/ j = m
  BY <1>6, <1>7
<1>10. CASE c[HostNames[m]] = 0
  <2>1. f[m] = f[p]
    BY <1>4, <1>6, <1>7, <1>10
  <2>2. \A j : j \in Named(c, m) <=> j \in Named(c, p)
    BY <1>9, <1>10 DEF Named
  <2>3. Named(c, m) = Named(c, p)
    BY <2>2
  <2>4. QED
    BY <1>3, <1>8, <2>1, <2>3
<1>11. CASE c[HostNames[m]] # 0
  <2>1. f[m] = Inserted(f[p], HostNames[m], c)
    BY <1>4, <1>6, <1>7, <1>11
  <2>2. \A j : j \in Named(c, m) <=> j \in Named(c, p) \/ j = m
    BY <1>9, <1>11 DEF Named
  <2>3. Named(c, m) = With(Named(c, p), m)
    BY <2>2 DEF With
  <2>4. IsFiniteSet(Named(c, p))
    <3>1. Named(c, p) \subseteq 1..p
      BY DEF Named
    <3>2. IsFiniteSet(1..p)
      BY <1>6, FS_Interval
    <3>3. QED
      BY <3>1, <3>2, FS_Subset
  <2>5. \A j \in Named(c, p) : j \in 1..N /\ j < m
    BY <1>6, <1>7 DEF Named
  <2>6. PICK S, s, D : S = Named(c, p) /\ s = f[p] /\ D = Named(c, m)
    OBVIOUS
  <2>7. /\ \A j \in S : j \in 1..N /\ j < m
        /\ IsFiniteSet(S) /\ Ranked(S, t, s) /\ D = With(S, m)
    BY <1>8, <2>3, <2>4, <2>5, <2>6
  <2>8. Ranked(D, t, Inserted(s, HostNames[m], c))
    BY <1>7, <2>7, InsertRanks
  <2>9. QED
    BY <1>3, <2>1, <2>6, <2>8
<1>12. QED
  BY <1>10, <1>11

--------------------------------------------------------------------------------
(* The report. *)

\* The list top of the first hosts of S.
Heads(S, t, top) ==
    /\ Len(top) = IF Cardinality(S) < TopN THEN Cardinality(S) ELSE TopN
    /\ \A j \in S : Cardinality(Ahead(S, t, j)) < TopN =>
        top[Cardinality(Ahead(S, t, j)) + 1] = HostNames[j]

\* The first of a list are the first of its hosts.
LEMMA HeadsAre ==
    ASSUME NEW N \in Nat, NEW t \in [1..N -> Nat], NEW S, S \subseteq 1..N, IsFiniteSet(S),
           NEW all, Ranked(S, t, all)
    PROVE  Heads(S, t, SubSeq(all, 1, IF TopN < Len(all) THEN TopN ELSE Len(all)))
<1>1. /\ all \in Seq(Hosts) /\ Len(all) = Cardinality(S) /\ Len(all) \in Nat
      /\ \A j \in S : all[Cardinality(Ahead(S, t, j)) + 1] = HostNames[j]
  BY LenProperties DEF Ranked
<1>2. PICK b \in Nat : b = IF TopN < Len(all) THEN TopN ELSE Len(all)
  BY <1>1, ReportAssumption
<1>3. b <= Len(all) /\ 1 \in Nat /\ 1 <= b + 1
  BY <1>1, <1>2, ReportAssumption
<1>4. PICK top : top = SubSeq(all, 1, b)
  OBVIOUS
<1>5. Len(top) = b /\ \A i \in 1..b : top[i] = all[i]
  <2>1. PICK X : X = Hosts
    OBVIOUS
  <2>2. all \in Seq(X)
    BY <1>1, <2>1
  <2>3. /\ Len(SubSeq(all, 1, b)) = b + 1 - 1
        /\ \A i \in 1..(b + 1 - 1) : SubSeq(all, 1, b)[i] = all[1 + i - 1]
    BY <1>2, <1>3, <2>2, PartIs
  <2>4. b + 1 - 1 = b /\ \A i \in 1..b : 1 + i - 1 = i
    BY <1>2
  <2>5. QED
    BY <1>4, <2>3, <2>4
<1>6. ASSUME NEW j \in S
      PROVE  Cardinality(Ahead(S, t, j)) \in Nat /\ Cardinality(Ahead(S, t, j)) < Cardinality(S)
  <2>1. Ahead(S, t, j) \subseteq S
    BY DEF Ahead
  <2>2. j \in Nat /\ t[j] \in Nat
    OBVIOUS
  <2>3. j \notin Ahead(S, t, j)
    BY <2>2 DEF Ahead
  <2>4. QED
    BY <2>1, <2>3, SomeOf
<1>7. ASSUME NEW j \in S, Cardinality(Ahead(S, t, j)) < TopN
      PROVE  top[Cardinality(Ahead(S, t, j)) + 1] = HostNames[j]
  <2>1. PICK a \in Nat : a = Cardinality(Ahead(S, t, j))
    BY <1>6
  <2>2. a < TopN /\ a < Len(all)
    BY <1>1, <1>6, <1>7, <2>1
  <2>3. a + 1 \in 1..b
    BY <1>2, <2>1, <2>2
  <2>4. top[a + 1] = all[a + 1]
    BY <1>5, <2>3
  <2>5. QED
    BY <1>1, <2>1, <2>4
<1>8. Len(top) = IF Cardinality(S) < TopN THEN Cardinality(S) ELSE TopN
  BY <1>1, <1>2, <1>5, ReportAssumption
<1>9. Heads(S, t, top)
  BY <1>7, <1>8 DEF Heads
<1>10. QED
  BY <1>2, <1>4, <1>9

\* top_hosts, of what it counts.
LEMMA TopHostsAre ==
    ASSUME NEW count, NEW c \in [Hosts -> Nat], count.host_counts = c,
           NEW N \in Nat, N = Len(HostNames), NEW t \in [1..N -> Nat],
           \A j \in 1..N : HostNames[j] \in Hosts /\ t[j] = c[HostNames[j]]
    PROVE  Heads(Named(c, N), t, TopHosts(count, TopN))
<1> DEFINE f == CHOOSE g : Sorts(c, N, g)
           all == f[N]
<1>1. Sorts(c, N, f)
  <2>1. \E g : Sorts(c, N, g)
    BY SortsExist
  <2>2. QED
    BY <2>1
<1>2. TopHosts(count, TopN) = SubSeq(all, 1, IF TopN < Len(all) THEN TopN ELSE Len(all))
  BY DEF TopHosts, Sorts, SortStep
<1> HIDE DEF f
<1>3. Ranked(Named(c, N), t, all)
  <2>1. \A k \in 0..N : Ranked(Named(c, k), t, f[k])
    BY <1>1, SortsRank
  <2>2. N \in 0..N
    OBVIOUS
  <2>3. QED
    BY <2>1, <2>2
<1>4. Named(c, N) \subseteq 1..N /\ IsFiniteSet(Named(c, N))
  <2>1. Named(c, N) \subseteq 1..N
    BY DEF Named
  <2>2. IsFiniteSet(1..N)
    <3>1. N \in Int /\ 1 \in Int
      OBVIOUS
    <3>2. QED
      BY <3>1, FS_Interval
  <2>3. QED
    BY <2>1, <2>2, FS_Subset
<1> HIDE DEF all
<1>5. QED
  BY <1>2, <1>3, <1>4, HeadsAre

\* What is printed is what the tally then held, and the tally is kept.
ReportInv == report # None => replay = Success /\ report.top = TopHosts(tally, TopN)

\* After any step the report still is that of the tally.
LEMMA ReportKept ==
    ASSUME ReportInv, [Next]_vars
    PROVE  ReportInv'
<1>1. CASE report' = report /\ replay' = replay /\ tally' = tally
  BY <1>1 DEF ReportInv
<1>2. CASE report' = report /\ replay # Success
  BY <1>2 DEF ReportInv
<1>3. CASE PrintReport
  BY <1>3 DEF PrintReport, ReportInv
<1>4. \/ report' = report /\ replay' = replay /\ tally' = tally
      \/ report' = report /\ replay # Success
      \/ PrintReport
  BY DEF Next, ReplayRefuses, ReplayOpens, SkipLine, CountDecodeError, CountOutcome, Counted,
     Reading, InspectRefuses, InspectRefusesHex, InspectShows, InspectExits, Success, vars
<1>5. QED
  BY <1>1, <1>2, <1>3, <1>4

\* So the report ranks what the tally counts.
LEMMA RanksAreCounts == TallyInv /\ ReportInv => ReportRanksHosts
<1> SUFFICES ASSUME TallyInv, ReportInv, report # None PROVE ReportRanksHosts
  BY DEF ReportRanksHosts
<1>1. PICK N \in Nat : N = Len(HostNames) /\ DOMAIN HostNames = 1..N
  BY LenProperties, ReportAssumption
<1>2. PICK c \in [Hosts -> Nat] : tally.host_counts = c
  BY DEF TallyInv, Tallies
<1>3. \A host \in Hosts : /\ c[host] = Cardinality(HostLines(host))
                          /\ IsFiniteSet(HostLines(host))
  BY <1>2, CountsAre
<1>4. \A j \in 1..N : HostNames[j] \in Hosts
  BY <1>1 DEF Hosts
<1>5. PICK t \in [1..N -> Nat] : \A j \in 1..N : t[j] = c[HostNames[j]]
  <2> DEFINE u == [j \in 1..N |-> c[HostNames[j]]]
  <2>1. u \in [1..N -> Nat] /\ \A j \in 1..N : u[j] = c[HostNames[j]]
    BY <1>2, <1>4
  <2>2. QED
    BY <2>1
<1>6. Heads(Named(c, N), t, report.top)
  <2>1. report.top = TopHosts(tally, TopN)
    BY DEF ReportInv
  <2>2. Heads(Named(c, N), t, TopHosts(tally, TopN))
    BY <1>1, <1>2, <1>4, <1>5, TopHostsAre
  <2>3. QED
    BY <2>1, <2>2
<1> DEFINE named == { k \in DOMAIN HostNames : HostLines(HostNames[k]) # {} }
           times(k) == Cardinality(HostLines(HostNames[k]))
           ahead(k) == { j \in named : times(j) > times(k) \/ (times(j) = times(k) /\ j < k) }
<1>7. named = Named(c, N)
  <2>1. \A k \in 1..N : c[HostNames[k]] = 0 <=> HostLines(HostNames[k]) = {}
    BY <1>3, <1>4, FS_EmptySet
  <2>2. QED
    BY <1>1, <2>1 DEF Named
<1>8. \A k \in 1..N : t[k] = times(k)
  BY <1>3, <1>4, <1>5
<1>9. \A k \in named : ahead(k) = Ahead(named, t, k)
  <2>1. \A k \in named : k \in 1..N
    BY <1>1
  <2> HIDE DEF named, times
  <2>2. QED
    BY <1>8, <2>1 DEF Ahead
<1> HIDE DEF named, ahead
<1>10. /\ Len(report.top) = IF Cardinality(named) < TopN THEN Cardinality(named) ELSE TopN
       /\ \A k \in named : Cardinality(ahead(k)) < TopN =>
            report.top[Cardinality(ahead(k)) + 1] = HostNames[k]
  BY <1>6, <1>7, <1>9 DEF Heads
<1>11. QED
  BY <1>10 DEF ReportRanksHosts, named, ahead

\* The report lists the hosts by how often the corpus names them, and hosts named as often
\* in ascending order, each at the place of how many go before it.
THEOREM ReportsInOrder == Spec => []ReportRanksHosts
<1>1. Init => ReportInv
  BY DEF Init, ReportInv
<1>2. TallyInv /\ [Next]_vars => TallyInv'
  BY TallyKept
<1>3. ReportInv /\ [Next]_vars => ReportInv'
  BY ReportKept
<1>4. TallyInv /\ ReportInv => ReportRanksHosts
  BY RanksAreCounts
<1>5. QED
  BY <1>1, <1>2, <1>3, <1>4, TallyStart, PTL DEF Spec

================================================================================
