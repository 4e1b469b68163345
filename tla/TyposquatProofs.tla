---------------------------- MODULE TyposquatProofs ---------------------------
(***************************************************************************)
(* For words of any length and any list of brands: check_typosquat reads   *)
(* and writes its rows within their bounds, every cell of them is the      *)
(* distance of two prefixes, and the report is the one NearestBrand        *)
(* promises.                                                               *)
(***************************************************************************)
EXTENDS Typosquat, FiniteSetTheorems, SequenceTheorems, TLAPS

\* The least of some numbers is one of them.
LEMMA LeastIs ==
    ASSUME NEW x \in Nat, NEW y \in Nat, NEW z \in Nat
    PROVE  Least({x, y, z}) \in Nat
<1>1. \E c \in {x, y, z} : \A e \in {x, y, z} : c <= e
  OBVIOUS
<1>2. Least({x, y, z}) \in {x, y, z}
  BY <1>1 DEF Least
<1>3. QED
  BY <1>2

\* The arguments are words, and lengths are numbers.
LEMMA WordsAre ==
    ASSUME TypeOK
    PROVE  /\ domain \in Words /\ brands \in Seq(Words)
           /\ Len(domain) \in Nat /\ Len(brands) \in Nat
           /\ n <= Len(brands) => brand \in Words /\ Len(brand) \in Nat
<1>1. domain \in Words /\ brands \in Seq(Words)
  <2>1. [domain |-> domain, brands |-> brands] \in [domain : Words, brands : Seq(Words)]
    BY InputsAssumption DEF TypeOK
  <2>2. QED
    BY <2>1
<1>2. \A w \in Words : Len(w) \in Nat
  BY InputsAssumption, LenProperties
<1>3. Len(brands) \in Nat
  BY <1>1, LenProperties
<1>4. n <= Len(brands) => brand \in Words
  BY <1>1, <1>3, ElementOfSeq DEF TypeOK, brand
<1>5. QED
  BY <1>1, <1>2, <1>3, <1>4

\* Before the first brand.
LEMMA TypesStart == Init => TypeOK
<1> SUFFICES ASSUME Init PROVE TypeOK
  OBVIOUS
<1>1. PICK input \in Inputs : domain = input.domain /\ brands = input.brands
  BY DEF Init
<1>2. input \in [domain : Words, brands : Seq(Words)]
  BY InputsAssumption
<1>3. [domain |-> domain, brands |-> brands] = input
  BY <1>1, <1>2
<1>4. Len(brands) \in Nat
  BY <1>1, <1>2, LenProperties
<1>5. QED
  BY <1>3, <1>4 DEF Init, TypeOK

\* A cell is written inside its row, from cells of the rows.
LEMMA CellKept ==
    ASSUME TypeOK, FillCell
    PROVE  TypeOK'
<1>1. /\ at = "cells" /\ n <= Len(brands) /\ i < Len(domain) /\ j < Len(brand)
      /\ prev \in Row /\ curr \in Row
      /\ UNCHANGED <<args, at, n, i, prev, d, best>>
  BY DEF TypeOK, FillCell
<1>2. Len(brand) \in Nat /\ Len(domain) \in Nat /\ i \in Nat /\ j \in Nat
  BY <1>1, WordsAre DEF TypeOK
<1>3. j + 1 \in 1..(Len(brand) + 1) /\ j + 2 \in 1..(Len(brand) + 1)
  BY <1>1, <1>2
<1>4. prev[j + 1] \in Nat /\ prev[j + 2] \in Nat /\ curr[j + 1] \in Nat
  BY <1>1, <1>3 DEF Row
<1>5. Cell \in Nat
  <2>1. /\ prev[j + 2] + 1 \in Nat /\ curr[j + 1] + 1 \in Nat
        /\ prev[j + 1] + (IF domain[i + 1] = brand[j + 1] THEN 0 ELSE 1) \in Nat
    BY <1>4
  <2>2. QED
    BY <2>1, LeastIs DEF Cell
<1>6. curr' \in Row
  BY <1>1, <1>3, <1>5 DEF FillCell, Row
<1>7. Row' = Row /\ brand' = brand
  BY <1>1 DEF Row, brand, args
<1>8. j' = j + 1 /\ j' \in Nat /\ j' <= Len(brand)
  BY <1>1, <1>2 DEF FillCell
<1>9. i # Len(domain)
  BY <1>1, <1>2
<1>10. QED
  BY <1>1, <1>6, <1>7, <1>8, <1>9 DEF TypeOK, args

\* The rows change places.
LEMMA SwapKept ==
    ASSUME TypeOK, SwapRows
    PROVE  TypeOK'
<1>1. /\ at = "cells" /\ n <= Len(brands) /\ i < Len(domain)
      /\ prev \in Row /\ curr \in Row /\ prev' = curr /\ i' = i + 1 /\ j' = 0
      /\ UNCHANGED <<args, at, n, d, best>>
  BY DEF TypeOK, SwapRows
<1>2. Len(brand) \in Nat /\ Len(domain) \in Nat /\ i \in Nat
  BY <1>1, WordsAre DEF TypeOK
<1>3. [prev EXCEPT ![1] = i + 2] \in Row
  BY <1>1, <1>2 DEF Row
<1>4. curr' \in Row
  BY <1>1, <1>3 DEF SwapRows
<1>5. Row' = Row /\ brand' = brand
  BY <1>1 DEF Row, brand, args
<1>6. i' \in Nat /\ i' <= Len(domain) /\ j' \in Nat /\ j' <= Len(brand)
  BY <1>1, <1>2
<1>7. QED
  BY <1>1, <1>4, <1>5, <1>6 DEF TypeOK, args

\* Every step keeps the rows in their bounds.
LEMMA TypesKept ==
    ASSUME TypeOK, [Next]_vars
    PROVE  TypeOK'
<1>0. /\ Len(domain) \in Nat /\ Len(brands) \in Nat /\ n \in Nat
      /\ n <= Len(brands) => brand \in Words /\ Len(brand) \in Nat
  BY WordsAre DEF TypeOK
<1>1. CASE ReturnBest
  BY <1>1 DEF ReturnBest, Return, args, rows, TypeOK
<1>2. CASE ReturnExact
  BY <1>2 DEF ReturnExact, Return, args, rows, TypeOK
<1>3. CASE MeasureEmpty
  BY <1>0, <1>3 DEF MeasureEmpty, args, rows, TypeOK
<1>4. CASE StartRows
  <2>1. /\ n <= Len(brands) /\ domain # <<>> /\ domain \in Seq(DOMAIN Fold)
        /\ Len(brand) \in Nat
    BY <1>0, <1>4, WordsAre, InputsAssumption DEF StartRows
  <2>2. Len(domain) # 0
    BY <2>1, EmptySeq
  <2>3. Row' = Row /\ brand' = brand
    BY <1>4 DEF StartRows, Row, brand, args
  <2>4. prev' \in Row
    BY <1>4, <2>1 DEF StartRows, Row
  <2>5. curr' \in Row
    BY <1>4, <2>1 DEF StartRows, Row
  <2>6. QED
    BY <1>0, <1>4, <2>1, <2>2, <2>3, <2>4, <2>5 DEF StartRows, args, TypeOK
<1>5. CASE ReadRow
  <2>1. prev \in Row /\ n <= Len(brands)
    BY <1>5 DEF ReadRow, TypeOK
  <2>2. d' \in Nat
    BY <1>0, <1>5, <2>1 DEF ReadRow, Row
  <2>3. QED
    BY <1>5, <2>1, <2>2 DEF ReadRow, args, rows, TypeOK
<1>6. CASE Judge
  <2>1. n <= Len(brands) /\ brand \in Words /\ n' = n + 1 /\ at' = "brand"
        /\ UNCHANGED <<args, rows, d>>
    BY <1>0, <1>6 DEF Judge, TypeOK
  <2>2. n' \in 1..(Len(brands) + 1)
    BY <1>0, <2>1 DEF TypeOK
  <2>3. best' # None => best'.distance \in 1..MaxDistance /\ best'.looks_like \in Words
    BY <1>6, <2>1 DEF Judge, TypeOK
  <2>4. QED
    BY <2>1, <2>2, <2>3 DEF args, rows, TypeOK
<1>7. CASE UNCHANGED vars
  BY <1>7 DEF vars, args, rows, TypeOK, Row, brand
<1>8. QED
  BY <1>1, <1>2, <1>3, <1>4, <1>5, <1>6, <1>7, CellKept, SwapKept DEF Next

\* No row is read or written outside its bounds, whatever the domain and the
\* brands, and a brand that is reported lies within the threshold.
THEOREM RowsInBounds == Spec => []TypeOK
<1>1. TypeOK /\ [Next]_vars => TypeOK'
  BY TypesKept
<1>2. QED
  BY <1>1, TypesStart, PTL DEF Spec

--------------------------------------------------------------------------------
\* Of some numbers one is the least: the initial segments of the naturals that end in
\* them are finite, and inclusion of finite sets is well founded.
LEMMA LeastNatural ==
    ASSUME NEW S, S \subseteq Nat, S # {}
    PROVE  \E m \in S : \A k \in S : m <= k
<1> DEFINE Below == { 0..k : k \in S }
<1>1. Below \subseteq FiniteSubsetsOf(Nat)
  <2> SUFFICES ASSUME NEW k \in S PROVE 0..k \in FiniteSubsetsOf(Nat)
    OBVIOUS
  <2>1. k \in Int /\ 0 \in Int /\ 0..k \subseteq Nat
    OBVIOUS
  <2>2. QED
    BY <2>1, FS_Interval DEF FiniteSubsetsOf
<1>2. Below # {}
  OBVIOUS
<1>3. PICK b \in Below : \A c \in Below : ~(<<c, b>> \in StrictSubsetOrdering(Nat))
  <2> HIDE DEF Below
  <2>1. IsWellFoundedOn(StrictSubsetOrdering(Nat), FiniteSubsetsOf(Nat))
    BY FS_StrictSubsetOrderingWellFounded
  <2>2. QED
    BY <1>1, <1>2, <2>1, WFMin
<1>4. PICK m \in S : b = 0..m
  OBVIOUS
<1>5. ASSUME NEW k \in S, k < m
      PROVE  FALSE
  <2>1. 0..k \subseteq 0..m /\ m \in 0..m /\ m \notin 0..k
    BY <1>5
  <2>2. 0..k \in SUBSET Nat /\ 0..m \in SUBSET Nat
    BY <1>5
  <2>3. <<0..k, 0..m>> \in StrictSubsetOrdering(Nat)
    BY <2>1, <2>2 DEF StrictSubsetOrdering
  <2>4. QED
    BY <1>3, <1>4, <2>3
<1>6. QED
  BY <1>5

--------------------------------------------------------------------------------
\* Traces between the first x characters of a and the first y of b.

Within(x, y) ==
    { t \in SUBSET ((1..x) \X (1..y)) : \A p, q \in t : (p[1] < q[1]) <=> (p[2] < q[2]) }

Substituted(a, b, t) == { p \in t : a[p[1]] # b[p[2]] }

EditsBy(a, b, x, y, t) == x + y - 2 * Cardinality(t) + Cardinality(Substituted(a, b, t))

\* c is the least cost of such a trace.
Fewest(a, b, x, y, c) ==
    /\ \E t \in Within(x, y) : EditsBy(a, b, x, y, t) = c
    /\ \A t \in Within(x, y) : c <= EditsBy(a, b, x, y, t)

\* A trace is finite, and links no more characters than either word has.
LEMMA TraceIsFinite ==
    ASSUME NEW x \in Nat, NEW y \in Nat, NEW t \in Within(x, y)
    PROVE  /\ IsFiniteSet(t)
           /\ Cardinality(t) \in Nat
           /\ Cardinality(t) <= x /\ Cardinality(t) <= y
<1>1. t \subseteq (1..x) \X (1..y) /\ \A p, q \in t : (p[1] < q[1]) <=> (p[2] < q[2])
  BY DEF Within
<1>2. \A p \in t : p = <<p[1], p[2]>> /\ p[1] \in 1..x /\ p[2] \in 1..y
  BY <1>1
<1>3. \A p, q \in t : p[1] = q[1] <=> p[2] = q[2]
  BY <1>1, <1>2
<1>4. [p \in t |-> p[1]] \in Injection(t, 1..x)
  BY <1>2, <1>3 DEF Injection, IsInjective
<1>5. [p \in t |-> p[2]] \in Injection(t, 1..y)
  BY <1>2, <1>3 DEF Injection, IsInjective
<1>6. /\ IsFiniteSet(1..x) /\ Cardinality(1..x) = x
      /\ IsFiniteSet(1..y) /\ Cardinality(1..y) = y
  BY FS_Interval
<1>7. QED
  BY <1>4, <1>5, <1>6, FS_Injection, FS_CardinalityType

\* So its cost is a number.
LEMMA CostIsNatural ==
    ASSUME NEW a, NEW b, NEW x \in Nat, NEW y \in Nat, NEW t \in Within(x, y)
    PROVE  /\ IsFiniteSet(Substituted(a, b, t))
           /\ Cardinality(Substituted(a, b, t)) \in Nat
           /\ EditsBy(a, b, x, y, t) \in Nat
<1>1. Substituted(a, b, t) \in SUBSET t
  BY DEF Substituted
<1>2. IsFiniteSet(Substituted(a, b, t)) /\ Cardinality(Substituted(a, b, t)) \in Nat
  BY <1>1, TraceIsFinite, FS_Subset, FS_CardinalityType
<1>3. QED
  BY <1>2, TraceIsFinite DEF EditsBy

\* The fewest edits exist, and are one number.
LEMMA FewestExist ==
    ASSUME NEW a, NEW b, NEW x \in Nat, NEW y \in Nat
    PROVE  \E m \in Nat : Fewest(a, b, x, y, m) /\ \A e : Fewest(a, b, x, y, e) => e = m
<1> DEFINE costs == { EditsBy(a, b, x, y, t) : t \in Within(x, y) }
<1>1. costs \subseteq Nat
  BY CostIsNatural
<1>2. {} \in Within(x, y)
  BY DEF Within
<1>3. PICK m \in costs : \A e \in costs : m <= e
  <2>1. costs # {}
    BY <1>2
  <2> HIDE DEF costs
  <2>2. QED
    BY <1>1, <2>1, LeastNatural
<1>4. m \in Nat /\ Fewest(a, b, x, y, m)
  BY <1>1, <1>3 DEF Fewest
<1>5. ASSUME NEW e, Fewest(a, b, x, y, e)
      PROVE  e = m
  <2>1. e \in costs
    BY <1>5 DEF Fewest
  <2>2. e <= m /\ m <= e /\ e \in Nat
    BY <1>1, <1>3, <1>5, <2>1 DEF Fewest
  <2>3. QED
    BY <1>4, <2>2
<1>6. QED
  BY <1>4, <1>5

\* A trace between shorter words is one between longer ones, that leaves out one more.
LEMMA TraceWidens ==
    ASSUME NEW a, NEW b, NEW x \in Nat, NEW y \in Nat, NEW t \in Within(x, y)
    PROVE  /\ t \in Within(x + 1, y) /\ t \in Within(x, y + 1)
           /\ EditsBy(a, b, x + 1, y, t) = EditsBy(a, b, x, y, t) + 1
           /\ EditsBy(a, b, x, y + 1, t) = EditsBy(a, b, x, y, t) + 1
<1>1. t \in Within(x + 1, y) /\ t \in Within(x, y + 1)
  BY DEF Within
<1>2. Cardinality(t) \in Nat /\ Cardinality(Substituted(a, b, t)) \in Nat
  BY TraceIsFinite, CostIsNatural
<1>3. QED
  BY <1>1, <1>2 DEF EditsBy

\* A trace may also link the next two characters.
LEMMA TraceLinks ==
    ASSUME NEW a, NEW b, NEW x \in Nat, NEW y \in Nat, NEW t \in Within(x, y),
           NEW last, last = <<x + 1, y + 1>>,
           NEW c, c = IF a[x + 1] = b[y + 1] THEN 0 ELSE 1
    PROVE  /\ t \cup {last} \in Within(x + 1, y + 1)
           /\ EditsBy(a, b, x + 1, y + 1, t \cup {last}) = EditsBy(a, b, x, y, t) + c
<1> DEFINE u == t \cup {last}
<1>1. \A p \in t : p = <<p[1], p[2]>> /\ p[1] \in 1..x /\ p[2] \in 1..y
  BY DEF Within
<1>2. last \notin t
  BY <1>1
<1>3. u \in Within(x + 1, y + 1)
  <2>1. \A p \in u : p \in (1..(x + 1)) \X (1..(y + 1))
    BY <1>1
  <2>2. ASSUME NEW p \in u, NEW q \in u
        PROVE  (p[1] < q[1]) <=> (p[2] < q[2])
    BY <1>1 DEF Within
  <2>3. QED
    BY <2>1, <2>2 DEF Within
<1>4. Cardinality(u) = Cardinality(t) + 1
  BY <1>2, TraceIsFinite, FS_AddElement
<1>5. Substituted(a, b, u) = IF a[x + 1] = b[y + 1] THEN Substituted(a, b, t)
                             ELSE Substituted(a, b, t) \cup {last}
  BY DEF Substituted
<1>6. last \notin Substituted(a, b, t)
  BY <1>2 DEF Substituted
<1>7. Cardinality(Substituted(a, b, u))
        = Cardinality(Substituted(a, b, t)) + c
  <2> HIDE DEF u
  <2>1. /\ IsFiniteSet(Substituted(a, b, t))
        /\ Cardinality(Substituted(a, b, t)) \in Nat
    BY CostIsNatural
  <2>2. Cardinality(Substituted(a, b, t) \cup {last}) = Cardinality(Substituted(a, b, t)) + 1
    BY <1>6, <2>1, FS_AddElement
  <2>3. QED
    BY <1>5, <2>1, <2>2
<1>8. EditsBy(a, b, x + 1, y + 1, u)
        = EditsBy(a, b, x, y, t) + c
  <2> HIDE DEF u
  <2>1. /\ Cardinality(t) \in Nat
        /\ Cardinality(Substituted(a, b, t)) \in Nat
    BY TraceIsFinite, CostIsNatural
  <2>2. QED
    BY <1>4, <1>7, <2>1 DEF EditsBy
<1>9. QED
  BY <1>3, <1>8

\* A trace links the last two characters, or leaves out one of them: two lines that
\* end in one each would cross.
LEMMA TraceNarrows ==
    ASSUME NEW x \in Nat, NEW y \in Nat, NEW t \in Within(x + 1, y + 1)
    PROVE  \/ t \in Within(x, y + 1)
           \/ t \in Within(x + 1, y)
           \/ <<x + 1, y + 1>> \in t /\ t \ {<<x + 1, y + 1>>} \in Within(x, y)
<1>1. /\ \A p \in t : p = <<p[1], p[2]>> /\ p[1] \in 1..(x + 1) /\ p[2] \in 1..(y + 1)
      /\ \A p, q \in t : (p[1] < q[1]) <=> (p[2] < q[2])
  BY DEF Within
<1>2. CASE <<x + 1, y + 1>> \in t
  <2> DEFINE last == <<x + 1, y + 1>>
  <2>1. \A p \in t : p[1] = x + 1 <=> p[2] = y + 1
    BY <1>1, <1>2
  <2>2. \A p \in t \ {last} : p[1] \in 1..x /\ p[2] \in 1..y
    BY <1>1, <2>1
  <2>3. t \ {last} \subseteq (1..x) \X (1..y)
    BY <1>1, <2>2
  <2>4. QED
    BY <1>1, <1>2, <2>3 DEF Within
<1>3. CASE <<x + 1, y + 1>> \notin t
  <2>1. CASE \A p \in t : p[1] # x + 1
    <3>1. t \subseteq (1..x) \X (1..(y + 1))
      BY <1>1, <2>1
    <3>2. QED
      BY <1>1, <3>1 DEF Within
  <2>2. CASE \E p \in t : p[1] = x + 1
    <3>1. PICK p \in t : p[1] = x + 1
      BY <2>2
    <3>2. p[2] \in 1..y
      BY <1>1, <1>3, <3>1
    <3>3. \A q \in t : q[2] # y + 1
      BY <1>1, <3>1, <3>2
    <3>4. t \subseteq (1..(x + 1)) \X (1..y)
      BY <1>1, <3>3
    <3>5. QED
      BY <1>1, <3>4 DEF Within
  <2>3. QED
    BY <2>1, <2>2
<1>4. QED
  BY <1>2, <1>3

\* One character more in each word: the last two are linked, or one of them is left out.
LEMMA FewestOfCell ==
    ASSUME NEW a, NEW b, NEW x \in Nat, NEW y \in Nat,
           NEW del \in Nat, Fewest(a, b, x, y + 1, del),
           NEW ins \in Nat, Fewest(a, b, x + 1, y, ins),
           NEW sub \in Nat, Fewest(a, b, x, y, sub)
    PROVE  Fewest(a, b, x + 1, y + 1,
             Least({del + 1, ins + 1, sub + (IF a[x + 1] = b[y + 1] THEN 0 ELSE 1)}))
<1> DEFINE c == IF a[x + 1] = b[y + 1] THEN 0 ELSE 1
           S == {del + 1, ins + 1, sub + c}
           last == <<x + 1, y + 1>>
           edits(t) == EditsBy(a, b, x + 1, y + 1, t)
<1>1. Least(S) \in S /\ \A e \in S : Least(S) <= e
  <2>1. \E m \in S : \A e \in S : m <= e
    OBVIOUS
  <2> HIDE DEF S
  <2>2. QED
    BY <2>1 DEF Least
<1>0. x + 1 \in Nat /\ y + 1 \in Nat
  OBVIOUS
<1>a. ASSUME NEW t \in Within(x, y + 1)
      PROVE  /\ EditsBy(a, b, x, y + 1, t) \in Nat
             /\ t \in Within(x + 1, y + 1) /\ edits(t) = EditsBy(a, b, x, y + 1, t) + 1
  <2>1. EditsBy(a, b, x, y + 1, t) \in Nat
    BY <1>0, CostIsNatural
  <2>2. QED
    BY <1>0, <2>1, TraceWidens
<1>b. ASSUME NEW t \in Within(x + 1, y)
      PROVE  /\ EditsBy(a, b, x + 1, y, t) \in Nat
             /\ t \in Within(x + 1, y + 1) /\ edits(t) = EditsBy(a, b, x + 1, y, t) + 1
  <2>1. EditsBy(a, b, x + 1, y, t) \in Nat
    BY <1>0, CostIsNatural
  <2>2. QED
    BY <1>0, <2>1, TraceWidens
<1>c. ASSUME NEW t \in Within(x, y)
      PROVE  /\ EditsBy(a, b, x, y, t) \in Nat
             /\ t \cup {last} \in Within(x + 1, y + 1)
             /\ edits(t \cup {last}) = EditsBy(a, b, x, y, t) + c
  <2>1. EditsBy(a, b, x, y, t) \in Nat
    BY CostIsNatural
  <2>2. /\ t \cup {last} \in Within(x + 1, y + 1)
        /\ EditsBy(a, b, x + 1, y + 1, t \cup {last}) = EditsBy(a, b, x, y, t) + c
    <3>1. last = <<x + 1, y + 1>> /\ c = IF a[x + 1] = b[y + 1] THEN 0 ELSE 1
      OBVIOUS
    <3> HIDE DEF last, c
    <3>2. QED
      BY <3>1, TraceLinks
  <2>3. QED
    BY <2>1, <2>2
<1>2. \A e \in S : \E t \in Within(x + 1, y + 1) : edits(t) = e
  <2>1. PICK t \in Within(x, y + 1) : EditsBy(a, b, x, y + 1, t) = del
    BY DEF Fewest
  <2>2. t \in Within(x + 1, y + 1) /\ edits(t) = del + 1
    BY <2>1, <1>a
  <2>3. PICK u \in Within(x + 1, y) : EditsBy(a, b, x + 1, y, u) = ins
    BY DEF Fewest
  <2>4. u \in Within(x + 1, y + 1) /\ edits(u) = ins + 1
    BY <2>3, <1>b
  <2>5. PICK v \in Within(x, y) : EditsBy(a, b, x, y, v) = sub
    BY DEF Fewest
  <2>6. v \cup {last} \in Within(x + 1, y + 1) /\ edits(v \cup {last}) = sub + c
    BY <2>5, <1>c
  <2>7. QED
    BY <2>2, <2>4, <2>6
<1>3. ASSUME NEW t \in Within(x + 1, y + 1)
      PROVE  Least(S) <= edits(t)
  <2>1. edits(t) \in Nat /\ S \subseteq Nat
    BY <1>0, CostIsNatural
  <2>2. CASE t \in Within(x, y + 1)
    <3>1. edits(t) = EditsBy(a, b, x, y + 1, t) + 1 /\ EditsBy(a, b, x, y + 1, t) \in Nat
      BY <2>2, <1>a
    <3>2. del + 1 <= edits(t)
      BY <2>2, <3>1 DEF Fewest
    <3>3. QED
      BY <1>1, <2>1, <3>2
  <2>3. CASE t \in Within(x + 1, y)
    <3>1. edits(t) = EditsBy(a, b, x + 1, y, t) + 1 /\ EditsBy(a, b, x + 1, y, t) \in Nat
      BY <2>3, <1>b
    <3>2. ins + 1 <= edits(t)
      BY <2>3, <3>1 DEF Fewest
    <3>3. QED
      BY <1>1, <2>1, <3>2
  <2>4. CASE last \in t /\ t \ {last} \in Within(x, y)
    <3>1. (t \ {last}) \cup {last} = t
      BY <2>4
    <3>2. /\ edits(t) = EditsBy(a, b, x, y, t \ {last}) + c
          /\ EditsBy(a, b, x, y, t \ {last}) \in Nat
      BY <2>4, <3>1, <1>c
    <3>3. sub + c <= edits(t)
      BY <2>4, <3>2 DEF Fewest
    <3>4. QED
      BY <1>1, <2>1, <3>3
  <2>5. QED
    BY <2>2, <2>3, <2>4, TraceNarrows
<1>4. QED
  <2> HIDE DEF S, edits
  <2>1. QED
    BY <1>1, <1>2, <1>3 DEF Fewest, S, edits

\* Between a word and the empty word there is one trace.
LEMMA FewestOfEdge ==
    ASSUME NEW a, NEW b, NEW x \in Nat
    PROVE  Fewest(a, b, x, 0, x) /\ Fewest(a, b, 0, x, x)
<1>1. Within(x, 0) = {{}} /\ Within(0, x) = {{}}
  BY DEF Within
<1>2. Substituted(a, b, {}) = {} /\ Cardinality({}) = 0
  BY FS_EmptySet DEF Substituted
<1>3. EditsBy(a, b, x, 0, {}) = x /\ EditsBy(a, b, 0, x, {}) = x
  BY <1>2 DEF EditsBy
<1>4. x \in Nat /\ x <= x
  OBVIOUS
<1>5. Fewest(a, b, x, 0, x)
  BY <1>1, <1>3, <1>4 DEF Fewest
<1>6. QED
  BY <1>1, <1>3, <1>4, <1>5 DEF Fewest

--------------------------------------------------------------------------------
\* The words of the abstract specification, measured whole.
LEMMA DistanceIsFewest ==
    ASSUME NEW a \in Words, NEW b \in Words
    PROVE  /\ Abstract!Distance[<<a, b>>] \in Nat
           /\ Fewest(a, b, Len(a), Len(b), Abstract!Distance[<<a, b>>])
<1> DEFINE costs == { Abstract!Cost(a, b, t) : t \in Abstract!Traces(a, b) }
<1>1. /\ Len(a) \in Nat /\ DOMAIN a = 1..Len(a)
      /\ Len(b) \in Nat /\ DOMAIN b = 1..Len(b)
  BY InputsAssumption, LenProperties
<1>2. Abstract!Traces(a, b) = Within(Len(a), Len(b))
  BY <1>1 DEF Abstract!Traces, Within
<1>3. ASSUME NEW t
      PROVE  Abstract!Cost(a, b, t) = EditsBy(a, b, Len(a), Len(b), t)
  <2>1. \A s : Abstract!Cardinality(s) = Cardinality(s)
    BY Zenon DEF Abstract!Cardinality, Cardinality, Abstract!IsFiniteSet, IsFiniteSet
  <2>2. QED
    BY <2>1 DEF EditsBy, Abstract!Cost, Substituted
<1>4. PICK e \in Nat : Fewest(a, b, Len(a), Len(b), e)
  BY <1>1, FewestExist
<1>5. e \in costs /\ \A c \in costs : e <= c
  BY <1>2, <1>3, <1>4 DEF Fewest
<1>6. costs \subseteq Nat
  BY <1>1, <1>2, <1>3, CostIsNatural
<1>7. \A w \in Words \X Words :
        Abstract!Distance[w] =
          LET all == { Abstract!Cost(w[1], w[2], t) : t \in Abstract!Traces(w[1], w[2]) }
          IN  CHOOSE c \in all : \A f \in all : c <= f
  BY DEF Abstract!Distance
<1>8. Abstract!Distance[<<a, b>>] \in costs /\ \A c \in costs : Abstract!Distance[<<a, b>>] <= c
  <2> DEFINE w == <<a, b>>
  <2>1. w \in Words \X Words /\ w[1] = a /\ w[2] = b
    OBVIOUS
  <2>2. costs = { Abstract!Cost(w[1], w[2], t) : t \in Abstract!Traces(w[1], w[2]) }
    BY <2>1
  <2> HIDE DEF w, costs
  <2>3. Abstract!Distance[w] = CHOOSE c \in costs : \A f \in costs : c <= f
    BY <1>7, <2>1, <2>2
  <2>4. Abstract!Distance[w] \in costs /\ \A c \in costs : Abstract!Distance[w] <= c
    BY <1>5, <2>3
  <2>5. QED
    BY <2>4 DEF w
<1>9. Abstract!Distance[<<a, b>>] = e
  <2> HIDE DEF costs
  <2>1. Abstract!Distance[<<a, b>>] \in Nat
    BY <1>6, <1>8
  <2>2. e <= Abstract!Distance[<<a, b>>] /\ Abstract!Distance[<<a, b>>] <= e
    BY <1>5, <1>8
  <2>3. QED
    BY <2>1, <2>2
<1>10. QED
  BY <1>4, <1>9

\* Two words measured up to x and y, or their prefixes of those lengths measured whole.
LEMMA PrefixesCost ==
    ASSUME NEW a \in Words, NEW b \in Words, NEW x \in 0..Len(a), NEW y \in 0..Len(b),
           NEW t \in Within(x, y)
    PROVE  EditsBy(SubSeq(a, 1, x), SubSeq(b, 1, y), x, y, t) = EditsBy(a, b, x, y, t)
<1>1. /\ a \in Seq(DOMAIN Fold) /\ Len(a) \in Nat
      /\ b \in Seq(DOMAIN Fold) /\ Len(b) \in Nat
  BY InputsAssumption, LenProperties
<1>2. /\ \A k \in 1..x : SubSeq(a, 1, x)[k] = a[k]
      /\ \A k \in 1..y : SubSeq(b, 1, y)[k] = b[k]
  BY <1>1, SubSeqProperties
<1>3. \A p \in t : p[1] \in 1..x /\ p[2] \in 1..y
  BY DEF Within
<1>4. Substituted(SubSeq(a, 1, x), SubSeq(b, 1, y), t) = Substituted(a, b, t)
  BY <1>2, <1>3 DEF Substituted
<1>5. QED
  BY <1>4 DEF EditsBy

\* The fewest edits between the characters behind is the distance of the prefixes.
LEMMA DistanceOfPrefixes ==
    ASSUME NEW a \in Words, NEW b \in Words, NEW x \in 0..Len(a), NEW y \in 0..Len(b),
           NEW e, Fewest(a, b, x, y, e)
    PROVE  Abstract!Distance[<<SubSeq(a, 1, x), SubSeq(b, 1, y)>>] = e
<1> DEFINE p == SubSeq(a, 1, x)
           q == SubSeq(b, 1, y)
<1>1. /\ a \in Seq(DOMAIN Fold) /\ Len(a) \in Nat
      /\ b \in Seq(DOMAIN Fold) /\ Len(b) \in Nat
      /\ x \in Nat /\ y \in Nat
  BY InputsAssumption, LenProperties
<1>2. p \in Words /\ q \in Words
  BY InputsAssumption
<1>3. Len(p) = x /\ Len(q) = y
  BY <1>1, SubSeqProperties
<1>4. \A t \in Within(x, y) : EditsBy(p, q, x, y, t) = EditsBy(a, b, x, y, t)
  BY PrefixesCost
<1> HIDE DEF p, q
<1>5. Fewest(p, q, x, y, e)
  BY <1>4 DEF Fewest
<1>6. Fewest(p, q, x, y, Abstract!Distance[<<p, q>>])
  BY <1>2, <1>3, DistanceIsFewest
<1>7. Abstract!Distance[<<p, q>>] = e
  BY <1>1, <1>5, <1>6, FewestExist
<1>8. QED
  BY <1>7 DEF p, q

--------------------------------------------------------------------------------
\* The rows as the fewest edits between the characters behind.
RowsAreFewest ==
    at = "cells" =>
        /\ \A k \in 0..Len(brand) : Fewest(domain, brand, i, k, prev[k + 1])
        /\ i < Len(domain) => \A k \in 0..j : Fewest(domain, brand, i + 1, k, curr[k + 1])

\* A cell is the fewest edits between one character more of each.
LEMMA CellIsFewest ==
    ASSUME TypeOK, RowsAreFewest, FillCell
    PROVE  RowsAreFewest'
<1>1. /\ at = "cells" /\ n <= Len(brands) /\ i < Len(domain) /\ j < Len(brand)
      /\ prev \in Row /\ curr \in Row
      /\ curr' = [curr EXCEPT ![j + 2] = Cell] /\ j' = j + 1
      /\ UNCHANGED <<args, at, n, i, prev, d, best>>
  BY DEF TypeOK, FillCell
<1>2. Len(brand) \in Nat /\ Len(domain) \in Nat /\ i \in Nat /\ j \in Nat
  BY <1>1, WordsAre DEF TypeOK
<1>3. j + 1 \in 0..Len(brand) /\ j \in 0..Len(brand) /\ j \in 0..j /\ (j + 1) + 1 = j + 2
  BY <1>1, <1>2
<1>4. /\ Fewest(domain, brand, i, j + 1, prev[j + 2])
      /\ Fewest(domain, brand, i + 1, j, curr[j + 1])
      /\ Fewest(domain, brand, i, j, prev[j + 1])
  BY <1>1, <1>3 DEF RowsAreFewest
<1>5. prev[j + 2] \in Nat /\ curr[j + 1] \in Nat /\ prev[j + 1] \in Nat
  <2>1. j + 1 \in 1..(Len(brand) + 1) /\ j + 2 \in 1..(Len(brand) + 1)
    BY <1>1, <1>2
  <2>2. QED
    BY <1>1, <2>1 DEF Row
<1>6. Fewest(domain, brand, i + 1, j + 1, Cell)
  BY <1>2, <1>4, <1>5, FewestOfCell DEF Cell
<1>7. brand' = brand /\ domain' = domain /\ i' = i /\ prev' = prev /\ at' = at
  BY <1>1 DEF brand, args
<1>8. ASSUME NEW k \in 0..j'
      PROVE  Fewest(domain, brand, i + 1, k, curr'[k + 1])
  <2>1. curr'[j + 2] = Cell /\ \A m \in 1..(j + 1) : curr'[m] = curr[m]
    BY <1>1, <1>2, <1>3 DEF Row
  <2>2. CASE k = j + 1
    BY <1>3, <1>6, <2>1, <2>2
  <2>3. CASE k \in 0..j
    <3>1. Fewest(domain, brand, i + 1, k, curr[k + 1])
      BY <1>1, <2>3 DEF RowsAreFewest
    <3>2. k + 1 \in 1..(j + 1)
      BY <1>2, <2>3
    <3>3. QED
      BY <2>1, <3>1, <3>2
  <2>4. QED
    BY <1>1, <1>2, <2>2, <2>3
<1>9. QED
  BY <1>1, <1>7, <1>8 DEF RowsAreFewest

\* The row that is full becomes the row behind.
LEMMA SwapIsFewest ==
    ASSUME TypeOK, RowsAreFewest, SwapRows
    PROVE  RowsAreFewest'
<1>1. /\ at = "cells" /\ n <= Len(brands) /\ i < Len(domain) /\ j = Len(brand)
      /\ prev \in Row /\ curr \in Row /\ prev' = curr /\ i' = i + 1 /\ j' = 0
      /\ UNCHANGED <<args, at, n, d, best>>
  BY DEF TypeOK, SwapRows
<1>2. Len(brand) \in Nat /\ Len(domain) \in Nat /\ i \in Nat
  BY <1>1, WordsAre DEF TypeOK
<1>3. brand' = brand /\ domain' = domain
  BY <1>1 DEF brand, args
<1>4. \A k \in 0..Len(brand) : Fewest(domain, brand, i + 1, k, curr[k + 1])
  BY <1>1 DEF RowsAreFewest
<1>5. ASSUME i + 1 < Len(domain)
      PROVE  Fewest(domain, brand, (i + 1) + 1, 0, curr'[0 + 1])
  <2>1. curr' = [prev EXCEPT ![1] = i + 2] /\ 1 \in DOMAIN prev
    BY <1>1, <1>2, <1>5 DEF SwapRows, Row
  <2>2. curr'[0 + 1] = (i + 1) + 1
    BY <1>2, <2>1
  <2>3. (i + 1) + 1 \in Nat
    BY <1>2
  <2>4. QED
    BY <2>2, <2>3, FewestOfEdge
<1>6. \A k \in 0..j' : k = 0
  BY <1>1
<1>7. QED
  BY <1>1, <1>3, <1>4, <1>5, <1>6 DEF RowsAreFewest

\* The rows of a new brand.
LEMMA StartIsFewest ==
    ASSUME TypeOK, StartRows
    PROVE  RowsAreFewest'
<1>1. /\ n <= Len(brands) /\ i' = 0 /\ j' = 0 /\ UNCHANGED <<args, n, d, best>>
      /\ prev' = [k \in 1..(Len(brand) + 1) |-> k - 1]
      /\ curr' = [k \in 1..(Len(brand) + 1) |-> IF k = 1 THEN 1 ELSE 0]
  BY DEF StartRows
<1>2. Len(brand) \in Nat
  BY <1>1, WordsAre
<1>3. brand' = brand /\ domain' = domain
  BY <1>1 DEF brand, args
<1>4. ASSUME NEW k \in 0..Len(brand)
      PROVE  Fewest(domain, brand, 0, k, prev'[k + 1])
  <2>1. k \in Nat /\ prev'[k + 1] = k
    BY <1>1, <1>2
  <2>2. QED
    BY <2>1, FewestOfEdge
<1>5. Fewest(domain, brand, 0 + 1, 0, curr'[0 + 1])
  <2>1. curr'[0 + 1] = 0 + 1 /\ 0 + 1 \in Nat
    BY <1>1, <1>2
  <2>2. QED
    BY <2>1, FewestOfEdge
<1>6. \A k \in 0..j' : k = 0
  BY <1>1
<1>7. QED
  BY <1>1, <1>3, <1>4, <1>5, <1>6 DEF RowsAreFewest

\* Every step keeps the rows the fewest edits.
LEMMA FewestKept ==
    ASSUME TypeOK, RowsAreFewest, [Next]_vars
    PROVE  RowsAreFewest'
<1>1. CASE ReturnBest \/ ReturnExact \/ MeasureEmpty \/ ReadRow \/ Judge
  BY <1>1 DEF ReturnBest, ReturnExact, Return, MeasureEmpty, ReadRow, Judge, RowsAreFewest
<1>2. CASE StartRows
  BY <1>2, StartIsFewest
<1>3. CASE FillCell
  BY <1>3, CellIsFewest
<1>4. CASE SwapRows
  BY <1>4, SwapIsFewest
<1>5. CASE UNCHANGED vars
  BY <1>5 DEF vars, args, rows, brand, RowsAreFewest
<1>6. QED
  BY <1>1, <1>2, <1>3, <1>4, <1>5 DEF Next

\* So they are the distances of the prefixes.
LEMMA FewestAreDistances ==
    ASSUME TypeOK, RowsAreFewest
    PROVE  RowsAreDistances
<1> SUFFICES ASSUME at = "cells" PROVE RowsAreDistances
  BY DEF RowsAreDistances
<1>1. /\ n <= Len(brands) /\ i <= Len(domain) /\ j <= Len(brand)
      /\ domain \in Words /\ brand \in Words
      /\ Len(domain) \in Nat /\ Len(brand) \in Nat /\ i \in Nat /\ j \in Nat
  BY WordsAre DEF TypeOK
<1>2. ASSUME NEW k \in 0..Len(brand)
      PROVE  prev[k + 1] = Abstract!Distance[<<SubSeq(domain, 1, i), SubSeq(brand, 1, k)>>]
  <2>1. i \in 0..Len(domain) /\ Fewest(domain, brand, i, k, prev[k + 1])
    BY <1>1 DEF RowsAreFewest
  <2>2. QED
    BY <1>1, <2>1, DistanceOfPrefixes
<1>3. ASSUME i < Len(domain), NEW k \in 0..j
      PROVE  curr[k + 1] = Abstract!Distance[<<SubSeq(domain, 1, i + 1), SubSeq(brand, 1, k)>>]
  <2>1. i + 1 \in 0..Len(domain) /\ k \in 0..Len(brand)
    BY <1>1, <1>3
  <2>2. Fewest(domain, brand, i + 1, k, curr[k + 1])
    BY <1>3 DEF RowsAreFewest
  <2>3. QED
    BY <1>1, <2>1, <2>2, DistanceOfPrefixes
<1>4. QED
  BY <1>2, <1>3 DEF RowsAreDistances

\* At every cell, for words of any length, the row behind holds the distance of the
\* prefix of the domain from every prefix of the brand, and the row being filled those
\* of one character more: what is read at the end is the distance of the words.
THEOREM RowsHoldDistances == Spec => []RowsAreDistances
<1>1. Init => RowsAreFewest
  BY DEF Init, RowsAreFewest
<1>2. TypeOK /\ RowsAreFewest /\ [Next]_vars => RowsAreFewest'
  BY FewestKept
<1>3. TypeOK /\ RowsAreFewest => RowsAreDistances
  BY FewestAreDistances
<1>4. QED
  BY <1>1, <1>2, <1>3, RowsInBounds, PTL DEF Spec


--------------------------------------------------------------------------------
\* The distance of brand m.
To(m) == Abstract!Distance[<<domain, brands[m]>>]

\* Of the brands behind, the first of the nearest.
FirstNearest(m) ==
    /\ m \in Abstract!Near /\ m < n
    /\ \A k \in Abstract!Near : k < n => To(m) < To(k) \/ (To(m) = To(k) /\ m <= k)

\* What is known before the answer: no brand behind is the domain, d is measured when
\* it is judged, and best is the first of the nearest brands behind.
SoFar ==
    at # "done" =>
        /\ \A m \in DOMAIN brands : m < n => ~Abstract!IsBrand(domain, brands[m])
        /\ at \in {"cells", "judge"} => ~Abstract!IsBrand(domain, brands[n])
        /\ at = "judge" => d = To(n)
        /\ best = None => \A m \in Abstract!Near : ~(m < n)
        /\ best # None => \E m \in DOMAIN brands :
            FirstNearest(m) /\ best = [distance |-> To(m), looks_like |-> brands[m]]

\* Distances are numbers.
LEMMA ToIs ==
    ASSUME TypeOK, NEW m \in DOMAIN brands
    PROVE  /\ To(m) \in Nat /\ brands[m] \in Words
           /\ Fewest(domain, brands[m], Len(domain), Len(brands[m]), To(m))
<1>1. domain \in Words /\ brands[m] \in Words
  BY WordsAre, LenProperties, ElementOfSeq
<1>2. QED
  BY <1>1, DistanceIsFewest DEF To

\* The brands are counted from 1.
LEMMA DomainIs ==
    ASSUME TypeOK
    PROVE  DOMAIN brands = 1..Len(brands) /\ Len(brands) \in Nat /\ n \in Nat
BY WordsAre, LenProperties DEF TypeOK

\* The two ways to ask whether the domain is the brand.
LEMMA IsBrandIs == IsBrand <=> Abstract!IsBrand(domain, brands[n])
BY DEF IsBrand, Abstract!IsBrand, brand

\* An empty word is as far as the other is long.
LEMMA MeasuredEmpty ==
    ASSUME TypeOK, MeasureEmpty
    PROVE  d' = To(n)
<1>1. n \in DOMAIN brands /\ d' = Len(domain) + Len(brand) /\ (domain = <<>> \/ brand = <<>>)
      /\ Len(domain) \in Nat /\ Len(brand) \in Nat
  BY WordsAre, DomainIs DEF MeasureEmpty, TypeOK
<1>2. Fewest(domain, brand, Len(domain), Len(brand), To(n))
  BY <1>1, ToIs DEF brand
<1>3. Len(domain) = 0 \/ Len(brand) = 0
  BY <1>1, EmptySeq
<1>4. Fewest(domain, brand, Len(domain), Len(brand), d')
  BY <1>1, <1>3, FewestOfEdge
<1>5. QED
  BY <1>1, <1>2, <1>4, FewestExist

\* The last cell of the last row is the distance of the words.
LEMMA MeasuredRow ==
    ASSUME TypeOK, RowsAreFewest, ReadRow
    PROVE  d' = To(n)
<1>1. n \in DOMAIN brands /\ d' = prev[Len(brand) + 1] /\ i = Len(domain) /\ at = "cells"
      /\ Len(domain) \in Nat /\ Len(brand) \in Nat
  BY WordsAre, DomainIs DEF ReadRow, TypeOK
<1>2. Fewest(domain, brand, Len(domain), Len(brand), To(n))
  BY <1>1, ToIs DEF brand
<1>3. Fewest(domain, brand, Len(domain), Len(brand), d')
  BY <1>1 DEF RowsAreFewest
<1>4. QED
  BY <1>1, <1>2, <1>3, FewestExist

\* One brand more, judged.
LEMMA JudgeKeeps ==
    ASSUME TypeOK, SoFar, Judge
    PROVE  SoFar'
<1> DEFINE squat(m) == [distance |-> To(m), looks_like |-> brands[m]]
<1>1. /\ at = "judge" /\ n \in DOMAIN brands /\ n' = n + 1 /\ at' = "brand"
      /\ domain' = domain /\ brands' = brands /\ n \in Nat
  BY DomainIs DEF Judge, args, TypeOK
<1>2. d = To(n) /\ ~Abstract!IsBrand(domain, brands[n])
  BY <1>1 DEF SoFar
<1>3. Abstract!Near' = Abstract!Near /\ \A m : To(m)' = To(m)
  BY <1>1 DEF Abstract!Near, To
<1>4. /\ Abstract!Near \subseteq DOMAIN brands
      /\ \A m \in DOMAIN brands : m \in Abstract!Near <=> To(m) \in 1..MaxDistance
  BY DEF Abstract!Near, To
<1>5. \A m \in DOMAIN brands : m \in Nat /\ To(m) \in Nat /\ (m < n + 1 <=> m < n \/ m = n)
  BY <1>1, DomainIs, ToIs
<1>6. \A m \in DOMAIN brands : m < n' => ~Abstract!IsBrand(domain, brands[m])
  BY <1>1, <1>2, <1>5 DEF SoFar
<1>0. PICK here \in DOMAIN brands : here = n
  BY <1>1
<1>7. CASE n \in Abstract!Near /\ best = None
  <2>1. best' = squat(here)
    BY <1>0, <1>1, <1>2, <1>4, <1>7 DEF Judge, brand
  <2>2. squat(here) \in [distance : 1..MaxDistance, looks_like : Words]
    BY <1>0, <1>1, <1>4, <1>7, ToIs
  <2>3. best' # None
    BY <2>1, <2>2, InputsAssumption
  <2>4. FirstNearest(here)'
    BY <1>0, <1>1, <1>3, <1>4, <1>5, <1>7 DEF FirstNearest, SoFar
  <2>5. QED
    BY <1>0, <1>1, <1>3, <1>6, <2>1, <2>3, <2>4 DEF SoFar
<1>8. CASE n \in Abstract!Near /\ best # None
  <2>1. PICK m \in DOMAIN brands : FirstNearest(m) /\ best = squat(m)
    BY <1>0, <1>1, <1>8 DEF SoFar
  <2>2. best.distance = To(m)
    BY <2>1
  <2>3. CASE To(n) < To(m)
    <3>1. best' = squat(here)
      BY <1>0, <1>1, <1>2, <1>4, <1>8, <2>2, <2>3 DEF Judge, brand
    <3>2. squat(here) \in [distance : 1..MaxDistance, looks_like : Words]
      BY <1>0, <1>1, <1>4, <1>8, ToIs
    <3>3. best' # None
      BY <3>1, <3>2, InputsAssumption
    <3>4. FirstNearest(here)'
      <4>1. \A k \in Abstract!Near : k < n + 1 => To(here) < To(k) \/ (To(here) = To(k) /\ here <= k)
        BY <1>0, <1>1, <1>4, <1>5, <2>1, <2>3 DEF FirstNearest
      <4>2. QED
        BY <1>0, <1>1, <1>3, <1>5, <1>8, <4>1 DEF FirstNearest
    <3>5. QED
      BY <1>0, <1>1, <1>3, <1>6, <3>1, <3>3, <3>4 DEF SoFar
  <2>4. CASE ~(To(n) < To(m))
    <3>1. best' = best
      BY <1>0, <1>1, <1>2, <1>8, <2>2, <2>4 DEF Judge
    <3>2. FirstNearest(m)'
      <4>1. \A k \in Abstract!Near : k < n + 1 => To(m) < To(k) \/ (To(m) = To(k) /\ m <= k)
        BY <1>0, <1>1, <1>4, <1>5, <2>1, <2>4 DEF FirstNearest
      <4>2. QED
        BY <1>0, <1>1, <1>3, <1>5, <2>1, <4>1 DEF FirstNearest
    <3>3. QED
      BY <1>0, <1>1, <1>3, <1>6, <1>8, <2>1, <3>1, <3>2 DEF SoFar
  <2>5. QED
    BY <2>3, <2>4
<1>9. CASE n \notin Abstract!Near
  <2>1. best' = best
    BY <1>1, <1>2, <1>4, <1>9 DEF Judge
  <2>2. \A k \in Abstract!Near : k < n + 1 => k < n
    BY <1>4, <1>5, <1>9
  <2>3. \A m \in DOMAIN brands : FirstNearest(m) => FirstNearest(m)'
    BY <1>1, <1>3, <1>5, <2>2 DEF FirstNearest
  <2>4. QED
    BY <1>1, <1>3, <1>6, <2>1, <2>2, <2>3 DEF SoFar
<1>10. QED
  BY <1>7, <1>8, <1>9

\* Every step before the answer keeps what is known.
LEMMA SoFarKept ==
    ASSUME TypeOK, RowsAreFewest, SoFar, [Next]_vars
    PROVE  SoFar'
<1> DEFINE Still == domain' = domain /\ brands' = brands /\ n' = n /\ best' = best
<1>1. ASSUME Still, at \in {"brand", "cells", "judge"},
             at' \in {"cells", "judge"} => ~Abstract!IsBrand(domain, brands[n]),
             at' = "judge" => d' = To(n)
      PROVE  SoFar'
  <2>1. Abstract!Near' = Abstract!Near /\ \A m : To(m)' = To(m) /\ FirstNearest(m)' = FirstNearest(m)
    BY <1>1 DEF Abstract!Near, To, FirstNearest
  <2>2. QED
    BY <1>1, <2>1 DEF SoFar
<1>2. CASE ReturnBest \/ ReturnExact
  BY <1>2 DEF ReturnBest, ReturnExact, Return, SoFar
<1>3. CASE MeasureEmpty
  BY <1>1, <1>3, MeasuredEmpty, IsBrandIs DEF MeasureEmpty, args
<1>4. CASE StartRows
  BY <1>1, <1>4, IsBrandIs DEF StartRows, args
<1>5. CASE FillCell \/ SwapRows
  BY <1>1, <1>5 DEF FillCell, SwapRows, args, SoFar
<1>6. CASE ReadRow
  BY <1>1, <1>6, MeasuredRow DEF ReadRow, args, SoFar
<1>7. CASE Judge
  BY <1>7, JudgeKeeps
<1>8. CASE UNCHANGED vars
  <2>1. Still /\ at' = at /\ d' = d
    BY <1>8 DEF vars, args
  <2>2. CASE at = "done"
    BY <2>1, <2>2 DEF SoFar
  <2>3. CASE at # "done"
    BY <1>1, <2>1, <2>3 DEF SoFar, TypeOK
  <2>4. QED
    BY <2>2, <2>3
<1>9. QED
  BY <1>2, <1>3, <1>4, <1>5, <1>6, <1>7, <1>8 DEF Next

\* The promise names the brand that was kept.
LEMMA SquatIs ==
    ASSUME TypeOK, n = Len(brands) + 1,
           NEW m \in DOMAIN brands, FirstNearest(m)
    PROVE  /\ m \in Abstract!Near
           /\ Abstract!Squat = [distance |-> To(m), looks_like |-> brands[m]]
<1>1. \A k \in Abstract!Near : k \in DOMAIN brands /\ k \in Nat /\ k < n /\ To(k) \in Nat
  <2>1. \A k \in Abstract!Near : k \in DOMAIN brands
    BY DEF Abstract!Near
  <2>2. QED
    BY <2>1, DomainIs, ToIs
<1>2. m \in Abstract!Near
  BY DEF FirstNearest
<1>3. \A k : Abstract!Nearest(k) <=>
        /\ k \in Abstract!Near
        /\ \A l \in Abstract!Near : To(k) < To(l) \/ (To(k) = To(l) /\ k <= l)
  BY DEF Abstract!Nearest, To
<1>4. Abstract!Nearest(m)
  BY <1>1, <1>3 DEF FirstNearest
<1>5. ASSUME NEW k \in Abstract!Near, Abstract!Nearest(k)
      PROVE  k = m
  <2>1. To(k) < To(m) \/ (To(k) = To(m) /\ k <= m)
    BY <1>2, <1>3, <1>5
  <2>2. To(m) < To(k) \/ (To(m) = To(k) /\ m <= k)
    BY <1>3, <1>4, <1>5
  <2>3. QED
    BY <1>1, <1>2, <2>1, <2>2
<1>6. (CHOOSE k \in Abstract!Near : Abstract!Nearest(k)) = m
  BY <1>2, <1>4, <1>5
<1>7. QED
  BY <1>2, <1>6 DEF Abstract!Squat, To

\* After the last brand the best so far is the answer.
LEMMA BestIsAnswer ==
    ASSUME TypeOK, SoFar, ReturnBest
    PROVE  Abstract!Check
<1>1. /\ at = "brand" /\ n > Len(brands) /\ at' = "done" /\ best' = best
      /\ UNCHANGED <<domain, brands>>
  BY DEF ReturnBest, Return, args
<1>2. n = Len(brands) + 1 /\ \A m \in DOMAIN brands : m < n
  BY <1>1, DomainIs DEF TypeOK
<1>3. ~\E m \in DOMAIN brands : Abstract!IsBrand(domain, brands[m])
  BY <1>1, <1>2 DEF SoFar
<1>4. CASE best = None
  <2>1. Abstract!Near = {}
    BY <1>1, <1>2, <1>4 DEF SoFar, Abstract!Near
  <2>2. QED
    BY <1>1, <1>4, <2>1 DEF Abstract!Check
<1>5. CASE best # None
  <2>1. PICK m \in DOMAIN brands :
            FirstNearest(m) /\ best = [distance |-> To(m), looks_like |-> brands[m]]
    BY <1>1, <1>5 DEF SoFar
  <2>2. Abstract!Near # {} /\ Abstract!Squat = best
    BY <1>2, <2>1, SquatIs
  <2>3. QED
    BY <1>1, <1>3, <2>2 DEF Abstract!Check
<1>6. QED
  BY <1>4, <1>5

\* A brand that is the domain makes the answer None, whatever was near before it.
LEMMA ExactIsAnswer ==
    ASSUME TypeOK, ReturnExact
    PROVE  Abstract!Check
<1>1. /\ at = "brand" /\ n <= Len(brands) /\ at' = "done" /\ best' = None
      /\ UNCHANGED <<domain, brands>> /\ Abstract!IsBrand(domain, brands[n])
  BY IsBrandIs DEF ReturnExact, Return, args
<1>2. n \in DOMAIN brands
  BY <1>1, DomainIs DEF TypeOK
<1>3. QED
  BY <1>1, <1>2 DEF Abstract!Check

\* Whatever the domain and the list, the rows, the early return and the running best
\* carry out the promise of NearestBrand: a domain that is a brand draws no warning,
\* and any other draws the first of the brands at the fewest edits, within the threshold.
THEOREM ReportsNearestBrand == Spec => FindsNearest
<1> DEFINE answer == IF at = "done" THEN best ELSE Pending
<1>1. Init => Abstract!Init
  BY DEF Init, Abstract!Init
<1>2. Init => RowsAreFewest /\ SoFar
  <2> SUFFICES ASSUME Init PROVE RowsAreFewest /\ SoFar
    OBVIOUS
  <2>1. TypeOK
    BY TypesStart
  <2>2. \A m \in DOMAIN brands : ~(m < n)
    BY <2>1, DomainIs DEF Init
  <2>3. Abstract!Near \subseteq DOMAIN brands
    BY DEF Abstract!Near
  <2>4. QED
    BY <2>2, <2>3 DEF Init, RowsAreFewest, SoFar
<1>3. TypeOK /\ RowsAreFewest /\ SoFar /\ [Next]_vars => (RowsAreFewest /\ SoFar)'
  BY FewestKept, SoFarKept
<1>4. TypeOK /\ SoFar /\ [Next]_vars
        => [Abstract!Check]_<<domain, brands, answer>>
  <2> SUFFICES ASSUME TypeOK, SoFar, [Next]_vars
               PROVE  Abstract!Check \/ UNCHANGED <<domain, brands, answer>>
    OBVIOUS
  <2>1. CASE ReturnBest
    BY <2>1, BestIsAnswer
  <2>2. CASE ReturnExact
    BY <2>2, ExactIsAnswer
  <2>3. CASE \/ MeasureEmpty \/ StartRows \/ FillCell \/ SwapRows
             \/ ReadRow \/ Judge \/ UNCHANGED vars
    BY <2>3 DEF MeasureEmpty, StartRows, FillCell, SwapRows, ReadRow, Judge, vars, args
  <2>4. QED
    BY <2>1, <2>2, <2>3 DEF Next
<1>5. QED
  BY <1>1, <1>2, <1>3, <1>4, RowsInBounds, PTL DEF Spec, FindsNearest, Abstract!Spec

================================================================================
