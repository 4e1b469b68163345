------------------------------ MODULE Typosquat -------------------------------
(***************************************************************************)
(* check_typosquat and distance of                                         *)
(* crates/aegiuw-core/src/heuristics/levenshtein.rs: the brands one after  *)
(* the other, and for each the two rows that roll over the domain, a cell  *)
(* at a time.                                                              *)
(***************************************************************************)
EXTENDS Integers, Sequences

CONSTANTS Words, Fold, Inputs, MaxDistance, None, Pending

ASSUME InputsAssumption ==
    /\ Inputs \subseteq [domain : Words, brands : Seq(Words)]
    /\ \A w \in Words : w \in Seq(DOMAIN Fold)
    /\ \A w \in Words : \A k \in 0..Len(w) : SubSeq(w, 1, k) \in Words
    /\ MaxDistance \in Nat
    /\ None \notin [distance : 1..MaxDistance, looks_like : Words]

VARIABLES
    domain, brands,  \* the arguments
    at,              \* "brand", "cells", "judge", "done"
    n,               \* the brand compared with
    i, j,            \* characters of the domain and of the brand behind
    prev, curr,      \* the rows, prev[k + 1] for the index k of the code
    d,               \* what distance returned
    best             \* the closest brand so far

args == <<domain, brands>>
rows == <<i, j, prev, curr>>
vars == <<args, at, n, rows, d, best>>

brand == brands[n]

--------------------------------------------------------------------------------
Init ==
    /\ \E input \in Inputs : domain = input.domain /\ brands = input.brands
    /\ at = "brand"
    /\ n = 1
    /\ i = 0 /\ j = 0
    /\ prev = <<>> /\ curr = <<>>
    /\ d = 0
    /\ best = None

Return(result) == at' = "done" /\ best' = result /\ UNCHANGED <<args, n, rows, d>>

\* The loop is over.
ReturnBest ==
    /\ at = "brand" /\ n > Len(brands)
    /\ Return(best)

\* eq_ignore_ascii_case.
IsBrand ==
    Len(domain) = Len(brand) /\ \A k \in DOMAIN domain : Fold[domain[k]] = Fold[brand[k]]

\* An exact, legitimate match, whatever was near before it.
ReturnExact ==
    /\ at = "brand" /\ n <= Len(brands)
    /\ IsBrand
    /\ Return(None)

\* distance of an empty string.
MeasureEmpty ==
    /\ at = "brand" /\ n <= Len(brands)
    /\ ~IsBrand
    /\ domain = <<>> \/ brand = <<>>
    /\ d' = Len(domain) + Len(brand)
    /\ at' = "judge"
    /\ UNCHANGED <<args, n, rows, best>>

\* The row of the empty prefix, and the first cell of the next.
StartRows ==
    /\ at = "brand" /\ n <= Len(brands)
    /\ ~IsBrand
    /\ domain # <<>> /\ brand # <<>>
    /\ prev' = [k \in 1..(Len(brand) + 1) |-> k - 1]
    /\ curr' = [k \in 1..(Len(brand) + 1) |-> IF k = 1 THEN 1 ELSE 0]
    /\ i' = 0 /\ j' = 0
    /\ at' = "cells"
    /\ UNCHANGED <<args, n, d, best>>

Least(S) == CHOOSE c \in S : \A e \in S : c <= e

\* Mutant: a substitution is a deletion and an insertion.
CellWithoutSubstitution ==
    IF domain[i + 1] = brand[j + 1] THEN prev[j + 1]
    ELSE Least({prev[j + 2] + 1, curr[j + 1] + 1})

\* Deletion, insertion, substitution.
Cell ==
    Least({prev[j + 2] + 1,
           curr[j + 1] + 1,
           prev[j + 1] + (IF domain[i + 1] = brand[j + 1] THEN 0 ELSE 1)})

FillCell ==
    /\ at = "cells" /\ i < Len(domain) /\ j < Len(brand)
    /\ curr' = [curr EXCEPT ![j + 2] = Cell]
    /\ j' = j + 1
    /\ UNCHANGED <<args, at, n, i, prev, d, best>>

\* The rows are swapped; the next one, if any, starts at its index.
SwapRows ==
    /\ at = "cells" /\ i < Len(domain) /\ j = Len(brand)
    /\ prev' = curr
    /\ curr' = IF i + 1 < Len(domain) THEN [prev EXCEPT ![1] = i + 2] ELSE prev
    /\ i' = i + 1
    /\ j' = 0
    /\ UNCHANGED <<args, at, n, d, best>>

ReadRow ==
    /\ at = "cells" /\ i = Len(domain)
    /\ d' = prev[Len(brand) + 1]
    /\ at' = "judge"
    /\ UNCHANGED <<args, n, rows, best>>

\* Mutant: of two brands as near, the later.
JudgeLater ==
    /\ at = "judge"
    /\ best' = IF d \in 1..MaxDistance THEN [distance |-> d, looks_like |-> brand] ELSE best
    /\ n' = n + 1
    /\ at' = "brand"
    /\ UNCHANGED <<args, rows, d>>

\* Within the threshold, and strictly nearer than the best so far.
Judge ==
    /\ at = "judge"
    /\ best' = IF d \in 1..MaxDistance /\ (best = None \/ d < best.distance)
               THEN [distance |-> d, looks_like |-> brand] ELSE best
    /\ n' = n + 1
    /\ at' = "brand"
    /\ UNCHANGED <<args, rows, d>>

Next ==
    \/ ReturnBest \/ ReturnExact
    \/ MeasureEmpty \/ StartRows \/ FillCell \/ SwapRows \/ ReadRow
    \/ Judge

Spec == Init /\ [][Next]_vars

--------------------------------------------------------------------------------
Abstract == INSTANCE NearestBrand WITH answer <- IF at = "done" THEN best ELSE Pending

\* The rows, the early return and the running best carry out the promise: the
\* first of the closest brands by the fewest edits, and no brand for a brand.
FindsNearest == Abstract!Spec

Row == [1..(Len(brand) + 1) -> Nat]

TypeOK ==
    /\ [domain |-> domain, brands |-> brands] \in Inputs
    /\ at \in {"brand", "cells", "judge", "done"}
    /\ n \in 1..(Len(brands) + 1)
    /\ at \in {"cells", "judge"} => n <= Len(brands)
    /\ i \in Nat /\ j \in Nat /\ d \in Nat
    /\ at = "cells" =>
        /\ i <= Len(domain) /\ j <= Len(brand)
        /\ i = Len(domain) => j = 0
        /\ prev \in Row /\ curr \in Row
    /\ best # None => best.distance \in 1..MaxDistance /\ best.looks_like \in Words

\* While the rows roll, prev holds the fewest edits between the characters of the
\* domain behind and every prefix of the brand, and curr, as far as it is filled,
\* those of one character more.
RowsAreDistances ==
    at = "cells" =>
        /\ \A k \in 0..Len(brand) :
            prev[k + 1] = Abstract!Distance[<<SubSeq(domain, 1, i), SubSeq(brand, 1, k)>>]
        /\ i < Len(domain) => \A k \in 0..j :
            curr[k + 1] = Abstract!Distance[<<SubSeq(domain, 1, i + 1), SubSeq(brand, 1, k)>>]

================================================================================
