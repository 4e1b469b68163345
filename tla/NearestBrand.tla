----------------------------- MODULE NearestBrand -----------------------------
(***************************************************************************)
(* What check_typosquat of crates/aegiuw-core/src/heuristics/levenshtein.rs *)
(* promises: the closest brand within the threshold, the first of them, or *)
(* None for a domain that is a brand or far from every brand.              *)
(***************************************************************************)
EXTENDS Integers, Sequences, FiniteSets

CONSTANTS
    Words,         \* strings, closed under prefixes
    Fold,          \* Fold[c] : the character c in lower case
    Inputs,        \* [domain, brands] records to check
    MaxDistance,   \* DEFAULT_MAX_DISTANCE
    None,          \* Rust's None
    Pending        \* no answer yet

VARIABLES domain, brands, answer

--------------------------------------------------------------------------------
\* A trace links characters of a to characters of b without crossing.
Traces(a, b) ==
    { t \in SUBSET ((DOMAIN a) \X (DOMAIN b)) :
        \A p, q \in t : (p[1] < q[1]) <=> (p[2] < q[2]) }

\* What a trace leaves out is deleted or inserted, what it links substituted.
Cost(a, b, t) ==
    Len(a) + Len(b) - 2 * Cardinality(t)
        + Cardinality({ p \in t : a[p[1]] # b[p[2]] })

\* The fewest edits of one character that make b of a.
Distance ==
    [w \in Words \X Words |->
        LET costs == { Cost(w[1], w[2], t) : t \in Traces(w[1], w[2]) }
        IN  CHOOSE c \in costs : \A d \in costs : c <= d]

--------------------------------------------------------------------------------
IsBrand(word, brand) ==
    Len(word) = Len(brand) /\ \A k \in DOMAIN word : Fold[word[k]] = Fold[brand[k]]

Near == { n \in DOMAIN brands : Distance[<<domain, brands[n]>>] \in 1..MaxDistance }

Nearest(n) ==
    /\ n \in Near
    /\ \A m \in Near :
        \/ Distance[<<domain, brands[n]>>] < Distance[<<domain, brands[m]>>]
        \/ Distance[<<domain, brands[n]>>] = Distance[<<domain, brands[m]>>] /\ n <= m

Squat ==
    [distance |-> Distance[<<domain, brands[CHOOSE n \in Near : Nearest(n)]>>],
     looks_like |-> brands[CHOOSE n \in Near : Nearest(n)]]

Init ==
    /\ \E i \in Inputs : domain = i.domain /\ brands = i.brands
    /\ answer = Pending

Check ==
    /\ answer = Pending
    /\ answer' = IF (\E n \in DOMAIN brands : IsBrand(domain, brands[n])) \/ Near = {}
                 THEN None ELSE Squat
    /\ UNCHANGED <<domain, brands>>

Spec == Init /\ [][Check]_<<domain, brands, answer>>

================================================================================
