------------------------------ MODULE MCTyposquat -----------------------------
(***************************************************************************)
(* Typosquat over domains of at most MaxWord characters and every list of  *)
(* at most two brands, in two letters of which one has an upper case.      *)
(***************************************************************************)
EXTENDS Typosquat

CONSTANTS MaxWord, a, A, b

MCWords == UNION { [1..k -> {a, A, b}] : k \in 0..MaxWord }

MCFold == [c \in {a, A, b} |-> IF c = A THEN a ELSE c]

MCBrands == {<<>>, <<a>>, <<a, b>>, <<b, a, b>>, <<a, a, b>>}

MCInputs ==
    [domain : MCWords, brands : UNION { [1..k -> MCBrands] : k \in 0..2 }]

================================================================================
