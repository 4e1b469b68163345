----------------------------- MODULE MCReassembly ------------------------------
(***************************************************************************)
(* Reassembly over every wire of three records whose payloads have the     *)
(* lengths in Lengths.                                                     *)
(***************************************************************************)
EXTENDS Reassembly

CONSTANT Lengths

MCCuts ==
    { [i \in 0..3 |-> CASE i = 0 -> 0 [] i = 1 -> a [] i = 2 -> a + b [] i = 3 -> a + b + c] :
        a, b, c \in Lengths }

================================================================================
