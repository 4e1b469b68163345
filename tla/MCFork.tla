---------------------------------- MODULE MCFork -------------------------------
(***************************************************************************)
(* An allow-cache of one host and a dictionary of two brands, near each    *)
(* other, of which one is cached.  "GitHub" is the cached host in other    *)
(* letters, "githob" is near both brands and nearer to the first, "githab" *)
(* as near to either, "example" near none; "gitlab" is a brand that is     *)
(* near the other one.  Distances are the real ones.  A block has any two  *)
(* extensions, or up to four that name one host and whose bodies are read. *)
(***************************************************************************)
EXTENDS Fork

CONSTANTS MaxExts, MaxPlainExts, github, GitHub, githob, githab, gitlab, example

MCHosts == {github, GitHub, githob, githab, gitlab, example}
MCFoldCase == [h \in MCHosts |-> IF h = GitHub THEN github ELSE h]
MCCache == {github}
MCBrands == <<github, gitlab>>
MCDistance ==
    [h \in MCHosts |->
        CASE h = github -> <<0, 2>>
          [] h = GitHub -> <<2, 3>>
          [] h = githob -> <<1, 2>>
          [] h = githab -> <<1, 1>>
          [] h = gitlab -> <<2, 0>>
          [] h = example -> <<7, 7>>]

PlainExtension == { e \in Extension : e.body \in {github, "skip", "ok"} }
MCBlocks ==
    UNION { [1..n -> Extension] : n \in 0..MaxExts }
        \cup UNION { [1..n -> PlainExtension] : n \in 0..MaxPlainExts }

================================================================================
