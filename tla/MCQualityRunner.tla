---------------------------- MODULE MCQualityRunner ----------------------------
(***************************************************************************)
(* A small registry for TLC: a preflight gate and two gates of the static  *)
(* wave, which read one file.  As in the registry, the first declares what *)
(* it reads, the second is cached under a key that has no inputs in it     *)
(* (spdx-headers), the third is never cached.                              *)
(***************************************************************************)
EXTENDS QualityRunner, TLC

CONSTANTS a, b,  \* invocations
          core   \* a file

MCRuns == {a, b}
MCFiles == {core}
Symmetric == Permutations(MCRuns)

MCWaveOf == <<1, 2, 2>>
MCCacheable == {1, 2}
MCReadBy == <<{core}, {core}, {core}>>
MCDeclared == <<{core}, {}, {}>>

\* spdx-headers alone.
OneWave == <<1>>
Reads == <<{core}>>
Declares == <<{}>>

MCLimits == {1, 2}
MCLimitsNaN == {1, NaN}

\* Bound: of a second invocation, two gates of an invocation at once, and an
\* edit, a behaviour has at most two.
Wide == { r \in Runs : limit[r] = 2 }
AnyTwo == edits = 0 \/ Wide = {} \/ \E r \in Runs : pc[r] = "new"
================================================================================
