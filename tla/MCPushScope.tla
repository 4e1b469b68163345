------------------------------ MODULE MCPushScope ------------------------------
(***************************************************************************)
(* A small repository for TLC.  Gates are declared as in the registry: lib *)
(* and part, which lib uses, are crates that it knows, tool is a crate     *)
(* that its inputs leave out, router is the worker.  Besides there are a   *)
(* document, a file below dist/, one below scripts/quality/gates/, one     *)
(* with a quoted path, a long one and a .env.                              *)
(***************************************************************************)
EXTENDS PushScope

CONSTANTS lib, part, tool, manifest, router, doc, dist, rule, quoted, dump, env

MCFiles == {lib, part, tool, manifest, router, doc, dist, rule, quoted, dump, env}

MCOrigin == [f \in MCFiles |-> IF f \in {lib, part, manifest, router, rule} THEN "good" ELSE "absent"]

\* A developer works on the code ...
CodeVersions ==
    [f \in MCFiles |->
        CASE f = lib -> {"good", "failing"}
          [] f = part -> {"good", "absent"}
          [] f = tool -> {"absent", "good", "bare"}
          [] f \in {manifest, router} -> {"good", "broken"}
          [] f = doc -> {"absent", "good"}
          [] OTHER -> {MCOrigin[f]}]

\* ... or, with the cache on, on the crate that no inputs have, the manifest and
\* the worker ...
CachedVersions == [CodeVersions EXCEPT ![lib] = {"good"}, ![part] = {"good"}, ![doc] = {"absent"}]

\* ... or has a secret.
SecretVersions ==
    [f \in MCFiles |->
        CASE f = doc -> {"absent", "good", "secret", "masked"}
          [] f = quoted -> {"absent", "secret"}
          [] f \in {dump, env} -> {"absent", "good"}
          [] f \in {dist, rule} -> {"absent", "good", "secret"}
          [] OTHER -> {MCOrigin[f]}]

MCVersions == [f \in MCFiles |-> CodeVersions[f] \cup SecretVersions[f]]

MCUses == [f \in MCFiles |-> IF f = lib THEN {part} ELSE IF f = manifest THEN {lib} ELSE {}]

Crates == {lib, part, tool}
Worker == {router}
Manifests == {manifest}
MCReadBy ==
    [g \in Commands |->
        CASE g = "cargo-lock-consistency" -> {manifest, lib}
          [] g = "worker-typecheck" -> Worker
          [] OTHER -> Crates \cup Manifests]
MCInputs ==
    [g \in Commands |->
        CASE g = "cargo-lock-consistency" -> Manifests
          [] g = "worker-typecheck" -> Worker
          [] g = "rust-fmt" -> {lib, part}
          [] OTHER -> {lib, part, manifest}]

Triggers == {manifest, rule}
DistFiles == {dist}
RuleFiles == {rule}
QuotedFiles == {quoted}
BulkyFiles == {dump}
DotEnv == {env}
MCRank == [b \in Branches |-> IF b = Main THEN 1 ELSE 2]

--------------------------------------------------------------------------------
(* Bound: branches, caching and secrets are explored one at a time. *)

Within(versions) ==
    \A t \in {worktree, index} \cup { Tree(c) : c \in Commits } :
        \A f \in Files : t[f] \in versions[f]

OneBranch == \A b \in Branches \ {Main} : local[b] = 0
Uncached == ~caching /\ cached = {}

OneTopic ==
    \/ Within(CodeVersions) /\ Uncached
    \/ Within(CachedVersions) /\ OneBranch
    \/ Within(SecretVersions) /\ OneBranch /\ Uncached
================================================================================
