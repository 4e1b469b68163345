------------------------------- MODULE PushScope -------------------------------
(***************************************************************************)
(* Which gates see which tree: the git hooks with git.mjs, triggers.mjs,   *)
(* filter.mjs, registry.mjs and the two gates written in JavaScript.       *)
(*                                                                         *)
(* A developer edits a worktree, stages, commits through hooks/pre-commit  *)
(* and pushes through hooks/pre-push.  Worktree, index and commits are     *)
(* trees: what each file holds.  An invocation of the runner is one step   *)
(* here, cache included; QualityRunner has the steps of an invocation.     *)
(* The quality system itself and its environment do not change.  One clone *)
(* pushes to the remote, history has no merge commits, and --no-verify, "a *)
(* hatch the runner cannot prevent", is not used.                          *)
(***************************************************************************)
EXTENDS Naturals, Sequences, FiniteSets

CONSTANTS
    Files,
    Versions,        \* Versions[f] : what the file may hold
    RustFiles, WorkerTs, WorkspaceConfig, WorkerConfig, \* the registry's patterns
    EnvFiles,        \* .env and .env.*
    TriggerFiles,    \* FULL_TRIGGER_PATHS
    Excluded,        \* isExcluded: below target/, dist/, ...
    SelfExcluded,    \* below scripts/quality/gates/
    Opaque,          \* lock files, images, LICENSE: left out of a full scan
    Quoted,          \* paths that git quotes, behind SelfExcluded in a patch
    Bulky,           \* files of which any change prints more than gitSync holds
    Uses,            \* Uses[f] : the files without which f does not build
    Inputs,          \* Inputs[g] : the registry's inputs of a command's gate
    ReadBy,          \* ReadBy[g] : the files that the command reads
    Origin,          \* the tree of the first commit
    Main,            \* the default branch
    Branches,
    Rank,            \* Rank[b] : the place of b's name in git's order
    CacheSettings,   \* whether AEPTUS_QUALITY_DISABLE_CACHE is unset: some of BOOLEAN
    SkipDirtyConfirm, \* AEPTUS_SKIP_DIRTY_WORKTREE_CONFIRM = 1
    MaxTurns,        \* bound on the turns
    MaxCommits       \* bound on the commits

Gates == {"secrets-scan", "cargo-lock-consistency", "spdx-headers",
          "rust-fmt", "rust-clippy", "worker-typecheck", "rust-test"}

\* The gates that run cargo or tsc.
Commands == Gates \ {"secrets-scan", "spdx-headers"}

\* The files of which a command reads the text: of a target cargo metadata only
\* asks whether it is there.
Parsed(g) == IF g = "cargo-lock-consistency" THEN ReadBy[g] \cap WorkspaceConfig ELSE ReadBy[g]

\* "bare" has no SPDX header, "failing" builds and fails a test, "broken" does
\* not build; "masked" has a secret on a line that begins with ++.
Content == {"absent", "good", "bare", "failing", "broken", "secret", "masked"}

\* A tree says what each file holds.
Trees == [Files -> Content]

\* What the secret scan stands for, outside the directories it does not see.
HoldsNoSecret(t) ==
    /\ \A f \in Files \ (Excluded \cup SelfExcluded) : t[f] \notin {"secret", "masked"}
    /\ \A f \in EnvFiles \ Excluded : t[f] = "absent"

ASSUME FilesAssumption ==
    /\ IsFiniteSet(Files)
    /\ Versions \in [Files -> SUBSET Content]
    /\ Uses \in [Files -> SUBSET Files]
    /\ RustFiles \cup WorkerTs \cup WorkspaceConfig \cup WorkerConfig \cup EnvFiles \subseteq Files

\* What a command reads, it reads with what that is built with.
ASSUME CommandsAssumption ==
    /\ Inputs \in [Commands -> SUBSET Files]
    /\ ReadBy \in [Commands -> SUBSET Files]
    /\ \A g \in Commands : \A f \in Parsed(g) : Uses[f] \subseteq ReadBy[g]

\* The excluded directories are generated and ignored by git: what is tracked
\* there against the rule is neither a source nor a .env.
ASSUME ExcludedAssumption ==
    Excluded \cap (RustFiles \cup WorkerTs \cup WorkspaceConfig \cup WorkerConfig \cup EnvFiles) = {}

ASSUME OriginAssumption == Origin \in Trees /\ HoldsNoSecret(Origin)

ASSUME RefsAssumption ==
    /\ Main \in Branches
    /\ Rank \in [Branches -> Nat]
    /\ \A b, d \in Branches : Rank[b] = Rank[d] => b = d

ASSUME BoundsAssumption ==
    /\ CacheSettings \subseteq BOOLEAN /\ CacheSettings # {}
    /\ SkipDirtyConfirm \in BOOLEAN
    /\ MaxTurns \in Nat
    /\ MaxCommits \in Nat \ {0}

VARIABLES
    worktree,
    index,     \* what `git commit` will record
    commits,   \* commits[c] : its tree, and its past, c itself included
    local,     \* local[b] : the branch's commit in the clone, 0 without one
    remote,    \* remote[b] : the same on the remote, which origin/b mirrors
    head,      \* the branch that is checked out
    cached,    \* the keys of the cache index
    caching,   \* whether the runner uses it
    turns      \* edits, runs by hand and changes of caching so far

vars == <<worktree, index, commits, local, remote, head, cached, caching, turns>>

--------------------------------------------------------------------------------
Tree(c) == commits[c].tree
Commits == DOMAIN commits
Present(t) == { f \in Files : t[f] # "absent" }

\* git status --porcelain prints nothing.
Clean == worktree = index /\ index = Tree(local[head])

\* git diff --diff-filter=ACMR, through filterRelevant.
Relevant(s, t) == { f \in Present(t) : t[f] # s[f] } \ Excluded

\* The nearest common ancestor; without merges the common ones are a chain.
MergeBase(c, d) ==
    LET common == commits[c].past \cap commits[d].past
    IN CHOOSE a \in common : \A e \in common : e <= a

DefaultBranch == IF remote[Main] # 0 THEN remote[Main] ELSE local[Main]

\* What `base...head` is compared with, for the update of one ref.
RangeStart(old, new) == MergeBase(new, IF old # 0 THEN old ELSE DefaultBranch)

\* The refs of a push that are not deletions.  git writes the refs that the
\* remote has by name, and the new ones after them.
Sent(after) == { b \in Branches : after[b] \notin {0, remote[b]} }
ListedBefore(b, d) ==
    IF (remote[b] = 0) = (remote[d] = 0) THEN Rank[b] < Rank[d] ELSE remote[d] = 0
FirstSent(after) ==
    CHOOSE b \in Sent(after) : \A d \in Sent(after) \ {b} : ListedBefore(b, d)

\* resolveDiffBase: the first update that is not a deletion decides; with none,
\* HEAD against its upstream.
Resolve(after) ==
    IF Sent(after) # {}
    THEN LET b == FirstSent(after)
         IN [base |-> RangeStart(remote[b], after[b]), head |-> after[b]]
    ELSE [base |-> RangeStart(remote[head], local[head]), head |-> local[head]]

--------------------------------------------------------------------------------
\* The context of a run: the mode, the relevant files, and the two trees of the
\* diff, from and to.
StagedContext ==
    [mode |-> "staged", relevant |-> Relevant(Tree(local[head]), index),
     from |-> Tree(local[head]), to |-> index]

\* Mutant: an empty change set is run scoped.
OnlyOnTrigger(changed) == changed \cap TriggerFiles # {}

\* shouldRunFullSuite, in a hook.
MustRunFull(changed) == changed = {} \/ changed \cap TriggerFiles # {}

\* The context of a pre-push run over the range from s to t.
RangeContext(s, t) ==
    [mode |-> IF MustRunFull(Relevant(s, t)) THEN "prepush-full" ELSE "prepush",
     relevant |-> Relevant(s, t), from |-> s, to |-> t]

PushContext(after) ==
    LET range == Resolve(after) IN RangeContext(Tree(range.base), Tree(range.head))

\* A run over everything that t holds.
FullContext(t) == [mode |-> "prepush-full", relevant |-> {}, from |-> t, to |-> t]

--------------------------------------------------------------------------------
Full(ctx) == ctx.mode = "prepush-full"

\* The files whose change makes a gate apply.
Watched(g) ==
    CASE g = "secrets-scan" -> Files
      [] g = "cargo-lock-consistency" -> WorkspaceConfig
      [] g = "spdx-headers" -> RustFiles \cup WorkerTs
      [] g = "worker-typecheck" -> WorkerTs \cup WorkerConfig
      [] OTHER -> RustFiles \cup WorkspaceConfig

\* modes and applies(ctx).
Applies(g, ctx) ==
    \/ Full(ctx)
    \/ g = "cargo-lock-consistency" /\ ctx.mode = "prepush"
    \/ ctx.relevant \cap Watched(g) # {} /\ ~(g = "rust-test" /\ ctx.mode = "staged")

Changed(ctx) == { f \in Files : ctx.from[f] # ctx.to[f] }

\* Mutant: the scan reads the worktree for what is staged.
WorktreeHits(ctx, w) ==
    { f \in Files \ SelfExcluded : w[f] = "secret" /\ ctx.from[f] # "secret" }

\* The new files to which a rename may have brought a secret: git prints no line
\* of a file that has only moved, and each deleted file can have moved once.
MayHaveMoved(ctx, new) ==
    LET sources == { f \in Files : ctx.from[f] = "secret" /\ ctx.to[f] = "absent" }
    IN /\ \A f \in new : ctx.from[f] = "absent"
       /\ Cardinality(new) <= Cardinality(sources)

\* scanAddedLines: the files to which the diff adds a secret, the fewest it may
\* find.  A patch that is too long is empty (gitSync); a header with a quoted
\* path leaves the parser in the file before it.
AddedHits(ctx, w) ==
    LET skipped == IF \E f \in SelfExcluded \cap Changed(ctx) : ctx.to[f] # "absent"
                   THEN SelfExcluded \cup Quoted ELSE SelfExcluded
        new == { f \in Files \ skipped : ctx.to[f] = "secret" /\ ctx.from[f] # "secret" }
    IN IF Bulky \cap Changed(ctx) # {} \/ MayHaveMoved(ctx, new) THEN {} ELSE new

\* scanForSecrets, over the diff or over every tracked file.
ScanPasses(ctx, w, tracked) ==
    IF Full(ctx)
    THEN /\ \A f \in tracked \ (SelfExcluded \cup Opaque) : w[f] \notin {"secret", "masked"}
         /\ tracked \cap EnvFiles = {}
    ELSE AddedHits(ctx, w) = {} /\ ctx.relevant \cap EnvFiles = {}

\* checkSpdx: a file that cannot be read has no header.
SpdxPasses(ctx, w, tracked) ==
    \A f \in (IF Full(ctx) THEN tracked ELSE ctx.relevant) \cap (RustFiles \cup WorkerTs) :
        w[f] \notin {"bare", "absent"}

\* cargo and tsc, over the worktree.
Refused(g) == IF g = "rust-test" THEN {"broken", "failing"} ELSE {"broken"}
Builds(g, w) ==
    \A f \in Parsed(g) :
        w[f] # "absent" => w[f] \notin Refused(g) /\ \A u \in Uses[f] : w[u] # "absent"

\* The gate's verdict, with w in the worktree and t in the index.
Passes(g, ctx, w, t) ==
    CASE g = "secrets-scan" -> ScanPasses(ctx, w, Present(t))
      [] g = "spdx-headers" -> SpdxPasses(ctx, w, Present(t))
      [] OTHER -> Builds(g, w)

--------------------------------------------------------------------------------
\* The gates whose verdict the runner may take from the cache, and their inputs.
Cacheable == Gates \ {"secrets-scan"}
Declared(g) == IF g \in Commands THEN Inputs[g] ELSE {}

\* Mutant: a key names the gate and the files, and holds no contents.
KeyWithoutInputs(g, ctx, w) ==
    [gate |-> g, mode |-> ctx.mode, inputs |-> [f \in {} |-> w[f]],
     relevant |-> IF g = "spdx-headers" /\ ~Full(ctx) THEN ctx.relevant ELSE {}]

\* computeCacheKey: the declared inputs in the worktree and, of a gate over
\* changed files that is not run in full, their names.
KeyOf(g, ctx, w) ==
    [gate |-> g, mode |-> ctx.mode, inputs |-> [f \in Declared(g) |-> w[f]],
     relevant |-> IF g = "spdx-headers" /\ ~Full(ctx) THEN ctx.relevant ELSE {}]

\* The gate passes, from the cache or by being run.
Passed(g, ctx, w, t) ==
    \/ caching /\ g \in Cacheable /\ KeyOf(g, ctx, w) \in cached
    \/ Passes(g, ctx, w, t)

\* The runner exits with 0.
RunPasses(ctx, w, t) == \A g \in Gates : Applies(g, ctx) => Passed(g, ctx, w, t)

WaveOf(g) ==
    CASE g \in {"secrets-scan", "cargo-lock-consistency"} -> 1
      [] g = "rust-test" -> 3
      [] OTHER -> 2

\* The gates that a run reaches before a wave fails.
Reached(ctx, w, t) ==
    { g \in Gates : /\ Applies(g, ctx)
                    /\ \A h \in Gates : WaveOf(h) < WaveOf(g) /\ Applies(h, ctx)
                                             => Passed(h, ctx, w, t) }

\* A run leaves the keys of the gates that passed, whatever its exit code is.
StoreKeys(ctx) ==
    cached' = IF ~caching THEN cached
              ELSE cached \cup { KeyOf(g, ctx, worktree) :
                       g \in { h \in Reached(ctx, worktree, index) \cap Cacheable :
                                 Passed(h, ctx, worktree, index) } }

--------------------------------------------------------------------------------
Init ==
    /\ worktree = Origin
    /\ index = Origin
    /\ commits = <<[tree |-> Origin, past |-> {1}]>>
    /\ local = [b \in Branches |-> IF b = Main THEN 1 ELSE 0]
    /\ remote \in { local, [b \in Branches |-> 0] }
    /\ head = Main
    /\ cached = {}
    /\ caching \in CacheSettings
    /\ turns = 0

TakeTurn == turns < MaxTurns /\ turns' = turns + 1

Edit(f) ==
    /\ TakeTurn
    /\ \E v \in Versions[f] \ {worktree[f]} : worktree' = [worktree EXCEPT ![f] = v]
    /\ UNCHANGED <<index, commits, local, remote, head, cached, caching>>

\* git add, or git rm of a file that is gone.
Stage(f) ==
    /\ index[f] # worktree[f]
    /\ index' = [index EXCEPT ![f] = worktree[f]]
    /\ UNCHANGED <<worktree, commits, local, remote, head, cached, caching, turns>>

NewCommit(t) == [tree |-> t, past |-> commits[local[head]].past \cup {Len(commits) + 1}]

\* git commit, when hooks/pre-commit exits with 0.
Commit ==
    /\ Len(commits) < MaxCommits
    /\ index # Tree(local[head])
    /\ RunPasses(StagedContext, worktree, index)
    /\ commits' = Append(commits, NewCommit(index))
    /\ local' = [local EXCEPT ![head] = Len(commits) + 1]
    /\ StoreKeys(StagedContext)
    /\ UNCHANGED <<worktree, index, remote, head, caching, turns>>

\* The clone moves to another branch, a new one at some commit or one it has,
\* or takes its branch back (git reset --hard).
Move(b, c) ==
    /\ Clean
    /\ local' = [local EXCEPT ![b] = c]
    /\ head' = b
    /\ worktree' = Tree(c)
    /\ index' = Tree(c)
    /\ UNCHANGED <<commits, remote, cached, caching, turns>>

Branch == \E b \in Branches, c \in Commits : local[b] = 0 /\ Move(b, c)
Checkout == \E b \in Branches \ {head} : local[b] # 0 /\ Move(b, local[b])
Reset == \E c \in commits[local[head]].past \ {local[head]} : Move(head, c)

\* ensureDirtyAllowed: a hook has no terminal.
DirtyAllowed == Clean \/ SkipDirtyConfirm

\* What the refs of the remote may be asked to become: any branches are pushed,
\* forced or not, and any are deleted.
Updates == { after \in [Branches -> 0..Len(commits)] :
                 \A b \in Branches : after[b] \in {remote[b], local[b], 0} }

\* git push, when hooks/pre-push exits with 0.
Push ==
    \E after \in Updates \ {remote} :
        /\ DirtyAllowed
        /\ RunPasses(PushContext(after), worktree, index)
        /\ remote' = after
        /\ StoreKeys(PushContext(after))
        /\ UNCHANGED <<worktree, index, commits, local, head, caching, turns>>

\* A run that lets nothing through: a hook that refuses, or npm run quality:...
Check ==
    \E ctx \in {StagedContext, FullContext(index)} \cup { PushContext(after) : after \in Updates } :
        /\ TakeTurn
        /\ StoreKeys(ctx)
        /\ cached' # cached
        /\ UNCHANGED <<worktree, index, commits, local, remote, head, caching>>

\* The variable that disables the cache is set, or no longer.
SetCaching ==
    /\ TakeTurn
    /\ caching' \in CacheSettings \ {caching}
    /\ UNCHANGED <<worktree, index, commits, local, remote, head, cached>>

Next ==
    \/ \E f \in Files : Edit(f) \/ Stage(f)
    \/ Commit
    \/ Branch \/ Checkout \/ Reset
    \/ Push
    \/ Check
    \/ SetCaching

Spec == Init /\ [][Next]_vars

--------------------------------------------------------------------------------
\* A commit's history leads from the first commit to itself.
TypeOK ==
    /\ worktree \in Trees
    /\ index \in Trees
    /\ commits \in Seq([tree : Trees, past : SUBSET Nat])
    /\ \A c \in Commits : c \in commits[c].past /\ 1 \in commits[c].past
                             /\ commits[c].past \subseteq 1..c
    /\ local \in [Branches -> 0..Len(commits)]
    /\ remote \in [Branches -> 0..Len(commits)]
    /\ head \in Branches
    /\ local[head] # 0 /\ local[Main] # 0
    /\ \A k \in cached : k.gate \in Cacheable /\ k.inputs \in [Declared(k.gate) -> Content]
    /\ caching \in BOOLEAN
    /\ turns \in 0..MaxTurns

\* Where the scan does not look, or may not: files in which a secret can be
\* committed unseen.
Blind == Excluded \cup SelfExcluded \cup Quoted

\* Whatever is staged, edited after staging, left unstaged, committed, reset
\* and branched: no .env file is committed, and a secret that the scan of the
\* staged diff (secrets.mjs) could have read has come from a commit with one in
\* a file the scan does not see, or behind a patch too long for gitSync.
SecretsEnterUnseen ==
    \A c \in Commits :
        /\ \A f \in EnvFiles \ Excluded : Tree(c)[f] = "absent"
        /\ (\E f \in Files \ Blind : Tree(c)[f] = "secret") =>
              \E p \in commits[c].past : \/ \E f \in Blind : Tree(p)[f] = "secret"
                                         \/ \E f \in Bulky : Tree(p)[f] # "absent"

\* The gate accepts all that t holds.
Accepts(g, t) == Passes(g, FullContext(t), t, t)

\* b is pushed from a clean worktree in which it is checked out, the only ref
\* that is not deleted, and its range starts at a tree that g accepts.  (When
\* the range is empty nothing is assumed: the run is full.)
CheckedPush(b, g) ==
    LET tip == remote'[b]
        start == RangeStart(remote[b], tip)
    IN /\ tip \notin {0, remote[b]}
       /\ \A d \in Branches \ {b} : remote'[d] \in {0, remote[d]}
       /\ head = b
       /\ Clean
       /\ start # tip => Accepts(g, Tree(start))

KeepsFiles(b) ==
    Present(Tree(RangeStart(remote[b], remote'[b]))) \subseteq Present(Tree(remote'[b]))

\* The gate is run whenever something it reads has changed, and its key covers
\* what it reads or is not used.
Trusted(g) ==
    IF g = "spdx-headers" THEN ~caching
    ELSE /\ g # "cargo-lock-consistency" => ReadBy[g] \subseteq Watched(g)
         /\ caching => ReadBy[g] \subseteq Inputs[g]

\* The secret scan of a range looks at its diff alone, and is left out.
OverTrees == Gates \ {"secrets-scan"}

\* A scoped pre-push run is as good as a full one, gate by gate: whatever the
\* change set and the cache, the tree that reaches the remote passes each gate
\* that can be trusted, unless files were deleted on the way.
PushedTreeAccepted ==
    [][\A b \in Branches, g \in OverTrees :
          CheckedPush(b, g) /\ KeepsFiles(b) /\ Trusted(g) => Accepts(g, Tree(remote'[b]))]_vars

================================================================================
