---------------------------- MODULE PushScopeProofs ----------------------------
(***************************************************************************)
(* What the hooks guarantee, for every repository: any files, branches,    *)
(* histories and bounds.                                                   *)
(***************************************************************************)
EXTENDS PushScope, FiniteSetTheorems, TLAPS

\* Every clone, index and history is well formed.
LEMMA InitTypes == Init => TypeOK
<1> SUFFICES ASSUME Init PROVE TypeOK
  OBVIOUS
<1> USE OriginAssumption, RefsAssumption, BoundsAssumption DEF Init
<1>1. Len(commits) = 1 /\ DOMAIN commits = {1}
  OBVIOUS
<1>2. commits \in Seq([tree : Trees, past : SUBSET Nat])
  OBVIOUS
<1>3. \A c \in Commits : c \in commits[c].past /\ 1 \in commits[c].past /\ commits[c].past \subseteq 1..c
  BY <1>1 DEF Commits
<1>4. local \in [Branches -> 0..Len(commits)] /\ remote \in [Branches -> 0..Len(commits)]
  BY <1>1
<1>5. worktree \in Trees /\ index \in Trees /\ head \in Branches
  OBVIOUS
<1>6. cached = {} /\ caching \in BOOLEAN /\ turns \in 0..MaxTurns
  OBVIOUS
<1>7. local[head] # 0 /\ local[Main] # 0
  OBVIOUS
<1> QED
  BY <1>2, <1>3, <1>4, <1>5, <1>6, <1>7 DEF TypeOK

\* A run stores keys of gates that have one, over the worktree.
LEMMA StoreTypes ==
    ASSUME TypeOK, NEW ctx, StoreKeys(ctx)
    PROVE  \A k \in cached' : k.gate \in Cacheable /\ k.inputs \in [Declared(k.gate) -> Content]
<1> SUFFICES ASSUME NEW k \in cached', k \notin cached
             PROVE  k.gate \in Cacheable /\ k.inputs \in [Declared(k.gate) -> Content]
  BY DEF TypeOK
<1>1. PICK g \in Cacheable : k = KeyOf(g, ctx, worktree)
  BY DEF StoreKeys
<1>2. k.gate = g /\ k.inputs = [f \in Declared(g) |-> worktree[f]]
  BY <1>1 DEF KeyOf
<1>3. Declared(g) \subseteq Files
  BY CommandsAssumption DEF Declared
<1>4. [f \in Declared(g) |-> worktree[f]] \in [Declared(g) -> Content]
  <2> HIDE DEF Content
  <2> QED
    BY <1>3 DEF TypeOK, Trees
<1> QED
  BY <1>2, <1>4

\* A commit is added at the end, and its history is its parent's and itself.
LEMMA CommitTypes == TypeOK /\ Commit => TypeOK'
<1> SUFFICES ASSUME TypeOK, Commit PROVE TypeOK'
  OBVIOUS
<1> DEFINE n == Len(commits) + 1
           new == NewCommit(index)
<1>1. /\ Len(commits) \in Nat
      /\ local[head] \in 1..Len(commits)
      /\ Commits = 1..Len(commits)
  BY DEF TypeOK, Commits
<1>2. /\ 1 \in commits[local[head]].past
      /\ commits[local[head]].past \subseteq 1..local[head]
  BY <1>1 DEF TypeOK
<1>3. new.tree \in Trees /\ new.past = commits[local[head]].past \cup {n}
  BY DEF NewCommit, TypeOK
<1>4. new.past \subseteq 1..n /\ n \in new.past /\ 1 \in new.past
  BY <1>1, <1>2, <1>3
<1>5. new \in [tree : Trees, past : SUBSET Nat]
  <2>1. new.past \subseteq Nat
    BY <1>1, <1>4
  <2> QED
    BY <2>1, <1>3 DEF NewCommit
<1>6. commits' = Append(commits, new)
  BY DEF Commit
<1> HIDE DEF new
<1>7. commits' \in Seq([tree : Trees, past : SUBSET Nat])
  BY <1>5, <1>6 DEF TypeOK
<1>8. /\ Len(commits') = n
      /\ Commits' = 1..n
      /\ \A c \in 1..Len(commits) : commits'[c] = commits[c]
      /\ commits'[n] = new
  BY <1>1, <1>5, <1>6 DEF TypeOK, Commits
<1>9. \A c \in Commits' : c \in commits'[c].past /\ 1 \in commits'[c].past /\ commits'[c].past \subseteq 1..c
  <2> SUFFICES ASSUME NEW c \in 1..n
               PROVE  c \in commits'[c].past /\ 1 \in commits'[c].past /\ commits'[c].past \subseteq 1..c
    BY <1>8
  <2>1. CASE c = n
    BY <2>1, <1>4, <1>8
  <2>2. CASE c \in 1..Len(commits)
    BY <2>2, <1>1, <1>8 DEF TypeOK
  <2> QED
    BY <2>1, <2>2, <1>1
<1>10. /\ local' = [local EXCEPT ![head] = n]
       /\ UNCHANGED <<worktree, index, remote, head, caching, turns>>
       /\ StoreKeys(StagedContext)
  BY DEF Commit
<1>11. local' \in [Branches -> 0..n] /\ remote' \in [Branches -> 0..n]
  BY <1>1, <1>10 DEF TypeOK
<1>12. local'[head'] # 0 /\ local'[Main] # 0
  BY <1>1, <1>10, RefsAssumption DEF TypeOK
<1>13. \A k \in cached' : k.gate \in Cacheable /\ k.inputs \in [Declared(k.gate) -> Content]
  BY <1>10, StoreTypes
<1> QED
  BY <1>7, <1>8, <1>9, <1>10, <1>11, <1>12, <1>13 DEF TypeOK

\* Moving the clone to a branch and a commit keeps both well formed.
LEMMA MoveTypes ==
    ASSUME TypeOK, NEW b \in Branches, NEW c \in Commits, Move(b, c)
    PROVE  TypeOK'
<1>1. c \in 1..Len(commits) /\ Len(commits) \in Nat /\ c # 0
  BY DEF TypeOK, Commits
<1>2. commits[c].tree \in Trees
  <2> DEFINE Record == [tree : Trees, past : SUBSET Nat]
  <2>1. commits \in Seq(Record)
    BY DEF TypeOK
  <2>2. commits[c] \in Record
    <3> HIDE DEF Record
    <3> QED
      BY <1>1, <2>1
  <2> QED
    BY <2>2
<1>3. UNCHANGED <<commits, remote, cached, caching, turns>> /\ head' = b
  BY DEF Move
<1>4. worktree' \in Trees /\ index' \in Trees
  BY <1>2 DEF Move, Tree
<1>5. local' = [local EXCEPT ![b] = c]
  BY DEF Move
<1>6. local' \in [Branches -> 0..Len(commits)] /\ local'[b] # 0 /\ local'[Main] # 0
  BY <1>1, <1>5, RefsAssumption DEF TypeOK
<1>7. Commits' = Commits
  BY <1>3 DEF Commits
<1> QED
  BY <1>3, <1>4, <1>6, <1>7 DEF TypeOK

\* A turn that is taken is within their bound.
LEMMA TurnTypes == ASSUME TypeOK, TakeTurn PROVE turns' \in 0..MaxTurns
BY BoundsAssumption DEF TypeOK, TakeTurn

\* No step leaves the types.
LEMMA NextTypes == TypeOK /\ [Next]_vars => TypeOK'
<1> SUFFICES ASSUME TypeOK, [Next]_vars PROVE TypeOK'
  OBVIOUS
<1>1. ASSUME NEW f \in Files, Edit(f) PROVE TypeOK'
  <2>1. worktree' \in Trees
    <3>1. PICK v \in Versions[f] : worktree' = [worktree EXCEPT ![f] = v]
      BY <1>1 DEF Edit
    <3>2. v \in Content
      BY FilesAssumption
    <3> HIDE DEF Content
    <3> QED
      BY <3>1, <3>2 DEF TypeOK, Trees
  <2>2. turns' \in 0..MaxTurns
    BY <1>1, TurnTypes DEF Edit
  <2> QED
    BY <1>1, <2>1, <2>2 DEF Edit, TypeOK, Commits
<1>2. ASSUME NEW f \in Files, Stage(f) PROVE TypeOK'
  <2>1. index' \in Trees
    BY <1>2 DEF Stage, TypeOK, Trees
  <2> QED
    BY <1>2, <2>1 DEF Stage, TypeOK, Commits
<1>3. CASE Commit
  BY <1>3, CommitTypes
<1>4. CASE Branch
  BY <1>4, MoveTypes DEF Branch
<1>5. CASE Checkout
  <2>1. PICK b \in Branches : local[b] # 0 /\ Move(b, local[b])
    BY <1>5 DEF Checkout
  <2>2. local[b] \in Commits
    BY <2>1 DEF TypeOK, Commits
  <2> QED
    BY <2>1, <2>2, MoveTypes
<1>6. CASE Reset
  <2>1. PICK c \in commits[local[head]].past : Move(head, c)
    BY <1>6 DEF Reset
  <2>2. local[head] \in Commits
    BY DEF TypeOK, Commits
  <2>3. c \in Commits
    BY <2>1, <2>2 DEF TypeOK, Commits
  <2>4. head \in Branches
    BY DEF TypeOK
  <2> QED
    BY <2>1, <2>3, <2>4, MoveTypes
<1>7. CASE Push
  <2>1. PICK after \in Updates : remote' = after /\ StoreKeys(PushContext(after))
    BY <1>7 DEF Push
  <2>2. \A k \in cached' : k.gate \in Cacheable /\ k.inputs \in [Declared(k.gate) -> Content]
    BY <2>1, StoreTypes
  <2> QED
    BY <1>7, <2>1, <2>2 DEF Push, Updates, TypeOK, Commits
<1>8. CASE Check
  <2>1. PICK ctx : StoreKeys(ctx)
    BY <1>8 DEF Check
  <2>2. \A k \in cached' : k.gate \in Cacheable /\ k.inputs \in [Declared(k.gate) -> Content]
    BY <2>1, StoreTypes
  <2>3. TakeTurn /\ UNCHANGED <<worktree, index, commits, local, remote, head, caching>>
    BY <1>8 DEF Check
  <2> QED
    BY <2>2, <2>3, TurnTypes DEF TypeOK, Commits
<1>9. CASE SetCaching
  <2>1. caching' \in BOOLEAN
    BY <1>9, BoundsAssumption DEF SetCaching
  <2> QED
    BY <1>9, <2>1, TurnTypes DEF SetCaching, TypeOK, Commits
<1>10. CASE UNCHANGED vars
  BY <1>10 DEF vars, TypeOK, Commits
<1> QED
  BY <1>1, <1>2, <1>3, <1>4, <1>5, <1>6, <1>7, <1>8, <1>9, <1>10 DEF Next

\* Worktree, index, branches and histories stay well formed in every run.
THEOREM TypeCorrect == Spec => []TypeOK
<1> QED
  BY InitTypes, NextTypes, PTL DEF Spec

--------------------------------------------------------------------------------
\* A staged run over a change that is not excluded has scanned it.
LEMMA StagedScanRuns ==
    ASSUME RunPasses(StagedContext, worktree, index),
           Relevant(Tree(local[head]), index) \cap Files # {}
    PROVE  /\ AddedHits(StagedContext, worktree) = {}
           /\ Relevant(Tree(local[head]), index) \cap EnvFiles = {}
<1> DEFINE ctx == StagedContext
<1>1. /\ ctx.relevant = Relevant(Tree(local[head]), index)
      /\ ~Full(ctx)
  BY DEF StagedContext, Full
<1>2. Watched("secrets-scan") = Files
  BY DEF Watched
<1>3. Applies("secrets-scan", ctx)
  BY <1>1, <1>2 DEF Applies
<1>4. Passed("secrets-scan", ctx, worktree, index)
  <2> HIDE DEF ctx
  <2> QED
    BY <1>3 DEF RunPasses, Gates, ctx
<1>5. Passes("secrets-scan", ctx, worktree, index) = ScanPasses(ctx, worktree, Present(index))
  BY DEF Passes
<1>6. ScanPasses(ctx, worktree, Present(index))
  <2> HIDE DEF ctx
  <2> QED
    BY <1>4, <1>5 DEF Passed, Cacheable
<1> QED
  BY <1>1, <1>6 DEF ScanPasses

\* It lets no .env file in.
LEMMA StagedKeepsEnv ==
    ASSUME TypeOK, RunPasses(StagedContext, worktree, index),
           \A f \in EnvFiles \ Excluded : Tree(local[head])[f] = "absent"
    PROVE  \A f \in EnvFiles \ Excluded : index[f] = "absent"
<1> SUFFICES ASSUME NEW f \in EnvFiles \ Excluded, index[f] # "absent" PROVE FALSE
  OBVIOUS
<1>1. f \in Relevant(Tree(local[head]), index) /\ f \in Files
  BY FilesAssumption DEF Relevant, Present
<1> QED
  BY <1>1, StagedScanRuns

\* A staged run over a HEAD that holds no secret lets none into a file it sees,
\* unless the patch is too long: there is nothing it could have moved from.
LEMMA StagedKeepsSecrets ==
    ASSUME TypeOK, RunPasses(StagedContext, worktree, index),
           \A f \in Files : Tree(local[head])[f] # "secret",
           NEW f \in Files \ Blind, index[f] = "secret"
    PROVE  \E d \in Bulky : d \in Files /\ Tree(local[head])[d] # index[d]
<1> DEFINE ctx == StagedContext
           head0 == Tree(local[head])
           skipped == IF \E d \in SelfExcluded \cap Changed(ctx) : ctx.to[d] # "absent"
                      THEN SelfExcluded \cup Quoted ELSE SelfExcluded
           new == { d \in Files \ skipped : ctx.to[d] = "secret" /\ ctx.from[d] # "secret" }
           sources == { d \in Files : ctx.from[d] = "secret" /\ ctx.to[d] = "absent" }
<1>1. ctx.from = head0 /\ ctx.to = index
  BY DEF StagedContext
<1>2. f \in Relevant(head0, index)
  BY DEF Blind, Relevant, Present
<1>3. AddedHits(ctx, worktree) = {}
  BY <1>2, StagedScanRuns
<1>4. f \in new
  BY <1>1 DEF Blind
<1>5. sources = {}
  BY <1>1
<1>6. ~MayHaveMoved(ctx, new)
  <2>1. Cardinality(sources) = 0
    BY <1>5, FS_EmptySet
  <2>2. IsFiniteSet(new) /\ Cardinality(new) \in Nat /\ Cardinality(new) # 0
    <3>1. IsFiniteSet(new)
      BY FilesAssumption, FS_Subset
    <3> HIDE DEF new
    <3> QED
      BY <1>4, <3>1, FS_CardinalityType, FS_EmptySet
  <2> HIDE DEF new, sources, ctx
  <2>3. ~(Cardinality(new) <= Cardinality(sources))
    BY <2>1, <2>2
  <2> QED
    BY <2>3 DEF MayHaveMoved, sources
<1>7. AddedHits(ctx, worktree) =
        IF Bulky \cap Changed(ctx) # {} \/ MayHaveMoved(ctx, new) THEN {} ELSE new
  BY DEF AddedHits
<1>8. Bulky \cap Changed(ctx) # {}
  <2> HIDE DEF new, ctx
  <2> QED
    BY <1>3, <1>4, <1>6, <1>7
<1> QED
  BY <1>1, <1>8 DEF Changed

\* What a commit adds is its own tree; the others, and their histories, stay.
LEMMA CommitAdds ==
    ASSUME TypeOK, Commit
    PROVE  LET n == Len(commits) + 1
           IN /\ n \notin Commits /\ Commits' = Commits \cup {n}
              /\ local[head] \in Commits
              /\ \A c \in Commits : commits'[c] = commits[c]
              /\ commits'[n].tree = index
              /\ commits'[n].past = commits[local[head]].past \cup {n}
<1> DEFINE n == Len(commits) + 1
           Record == [tree : Trees, past : SUBSET Nat]
<1>1. /\ Len(commits) \in Nat /\ Commits = 1..Len(commits)
      /\ local[head] \in 1..Len(commits)
  BY DEF TypeOK, Commits
<1>2. commits' = Append(commits, NewCommit(index))
  BY DEF Commit
<1>3. /\ NewCommit(index).tree = index
      /\ NewCommit(index).past = commits[local[head]].past \cup {n}
  BY DEF NewCommit
<1>4. commits \in Seq(Record)
  BY DEF TypeOK
<1>5. /\ Commits' = 1..n
      /\ commits'[n] = NewCommit(index)
      /\ \A c \in 1..Len(commits) : commits'[c] = commits[c]
  <2> HIDE DEF Record
  <2> QED
    BY <1>1, <1>2, <1>4 DEF Commits
<1> QED
  BY <1>1, <1>3, <1>5

\* A commit that the pre-commit hook lets through has no new secret the scan could see.
LEMMA CommitKeepsOut ==
    ASSUME TypeOK, SecretsEnterUnseen, Commit
    PROVE  SecretsEnterUnseen'
<1> DEFINE n == Len(commits) + 1
           h == local[head]
           Source(t) == \/ \E f \in Blind : t[f] = "secret"
                        \/ \E f \in Bulky : t[f] # "absent"
<1>1. /\ n \notin Commits /\ Commits' = Commits \cup {n} /\ h \in Commits
      /\ \A c \in Commits : commits'[c] = commits[c]
      /\ commits'[n].tree = index
      /\ commits'[n].past = commits[h].past \cup {n}
  BY CommitAdds
<1>2. \A c \in Commits : commits[c].past \subseteq Commits /\ c \in commits[c].past
  BY DEF TypeOK, Commits
<1>3. RunPasses(StagedContext, worktree, index)
  BY DEF Commit
<1>4. \A f \in EnvFiles \ Excluded : index[f] = "absent"
  BY <1>1, <1>3, StagedKeepsEnv DEF SecretsEnterUnseen
<1>5. ASSUME NEW f \in Files \ Blind, index[f] = "secret"
      PROVE  \E p \in commits'[n].past : Source(commits'[p].tree)
  <2>1. CASE \E d \in Files \ Blind : Tree(h)[d] = "secret"
    <3>1. PICK p \in commits[h].past : Source(Tree(p))
      BY <1>1, <2>1 DEF SecretsEnterUnseen
    <3>2. p \in commits'[n].past /\ commits'[p].tree = Tree(p)
      BY <1>1, <1>2 DEF Tree
    <3> QED
      BY <3>1, <3>2
  <2>2. CASE \E d \in Files \cap Blind : Tree(h)[d] = "secret"
    <3>1. h \in commits'[n].past /\ commits'[h].tree = Tree(h)
      BY <1>1, <1>2 DEF Tree
    <3> QED
      BY <2>2, <3>1
  <2>3. CASE \A d \in Files : Tree(h)[d] # "secret"
    <3>1. PICK d \in Bulky : Tree(h)[d] # index[d]
      BY <1>3, <1>5, <2>3, StagedKeepsSecrets
    <3>2. /\ h \in commits'[n].past /\ n \in commits'[n].past
          /\ commits'[h].tree = Tree(h) /\ commits'[n].tree = index
      BY <1>1, <1>2 DEF Tree
    <3>3. Source(Tree(h)) \/ Source(index)
      BY <3>1
    <3> QED
      BY <3>2, <3>3
  <2> QED
    BY <2>1, <2>2, <2>3
<1>6. ASSUME NEW c \in Commits, NEW f \in Files \ Blind, Tree(c)[f] = "secret"
      PROVE  \E p \in commits'[c].past : Source(commits'[p].tree)
  <2>1. PICK p \in commits[c].past : Source(Tree(p))
    BY <1>6 DEF SecretsEnterUnseen
  <2>2. p \in commits'[c].past /\ commits'[p].tree = Tree(p)
    BY <1>1, <1>2 DEF Tree
  <2> QED
    BY <2>1, <2>2
<1> SUFFICES ASSUME NEW c \in Commits'
             PROVE  /\ \A f \in EnvFiles \ Excluded : commits'[c].tree[f] = "absent"
                    /\ (\E f \in Files \ Blind : commits'[c].tree[f] = "secret") =>
                          \E p \in commits'[c].past : Source(commits'[p].tree)
  BY DEF SecretsEnterUnseen, Blind, Tree
<1>7. CASE c \in Commits
  BY <1>1, <1>6, <1>7 DEF SecretsEnterUnseen, Tree
<1>8. CASE c = n
  BY <1>1, <1>4, <1>5, <1>8
<1> QED
  BY <1>1, <1>7, <1>8

\* Commits are made by git commit alone, so no other step brings a secret in.
LEMMA NextKeepsOut == TypeOK /\ SecretsEnterUnseen /\ [Next]_vars => SecretsEnterUnseen'
<1>1. Next /\ ~Commit => UNCHANGED commits
  BY DEF Next, Edit, Stage, Branch, Checkout, Reset, Move, Push, Check, SetCaching
<1>2. SecretsEnterUnseen /\ UNCHANGED commits => SecretsEnterUnseen'
  BY DEF SecretsEnterUnseen, Commits, Tree, Blind
<1> QED
  BY <1>1, <1>2, CommitKeepsOut DEF vars

\* The scan of the staged diff keeps .env files out of every commit, and secrets
\* that did not come in where it cannot see.
THEOREM SecretsComeUnseen == Spec => []SecretsEnterUnseen
<1>1. Init => SecretsEnterUnseen
  BY OriginAssumption DEF Init, SecretsEnterUnseen, Commits, Tree, HoldsNoSecret, Blind
<1> QED
  BY <1>1, TypeCorrect, NextKeepsOut, PTL DEF Spec

--------------------------------------------------------------------------------
\* A key that covers what a command reads is one of a worktree that it builds,
\* and the other way round.
LEMMA KeyBuilds ==
    ASSUME NEW g \in Commands, ReadBy[g] \subseteq Inputs[g], NEW ctx, NEW w
    PROVE  Builds(g, KeyOf(g, ctx, w).inputs) <=> Builds(g, w)
<1> DEFINE v == [f \in Inputs[g] |-> w[f]]
<1>1. KeyOf(g, ctx, w).inputs = v
  BY DEF KeyOf, Declared
<1>2. \A f \in ReadBy[g] : v[f] = w[f]
  OBVIOUS
<1>3. \A f \in Parsed(g) : f \in ReadBy[g] /\ Uses[f] \subseteq ReadBy[g]
  BY CommandsAssumption DEF Parsed
<1> HIDE DEF v
<1> QED
  BY <1>1, <1>2, <1>3 DEF Builds

\* The keys that cover what their command reads are keys of what it builds.
KeysBuild ==
    \A k \in cached :
        k.gate \in Commands /\ ReadBy[k.gate] \subseteq Inputs[k.gate] => Builds(k.gate, k.inputs)

\* A command that passes, from the cache or not, builds the worktree.
LEMMA PassedBuilds ==
    ASSUME KeysBuild, NEW g \in Commands, caching => ReadBy[g] \subseteq Inputs[g],
           NEW ctx, NEW w, NEW t, Passed(g, ctx, w, t)
    PROVE  Builds(g, w)
<1>1. CASE Passes(g, ctx, w, t)
  BY <1>1, Zenon DEF Passes, Commands
<1>2. CASE caching /\ KeyOf(g, ctx, w) \in cached
  <2>1. KeyOf(g, ctx, w).gate = g
    BY DEF KeyOf
  <2>2. Builds(g, KeyOf(g, ctx, w).inputs)
    BY <1>2, <2>1 DEF KeysBuild
  <2> QED
    BY <1>2, <2>2, KeyBuilds
<1> QED
  BY <1>1, <1>2 DEF Passed

\* A run stores keys of inputs that its commands have built.
LEMMA StoreKeepsBuild == ASSUME KeysBuild, NEW ctx, StoreKeys(ctx) PROVE KeysBuild'
<1> SUFFICES ASSUME NEW k \in cached', k \notin cached, k.gate \in Commands,
                    ReadBy[k.gate] \subseteq Inputs[k.gate]
             PROVE  Builds(k.gate, k.inputs)
  BY DEF KeysBuild, Builds
<1>1. PICK g : g \in Cacheable /\ k = KeyOf(g, ctx, worktree) /\ Passed(g, ctx, worktree, index)
  BY DEF StoreKeys
<1>2. k.gate = g
  BY <1>1 DEF KeyOf
<1>3. Builds(g, worktree)
  BY <1>1, <1>2, PassedBuilds
<1> QED
  BY <1>1, <1>2, <1>3, KeyBuilds

\* The index is changed by runs only.
LEMMA NextKeepsBuild == KeysBuild /\ [Next]_vars => KeysBuild'
<1> SUFFICES ASSUME KeysBuild, [Next]_vars PROVE KeysBuild'
  OBVIOUS
<1>1. CASE UNCHANGED cached
  BY <1>1 DEF KeysBuild, Builds
<1>2. ASSUME NEW ctx, StoreKeys(ctx) PROVE KeysBuild'
  BY <1>2, StoreKeepsBuild
<1>3. (Commit \/ Push \/ Check) => \E ctx : StoreKeys(ctx)
  BY DEF Commit, Push, Check
<1>4. Next => UNCHANGED cached \/ Commit \/ Push \/ Check
  BY DEF Next, Edit, Stage, Branch, Checkout, Reset, Move, SetCaching
<1> QED
  BY <1>1, <1>2, <1>3, <1>4 DEF vars

--------------------------------------------------------------------------------
\* Over a range that starts at a tree that the gate accepts (or is run in full)
\* and deletes nothing, with its end in the worktree, a run that passes has the
\* gate accept the end.
LEMMA SpdxAccepts ==
    ASSUME NEW s, NEW t, ~caching,
           Relevant(s, t) # {} => Accepts("spdx-headers", s),
           RunPasses(RangeContext(s, t), t, t)
    PROVE  Accepts("spdx-headers", t)
<1> DEFINE changed == Relevant(s, t)
           ctx == RangeContext(s, t)
           sources == RustFiles \cup WorkerTs
<1>1. ctx.relevant = changed /\ (Full(ctx) <=> MustRunFull(changed))
  BY DEF RangeContext, Full
<1>2. \A u : Full(FullContext(u))
  BY DEF Full, FullContext
<1>3. /\ \A c, u : Passes("spdx-headers", c, u, u) = SpdxPasses(c, u, Present(u))
      /\ Watched("spdx-headers") = sources
  BY Zenon DEF Passes, Watched
<1>4. Applies("spdx-headers", ctx) => SpdxPasses(ctx, t, Present(t))
  <2>1. "spdx-headers" \in Gates
    BY DEF Gates
  <2> HIDE DEF ctx
  <2>2. Applies("spdx-headers", ctx) => Passes("spdx-headers", ctx, t, t)
    BY <2>1 DEF RunPasses, Passed, ctx
  <2> QED
    BY <1>3, <2>2
<1>5. ASSUME NEW f \in Present(t) \cap sources
      PROVE  t[f] \notin {"bare", "absent"}
  <2>1. CASE Full(ctx)
    BY <1>4, <2>1 DEF Applies, SpdxPasses
  <2>2. CASE ~Full(ctx) /\ f \in changed
    <3>1. changed \cap Watched("spdx-headers") # {}
      BY <1>3, <2>2
    <3>2. Applies("spdx-headers", ctx)
      BY <1>1, <3>1, Zenon DEF Applies
    <3> QED
      BY <1>1, <1>4, <2>2, <3>2 DEF SpdxPasses
  <2>3. CASE ~Full(ctx) /\ f \notin changed
    <3>1. SpdxPasses(FullContext(s), s, Present(s))
      BY <1>1, <1>3, <2>3 DEF MustRunFull, Accepts
    <3>2. t[f] = s[f]
      BY <2>3, ExcludedAssumption DEF Relevant
    <3>3. f \in Present(s)
      BY <3>2 DEF Present
    <3> QED
      BY <1>2, <3>1, <3>2, <3>3 DEF SpdxPasses
  <2> QED
    BY <2>1, <2>2, <2>3
<1>6. SpdxPasses(FullContext(t), t, Present(t))
  BY <1>2, <1>5 DEF SpdxPasses
<1> QED
  BY <1>3, <1>6 DEF Accepts

\* A command that passes from the cache or by being run, or does not apply, accepts the tree.
LEMMA CommandAccepts ==
    ASSUME KeysBuild, NEW g \in Commands, Trusted(g), NEW s, NEW t,
           Relevant(s, t) # {} => Accepts(g, s),
           Present(s) \subseteq Present(t),
           RunPasses(RangeContext(s, t), t, t)
    PROVE  Accepts(g, t)
<1> DEFINE changed == Relevant(s, t)
           ctx == RangeContext(s, t)
<1>1. /\ ctx.relevant = changed /\ (Full(ctx) <=> MustRunFull(changed))
      /\ ctx.mode \in {"prepush-full", "prepush"}
  BY DEF RangeContext, Full
<1>2. /\ g \in Gates /\ g # "spdx-headers" /\ g # "secrets-scan"
      /\ \A u : Accepts(g, u) <=> Builds(g, u)
  <2>1. g \in Gates /\ g # "spdx-headers" /\ g # "secrets-scan"
    BY DEF Commands
  <2> QED
    BY <2>1, Zenon DEF Accepts, Passes
<1>3. /\ g # "cargo-lock-consistency" => ReadBy[g] \subseteq Watched(g)
      /\ caching => ReadBy[g] \subseteq Inputs[g]
  BY <1>2 DEF Trusted
<1>4. CASE Applies(g, ctx)
  <2>1. Passed(g, ctx, t, t)
    BY <1>2, <1>4 DEF RunPasses
  <2>2. Builds(g, t)
    BY <1>3, <2>1, PassedBuilds
  <2> QED
    BY <1>2, <2>2
<1>5. CASE ~Applies(g, ctx)
  <2>1. ~Full(ctx) /\ ~(g = "cargo-lock-consistency" /\ ctx.mode = "prepush")
    BY <1>5, Zenon DEF Applies
  <2>2. g # "cargo-lock-consistency"
    BY <1>1, <2>1 DEF Full
  <2>3. changed \cap Watched(g) = {}
    <3>1. ~(changed \cap Watched(g) # {} /\ ~(g = "rust-test" /\ ctx.mode = "staged"))
      BY <1>1, <1>5, Zenon DEF Applies
    <3> QED
      BY <1>1, <3>1
  <2>4. Builds(g, s)
    BY <1>1, <1>2, <2>1 DEF MustRunFull
  <2>5. /\ ReadBy[g] \subseteq Files /\ Parsed(g) \subseteq ReadBy[g]
        /\ \A f \in Parsed(g) : Uses[f] \subseteq ReadBy[g]
    BY CommandsAssumption DEF Parsed
  <2>6. ASSUME NEW f \in ReadBy[g] PROVE t[f] = s[f] \/ t[f] = "absent"
    <3>1. f \in Watched(g) /\ f \notin Excluded
      BY <1>2, <1>3, <2>2, ExcludedAssumption DEF Watched, Gates
    <3> QED
      BY <2>3, <2>5, <3>1 DEF Relevant, Present
  <2>7. ASSUME NEW f \in ReadBy[g], s[f] # "absent" PROVE t[f] # "absent"
    BY <2>5, <2>7 DEF Present
  <2>8. ASSUME NEW f \in Parsed(g), t[f] # "absent"
        PROVE  t[f] \notin Refused(g) /\ \A u \in Uses[f] : t[u] # "absent"
    <3>1. t[f] = s[f]
      BY <2>5, <2>6, <2>8
    <3>2. s[f] \notin Refused(g) /\ \A u \in Uses[f] : s[u] # "absent"
      BY <2>4, <2>8, <3>1 DEF Builds
    <3> QED
      BY <2>5, <2>7, <3>1, <3>2
  <2> QED
    BY <1>2, <2>8 DEF Builds
<1> QED
  BY <1>4, <1>5

\* A branch that is pushed alone from its clean checkout, nothing deleted, gets an accepted tree.
LEMMA StepAccepts ==
    ASSUME TypeOK, KeysBuild, [Next]_vars, NEW b \in Branches, NEW g \in OverTrees,
           CheckedPush(b, g), KeepsFiles(b), Trusted(g)
    PROVE  Accepts(g, Tree(remote'[b]))
<1> DEFINE tip == remote'[b]
           start == RangeStart(remote[b], tip)
<1>1. Push
  <2>1. remote' # remote
    BY DEF CheckedPush
  <2> QED
    BY <2>1 DEF Next, vars, Edit, Stage, Commit, Branch, Checkout, Reset, Move, Check, SetCaching
<1>2. /\ remote'[b] \in {remote[b], local[b], 0}
      /\ RunPasses(PushContext(remote'), worktree, index)
  BY <1>1 DEF Push, Updates
<1>3. /\ tip = local[head]
      /\ worktree = Tree(tip) /\ index = Tree(tip)
  BY <1>2 DEF CheckedPush, Clean
<1>4. Sent(remote') = {b}
  BY DEF CheckedPush, Sent
<1>5. FirstSent(remote') = b
  BY <1>4 DEF FirstSent
<1>6. PushContext(remote') = RangeContext(Tree(start), Tree(tip))
  BY <1>4, <1>5 DEF PushContext, Resolve
<1>7. RunPasses(RangeContext(Tree(start), Tree(tip)), Tree(tip), Tree(tip))
  BY <1>2, <1>3, <1>6
<1>8. Relevant(Tree(start), Tree(tip)) # {} => Accepts(g, Tree(start))
  BY DEF CheckedPush, Relevant
<1>9. Present(Tree(start)) \subseteq Present(Tree(tip))
  BY DEF KeepsFiles
<1>10. CASE g = "spdx-headers"
  <2>1. ~caching
    BY <1>10 DEF Trusted
  <2> QED
    BY <1>7, <1>8, <1>10, <2>1, SpdxAccepts
<1>11. CASE g # "spdx-headers"
  <2>1. g \in Commands
    BY <1>11 DEF OverTrees, Commands
  <2> QED
    BY <1>7, <1>8, <1>9, <2>1, CommandAccepts
<1> QED
  BY <1>10, <1>11

\* A scoped run with a cache is as good as a full one without, where nothing is
\* deleted and for the gates whose patterns and keys cover what they read.
THEOREM ScopedRunSuffices == Spec => PushedTreeAccepted
<1> DEFINE A == \A b \in Branches, g \in OverTrees :
                    CheckedPush(b, g) /\ KeepsFiles(b) /\ Trusted(g) => Accepts(g, Tree(remote'[b]))
<1>1. Init => KeysBuild
  BY DEF Init, KeysBuild
<1>2. TypeOK /\ KeysBuild /\ [Next]_vars => A
  BY StepAccepts
<1>3. TypeOK /\ KeysBuild /\ [Next]_vars => [A]_vars
  BY <1>2
<1> QED
  BY <1>1, <1>3, TypeCorrect, NextKeepsBuild, PTL DEF Spec, PushedTreeAccepted

================================================================================
