----------------------------- MODULE QualityRunner -----------------------------
(***************************************************************************)
(* scripts/quality/runner.mjs with cache.mjs and exec.mjs: invocations of  *)
(* the runner (from git hooks or npm run) that share one worktree and     *)
(* one cache index on disk, while somebody edits the worktree.             *)
(*                                                                         *)
(* An invocation is one JavaScript thread: from one await to the next it   *)
(* does not interleave with itself.  It interleaves with the gates it has  *)
(* spawned, with other invocations and with the editor at every access to  *)
(* a file.  A file of the worktree is "good" or "bad"; a gate passes over  *)
(* a tree when every file it reads is good, be it declared as an input or  *)
(* not.  An index entry is a key, since its value is always                *)
(* { passed: true }.                                                       *)
(*                                                                         *)
(* Two variables are history and decide nothing: the invocations that an   *)
(* edit has disturbed, and the keys that such an invocation has stored.    *)
(***************************************************************************)
EXTENDS Integers, FiniteSets

CONSTANTS
    Runs,           \* invocations of the runner
    NumGates,       \* gates are numbered in the order of GATES
    NumWaves,       \* waves, in the order of WAVES
    WaveOf,         \* WaveOf[g] : the wave of g
    Cacheable,      \* the gates with cacheable: true
    Files,          \* files of the worktree
    Declared,       \* Declared[g] : the inputs of g
    ReadBy,         \* ReadBy[g] : the files that the gate's command reads
    Modes,          \* --mode
    Limits,         \* what --concurrency parses to
    NaN,            \* parseInt of something that is not a number
    MaxEdits,       \* bound on the edits
    None            \* no key, no gate

Gates == 1..NumGates
Waves == 1..NumWaves
Tree == [Files -> {"good", "bad"}]

\* Schema version, runtime fingerprint and relevant files do not change.
Key == { [gate |-> g, mode |-> m, inputs |-> t] :
            g \in Cacheable, m \in Modes, t \in UNION { [D -> {"good", "bad"}] : D \in SUBSET Files } }

ASSUME RegistryAssumption ==
    /\ NumGates \in Nat /\ NumWaves \in Nat \ {0}
    /\ WaveOf \in [Gates -> Waves]
    /\ Cacheable \subseteq Gates
    /\ Declared \in [Gates -> SUBSET Files]
    /\ ReadBy \in [Gates -> SUBSET Files]
    /\ None \notin Key
    /\ None \notin Gates

ASSUME LimitsAssumption ==
    /\ NaN \notin Nat
    /\ Limits \subseteq (Nat \ {0}) \cup {NaN}

ASSUME EditsAssumption == MaxEdits \in Nat

VARIABLES
    tree,      \* the worktree
    edits,     \* edits made so far
    index,     \* .aeptus-cache/quality/index.json: its text and its keys
    pc,        \* pc[r] : where the thread of r is
    mode,      \* mode[r] : ctx.mode
    caching,   \* caching[r] : whether cacheDisabled() is false
    applying,  \* applying[r] : the selected gates whose applies(ctx) holds
    limit,     \* limit[r] : concurrencyLimit
    wave,      \* wave[r] : the wave being run
    state,     \* state[r][g] : where the gate is
    key,       \* key[r][g] : the gate's cache key
    current,   \* current[r] : the gate being looked up, or whose pass is being stored
    out,       \* out[r] : the keys that saveIndex is about to write
    code,      \* code[r] : exit code
    disturbed, \* history: the invocations during which the worktree was edited
    tainted    \* history: the keys that such an invocation has stored

runvars == <<mode, caching, applying, limit, wave>>
history == <<disturbed, tainted>>
vars == <<tree, edits, index, pc, runvars, state, key, current, out, code, history>>

--------------------------------------------------------------------------------
Passes(g, t) == \A f \in ReadBy[g] : t[f] = "good"

\* Mutant: the key leaves the contents of the inputs out.
KeyWithoutContents(g, m) ==
    [gate |-> g, mode |-> m, inputs |-> [f \in Declared[g] |-> "good"]]

\* computeCacheKey.
KeyOf(g, m) == [gate |-> g, mode |-> m, inputs |-> [f \in Declared[g] |-> tree[f]]]

\* loadIndex: no file, or one that does not parse, is an empty index.
LoadIndex == IF index.text = "json" THEN index.keys ELSE {}

Busy == {"keyed", "running", "sound", "unsound"}
Finished == {"pass", "fail"}

InWave(r) == { g \in applying[r] : WaveOf[g] = wave[r] }

\* Launched and not yet settled: the gate being looked up or stored is one of them.
Active(r) == { g \in InWave(r) : state[r][g] \in Busy }

Exit(r, c) == pc' = [pc EXCEPT ![r] = "exited"] /\ code' = [code EXCEPT ![r] = c]

--------------------------------------------------------------------------------
Init ==
    /\ tree \in Tree
    /\ edits = 0
    /\ index = [text |-> "empty", keys |-> {}]
    /\ pc = [r \in Runs |-> "new"]
    /\ mode \in [Runs -> Modes]
    /\ caching \in [Runs -> BOOLEAN]
    /\ applying = [r \in Runs |-> {}]
    /\ limit = [r \in Runs |-> 1]
    /\ wave = [r \in Runs |-> 1]
    /\ state = [r \in Runs |-> [g \in Gates |-> "waiting"]]
    /\ key = [r \in Runs |-> [g \in Gates |-> None]]
    /\ current = [r \in Runs |-> None]
    /\ out = [r \in Runs |-> {}]
    /\ code = [r \in Runs |-> 0]
    /\ disturbed = {}
    /\ tainted = {}

\* Unknown mode, invalid registry, dirty worktree under a pre-push without a
\* terminal, or no gate selected (2 stands for 2, 3 and 4); and --cache-status,
\* or --cache-clear without an index (0).
Refuse(r) ==
    /\ pc[r] = "new"
    /\ \E c \in {0, 2} : Exit(r, c)
    /\ UNCHANGED <<tree, edits, index, runvars, state, key, current, out, history>>

\* The options and the context decide which gates run, and how many at once.
Start(r) ==
    /\ pc[r] = "new"
    /\ \E gs \in SUBSET Gates, n \in Limits :
        /\ applying' = [applying EXCEPT ![r] = gs]
        /\ limit' = [limit EXCEPT ![r] = n]
    /\ pc' = [pc EXCEPT ![r] = "wave"]
    /\ UNCHANGED <<tree, edits, index, mode, caching, wave, state, key, current, out, code, history>>

\* --cache-clear, over an index that exists.
StartClear(r) ==
    /\ pc[r] = "new"
    /\ pc' = [pc EXCEPT ![r] = "save"]
    /\ UNCHANGED <<tree, edits, index, runvars, state, key, current, out, code, history>>

\* A slot is free and g is next in line.  (NaN is below and above nothing.)
CanLaunch(r, g) ==
    /\ pc[r] = "wave"
    /\ g \in InWave(r)
    /\ state[r][g] = "waiting"
    /\ \A h \in InWave(r) : h < g => state[r][h] # "waiting"
    /\ limit[r] # NaN
    /\ Cardinality(Active(r)) < limit[r]

Keyed(r, g) == g \in Cacheable /\ caching[r]

\* The runner's callback without a key: the gate starts.
Launch(r, g) ==
    /\ CanLaunch(r, g)
    /\ ~Keyed(r, g)
    /\ state' = [state EXCEPT ![r][g] = "running"]
    /\ UNCHANGED <<tree, edits, index, pc, runvars, key, current, out, code, history>>

\* With a key, the callback reads the inputs ...  (In one step: an edit between
\* two of them disturbs the invocation like one behind them.)
HashInputs(r, g) ==
    /\ CanLaunch(r, g)
    /\ Keyed(r, g)
    /\ key' = [key EXCEPT ![r][g] = KeyOf(g, mode[r])]
    /\ state' = [state EXCEPT ![r][g] = "keyed"]
    /\ current' = [current EXCEPT ![r] = g]
    /\ pc' = [pc EXCEPT ![r] = "lookup"]
    /\ UNCHANGED <<tree, edits, index, runvars, out, code, history>>

\* ... and then the index; on a miss the gate starts.
LookUp(r) ==
    /\ pc[r] = "lookup"
    /\ LET g == current[r] IN
        state' = [state EXCEPT ![r][g] = IF key[r][g] \in LoadIndex THEN "pass" ELSE "running"]
    /\ current' = [current EXCEPT ![r] = None]
    /\ pc' = [pc EXCEPT ![r] = "wave"]
    /\ UNCHANGED <<tree, edits, index, runvars, key, out, code, history>>

\* The gate's process reads the tree; nobody needs its runner for that.
GateReads(r, g) ==
    /\ state[r][g] = "running"
    /\ state' = [state EXCEPT ![r][g] = IF Passes(g, tree) THEN "sound" ELSE "unsound"]
    /\ UNCHANGED <<tree, edits, index, pc, runvars, key, current, out, code, history>>

\* Exit code other than 0, timeout with SIGKILL, or a spawn error.
GateFails(r, g) ==
    /\ pc[r] = "wave"
    /\ state[r][g] \in Busy
    /\ state' = [state EXCEPT ![r][g] = "fail"]
    /\ UNCHANGED <<tree, edits, index, pc, runvars, key, current, out, code, history>>

\* Exit code 0 and nothing to store.
GatePasses(r, g) ==
    /\ pc[r] = "wave"
    /\ state[r][g] = "sound"
    /\ key[r][g] = None
    /\ state' = [state EXCEPT ![r][g] = "pass"]
    /\ UNCHANGED <<tree, edits, index, pc, runvars, key, current, out, code, history>>

Taint(r, k) ==
    /\ tainted' = tainted \cup IF r \in disturbed THEN {k} ELSE {}
    /\ UNCHANGED disturbed

\* Mutant: whatever the gate says is stored.
StoreAnyVerdict(r, g) ==
    /\ pc[r] = "wave"
    /\ state[r][g] \in {"sound", "unsound"}
    /\ key[r][g] # None
    /\ current' = [current EXCEPT ![r] = g]
    /\ out' = [out EXCEPT ![r] = LoadIndex \cup {key[r][g]}]
    /\ pc' = [pc EXCEPT ![r] = "save"]
    /\ Taint(r, key[r][g])
    /\ UNCHANGED <<tree, edits, index, runvars, state, key, code>>

\* Exit code 0: storeCache reads the index and adds the key to what it read.
StoreLoads(r, g) ==
    /\ pc[r] = "wave"
    /\ state[r][g] = "sound"
    /\ key[r][g] # None
    /\ current' = [current EXCEPT ![r] = g]
    /\ out' = [out EXCEPT ![r] = LoadIndex \cup {key[r][g]}]
    /\ pc' = [pc EXCEPT ![r] = "save"]
    /\ Taint(r, key[r][g])
    /\ UNCHANGED <<tree, edits, index, runvars, state, key, code>>

\* writeFileSync opens the index and truncates it ...
SaveTruncates(r) ==
    /\ pc[r] = "save"
    /\ index' = [text |-> "empty", keys |-> {}]
    /\ pc' = [pc EXCEPT ![r] = "write"]
    /\ UNCHANGED <<tree, edits, runvars, state, key, current, out, code, history>>

\* ... and writes.  What another runner wrote since is overwritten: all of it,
\* or its beginning when it was longer.
SaveWrites(r) ==
    /\ pc[r] = "write"
    /\ \/ index' = [text |-> "json", keys |-> out[r]]
       \/ /\ index.text # "empty"
          /\ index' = [text |-> "garbage", keys |-> {}]
    /\ out' = [out EXCEPT ![r] = {}]
    /\ current' = [current EXCEPT ![r] = None]
    /\ IF current[r] = None
       THEN Exit(r, 0) /\ UNCHANGED state   \* cache-clear
       ELSE /\ pc' = [pc EXCEPT ![r] = "wave"]
            /\ state' = [state EXCEPT ![r][current[r]] = "pass"]
            /\ UNCHANGED code
    /\ UNCHANGED <<tree, edits, runvars, key, history>>

WaveDone(r) ==
    /\ pc[r] = "wave"
    /\ \A g \in InWave(r) : state[r][g] \in Finished

WaveFailed(r) == \E g \in InWave(r) : state[r][g] = "fail"

\* Mutant: a wave that has failed is run again.
RetryWave(r) ==
    /\ WaveDone(r)
    /\ WaveFailed(r)
    /\ state' = [state EXCEPT ![r] = [g \in Gates |-> IF g \in InWave(r) THEN "waiting" ELSE @[g]]]
    /\ UNCHANGED <<tree, edits, index, pc, runvars, key, current, out, code, history>>

\* Every gate of the wave has settled and one has failed: main returns 1.
AbortAfterWave(r) ==
    /\ WaveDone(r)
    /\ WaveFailed(r)
    /\ Exit(r, 1)
    /\ UNCHANGED <<tree, edits, index, runvars, state, key, current, out, history>>

\* Mutant: a failed gate does not stop the waves.
NextWaveAnyway(r) ==
    /\ WaveDone(r)
    /\ wave[r] < NumWaves
    /\ wave' = [wave EXCEPT ![r] = @ + 1]
    /\ UNCHANGED <<tree, edits, index, pc, mode, caching, applying, limit, state, key, current, out, code, history>>

NextWave(r) ==
    /\ WaveDone(r)
    /\ ~WaveFailed(r)
    /\ wave[r] < NumWaves
    /\ wave' = [wave EXCEPT ![r] = @ + 1]
    /\ UNCHANGED <<tree, edits, index, pc, mode, caching, applying, limit, state, key, current, out, code, history>>

\* Mutant: the last wave's failures are not looked at.
FinishAnyway(r) ==
    /\ WaveDone(r)
    /\ wave[r] = NumWaves
    /\ Exit(r, 0)
    /\ UNCHANGED <<tree, edits, index, runvars, state, key, current, out, history>>

Finish(r) ==
    /\ WaveDone(r)
    /\ ~WaveFailed(r)
    /\ wave[r] = NumWaves
    /\ Exit(r, 0)
    /\ UNCHANGED <<tree, edits, index, runvars, state, key, current, out, history>>

\* Nothing is launched and nothing can be: the promise of runConcurrent never
\* settles, the event loop is empty, and node ends the process with code 0.
LoopDrains(r) ==
    /\ pc[r] = "wave"
    /\ limit[r] = NaN
    /\ InWave(r) # {}
    /\ Exit(r, 0)
    /\ UNCHANGED <<tree, edits, index, runvars, state, key, current, out, history>>

AtWork(r) == pc[r] \in {"wave", "lookup", "save", "write"}

\* A signal or an exception, at any moment.  An exception in the runner's
\* callback is caught nowhere and node leaves with 1; the code 99 of main's own
\* and that of a signal are the same to git, and 1 stands for them.
Crash(r) ==
    /\ AtWork(r)
    /\ Exit(r, 1)
    /\ current' = [current EXCEPT ![r] = None]
    /\ out' = [out EXCEPT ![r] = {}]
    /\ UNCHANGED <<tree, edits, index, runvars, state, key, history>>

\* Somebody saves a file.
Edit ==
    /\ edits < MaxEdits
    /\ edits' = edits + 1
    /\ \E f \in Files, v \in {"good", "bad"} : tree[f] # v /\ tree' = [tree EXCEPT ![f] = v]
    /\ disturbed' = disturbed \cup { r \in Runs : AtWork(r) }
    /\ UNCHANGED <<index, pc, runvars, state, key, current, out, code, tainted>>

\* The steps of a thread that is not waiting for a gate.
RunnerStep(r) ==
    \/ Refuse(r) \/ Start(r) \/ StartClear(r)
    \/ \E g \in Gates : Launch(r, g) \/ HashInputs(r, g)
    \/ LookUp(r)
    \/ SaveTruncates(r) \/ SaveWrites(r)
    \/ AbortAfterWave(r) \/ NextWave(r) \/ Finish(r) \/ LoopDrains(r)

\* A gate's process, and the runner's continuation when it closes.
GateStep(r) ==
    \E g \in Gates : GateReads(r, g) \/ GateFails(r, g) \/ GatePasses(r, g) \/ StoreLoads(r, g)

Terminated ==
    /\ \A r \in Runs : pc[r] = "exited"
    /\ UNCHANGED vars

Next ==
    \/ \E r \in Runs : RunnerStep(r) \/ GateStep(r) \/ Crash(r)
    \/ Edit
    \/ Terminated

Spec == Init /\ [][Next]_vars

\* The event loop serves what is ready.  Nothing is asked of a gate: runCmd kills
\* the command when its time is up, but a process that the command has left
\* behind may keep the pipes open, and 'close' never comes (see ExecCmd).
FairSpec ==
    /\ Spec
    /\ \A r \in Runs : WF_vars(RunnerStep(r))

--------------------------------------------------------------------------------
TypeOK ==
    /\ tree \in Tree
    /\ edits \in 0..MaxEdits
    /\ index.text \in {"empty", "json", "garbage"}
    /\ index.keys \subseteq Key
    /\ pc \in [Runs -> {"new", "wave", "lookup", "save", "write", "exited"}]
    /\ mode \in [Runs -> Modes]
    /\ caching \in [Runs -> BOOLEAN]
    /\ applying \in [Runs -> SUBSET Gates]
    /\ limit \in [Runs -> Limits \cup {1}]
    /\ wave \in [Runs -> Waves]
    /\ state \in [Runs -> [Gates -> {"waiting"} \cup Busy \cup Finished]]
    /\ key \in [Runs -> [Gates -> Key \cup {None}]]
    /\ current \in [Runs -> Gates \cup {None}]
    /\ out \in [Runs -> SUBSET Key]
    /\ code \in [Runs -> {0, 1, 2}]
    /\ disturbed \subseteq Runs
    /\ tainted \subseteq Key

\* "Waves run in order; fail fast": a gate starts only when every gate of an
\* earlier wave has passed, and no more run at once than --concurrency allows.
WavesInOrder ==
    \A r \in Runs :
        /\ Cardinality(Active(r)) <= limit[r]
        /\ \A g, h \in applying[r] :
            WaveOf[g] < WaveOf[h] /\ state[r][h] # "waiting" => state[r][g] = "pass"

\* An exit code of 0, the one that lets git commit or push, means that every
\* gate that applies has passed, whatever has failed, timed out or thrown.
ExitCodeHonest ==
    \A r \in Runs : pc[r] = "exited" /\ code[r] = 0 =>
        \A g \in applying[r] : state[r][g] = "pass"

\* Every file the gate reads is in the key, with contents the gate accepts.
SoundKey(k) == \A f \in ReadBy[k.gate] : f \in DOMAIN k.inputs /\ k.inputs[f] = "good"

\* The registry declares every file that the gate reads.
Covered(g) == ReadBy[g] \subseteq Declared[g]

\* Whatever invocations, edits, crashes and torn writes of the index are
\* interleaved, a lookup finds for a gate that declares what it reads only keys
\* over whose inputs it passes, but for those that a disturbed invocation stored.
CacheSound ==
    \A k \in LoadIndex : Covered(k.gate) /\ k \notin tainted => SoundKey(k)

\* r has run g, or its key has everything that g reads and no edit behind it.
Vouched(r, g) == key[r][g] = None \/ (Covered(g) /\ key[r][g] \notin tainted)

\* When an invocation that no edit has disturbed exits with 0, the worktree
\* passes every gate that applied and is vouched for, cached or not.
ExitZeroMeansTreePasses ==
    [][\A r \in Runs \ disturbed : pc[r] # "exited" /\ pc'[r] = "exited" /\ code'[r] = 0
            => \A g \in applying[r] : Vouched(r, g) => Passes(g, tree)]_vars

\* "Never use a cache entry unless every meaningful input is in the key"
\* (cache.mjs): without an edit during a run, an exit with 0 means that the
\* worktree passes every gate that applied, whatever the registry declares.
EveryExitZeroEarned ==
    [][\A r \in Runs : disturbed = {} /\ pc[r] # "exited" /\ pc'[r] = "exited" /\ code'[r] = 0
            => \A g \in applying[r] : Passes(g, tree)]_vars

\* The pool never stalls and no wave is run for ever: every invocation ends,
\* unless one of its gates is never closed.
EveryRunExits ==
    \A r \in Runs : <>(pc[r] = "exited") \/ \E g \in Gates : <>[](state[r][g] \in Busy)

================================================================================
