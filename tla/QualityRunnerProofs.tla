-------------------------- MODULE QualityRunnerProofs -------------------------
(***************************************************************************)
(* For every number of invocations, gates and waves: a gate waits for the  *)
(* waves before it, an exit code of 0 is honest when --concurrency is a    *)
(* number, and the cache vouches only for trees that pass, for the gates   *)
(* that declare what they read and the invocations that no edit disturbs.  *)
(* And of each command that a gate runs: it gets one verdict and leaves    *)
(* nothing behind.                                                         *)
(***************************************************************************)
EXTENDS QualityRunner, ExecCmd, FiniteSetTheorems, TLAPS

Steps(r) == RunnerStep(r) \/ GateStep(r) \/ Crash(r)

States == {"waiting"} \cup Busy \cup Finished

--------------------------------------------------------------------------------
(* Types. *)

\* The key of a cacheable gate is a key.
LEMMA KeyTyped ==
    ASSUME TypeOK, NEW g \in Cacheable, NEW m \in Modes
    PROVE  KeyOf(g, m) \in Key
<1>1. Declared[g] \in SUBSET Files
  BY RegistryAssumption
<1>2. [f \in Declared[g] |-> tree[f]] \in [Declared[g] -> {"good", "bad"}]
  BY <1>1 DEF TypeOK, Tree
<1>3. [f \in Declared[g] |-> tree[f]] \in UNION { [D -> {"good", "bad"}] : D \in SUBSET Files }
  BY <1>1, <1>2
<1> DEFINE t == [f \in Declared[g] |-> tree[f]]
           U == UNION { [D -> {"good", "bad"}] : D \in SUBSET Files }
<1>4. KeyOf(g, m) = [gate |-> g, mode |-> m, inputs |-> t] /\ t \in U
  BY <1>3 DEF KeyOf
<1>5. Key = { [gate |-> h, mode |-> n, inputs |-> u] : h \in Cacheable, n \in Modes, u \in U }
  BY DEF Key
<1> HIDE DEF t, U
<1>6. QED
  BY <1>4, <1>5

\* What a lookup sees of the index is keys.
LEMMA IndexTyped == ASSUME TypeOK PROVE LoadIndex \subseteq Key
BY DEF TypeOK, LoadIndex

\* The first state has the types.
LEMMA TypesStart == Init => TypeOK
<1> SUFFICES ASSUME Init PROVE TypeOK
  OBVIOUS
<1>1. caching \in [Runs -> BOOLEAN] /\ tree \in Tree
  BY Zenon DEF Init
<1>2. 0 \in 0..MaxEdits
  BY EditsAssumption
<1>3. wave \in [Runs -> Waves]
  BY RegistryAssumption DEF Init, Waves
<1>4. QED
  BY <1>1, <1>2, <1>3 DEF Init, TypeOK

\* Every step of an invocation keeps the types.
LEMMA RunKeepsTypes ==
    ASSUME TypeOK, NEW r \in Runs, Steps(r)
    PROVE  TypeOK'
<1>1. CASE Refuse(r)
  BY <1>1 DEF Refuse, Exit, runvars, history, TypeOK
<1>2. CASE Start(r)
  BY <1>2 DEF Start, history, TypeOK
<1>3. CASE StartClear(r)
  BY <1>3 DEF StartClear, runvars, history, TypeOK
<1>4. ASSUME NEW g \in Gates, Launch(r, g)
      PROVE  TypeOK'
  <2>1. state' \in [Runs -> [Gates -> {"waiting"} \cup Busy \cup Finished]]
    BY <1>4 DEF Launch, TypeOK, Busy
  <2>2. QED
    BY <1>4, <2>1 DEF Launch, runvars, history, TypeOK
<1>4a. ASSUME NEW g \in Gates, HashInputs(r, g)
       PROVE  TypeOK'
  <2>1. KeyOf(g, mode[r]) \in Key
    BY <1>4a, KeyTyped DEF HashInputs, Keyed, TypeOK
  <2>2. key' \in [Runs -> [Gates -> Key \cup {None}]]
    BY <1>4a, <2>1 DEF HashInputs, TypeOK
  <2>3. state' \in [Runs -> [Gates -> {"waiting"} \cup Busy \cup Finished]]
    BY <1>4a DEF HashInputs, TypeOK, Busy
  <2>4. QED
    BY <1>4a, <2>2, <2>3 DEF HashInputs, runvars, history, TypeOK
<1>4b. CASE LookUp(r)
  <2>1. PICK v \in {"pass", "running"} : state' = [state EXCEPT ![r][current[r]] = v]
    BY <1>4b DEF LookUp
  <2>2. state' \in [Runs -> [Gates -> {"waiting"} \cup Busy \cup Finished]]
    BY <2>1 DEF TypeOK, Busy, Finished
  <2>3. QED
    BY <1>4b, <2>2 DEF LookUp, runvars, history, TypeOK
<1>5. CASE SaveTruncates(r)
  <2>1. index'.text \in {"empty", "json", "garbage"} /\ index'.keys \subseteq Key
    BY <1>5 DEF SaveTruncates
  <2>2. QED
    BY <1>5, <2>1 DEF SaveTruncates, runvars, history, TypeOK
<1>6. CASE SaveWrites(r)
  <2>1. index'.text \in {"empty", "json", "garbage"} /\ index'.keys \subseteq Key
    BY <1>6 DEF SaveWrites, TypeOK
  <2>2. /\ pc' \in [Runs -> {"new", "wave", "lookup", "save", "write", "exited"}]
        /\ code' \in [Runs -> {0, 1, 2}]
    BY <1>6 DEF SaveWrites, Exit, TypeOK
  <2>3. state' \in [Runs -> [Gates -> {"waiting"} \cup Busy \cup Finished]]
    <3>1. CASE current[r] = None
      BY <1>6, <3>1 DEF SaveWrites, TypeOK
    <3>2. CASE current[r] # None
      <4>1. /\ current[r] \in Gates /\ "pass" \in Finished
            /\ state' = [state EXCEPT ![r][current[r]] = "pass"]
        BY <1>6, <3>2 DEF SaveWrites, TypeOK, Finished
      <4>2. QED
        BY <4>1 DEF TypeOK
    <3>3. QED
      BY <3>1, <3>2
  <2>4. /\ current' \in [Runs -> Gates \cup {None}]
        /\ out' \in [Runs -> SUBSET Key]
    BY <1>6 DEF SaveWrites, TypeOK
  <2>5. QED
    BY <1>6, <2>1, <2>2, <2>3, <2>4 DEF SaveWrites, runvars, history, TypeOK
<1>7. CASE AbortAfterWave(r) \/ Finish(r) \/ LoopDrains(r)
  BY <1>7 DEF AbortAfterWave, Finish, LoopDrains, Exit, runvars, history, TypeOK
<1>8. CASE NextWave(r)
  <2>1. wave[r] + 1 \in Waves
    BY <1>8, RegistryAssumption DEF NextWave, TypeOK, Waves
  <2>2. wave' \in [Runs -> Waves]
    BY <1>8, <2>1 DEF NextWave, TypeOK
  <2>3. QED
    BY <1>8, <2>2 DEF NextWave, history, TypeOK
<1>9. ASSUME NEW g \in Gates, GateReads(r, g) \/ GateFails(r, g) \/ GatePasses(r, g)
      PROVE  TypeOK'
  <2>1. PICK s \in Busy \cup Finished : state' = [state EXCEPT ![r][g] = s]
    BY <1>9 DEF GateReads, GateFails, GatePasses, Busy, Finished
  <2>2. state' \in [Runs -> [Gates -> {"waiting"} \cup Busy \cup Finished]]
    BY <2>1 DEF TypeOK
  <2>3. QED
    BY <1>9, <2>2 DEF GateReads, GateFails, GatePasses, runvars, history, TypeOK
<1>10. ASSUME NEW g \in Gates, StoreLoads(r, g)
       PROVE  TypeOK'
  <2>1. LoadIndex \cup {key[r][g]} \subseteq Key
    BY <1>10, IndexTyped DEF StoreLoads, TypeOK
  <2>2. tainted' \subseteq Key /\ disturbed' = disturbed
    BY <1>10 DEF StoreLoads, Taint, TypeOK
  <2>3. QED
    BY <1>10, <2>1, <2>2 DEF StoreLoads, runvars, TypeOK
<1>11. CASE Crash(r)
  BY <1>11 DEF Crash, AtWork, Exit, runvars, history, TypeOK
<1>12. QED
  BY <1>1, <1>2, <1>3, <1>4, <1>4a, <1>4b, <1>5, <1>6, <1>7, <1>8, <1>9, <1>10, <1>11
     DEF Steps, RunnerStep, GateStep

\* So does an edit.
LEMMA EditKeepsTypes == ASSUME TypeOK, Edit PROVE TypeOK'
<1>1. edits' \in 0..MaxEdits
  BY EditsAssumption DEF Edit, TypeOK
<1>2. tree' \in Tree
  BY DEF Edit, TypeOK, Tree
<1>3. QED
  BY <1>1, <1>2 DEF Edit, runvars, history, TypeOK

\* Worktree, index and invocations stay in their types, crashes and torn writes
\* of the index included.
THEOREM RunnerTypeCorrect == Spec => []TypeOK
<1>1. TypeOK /\ [Next]_vars => TypeOK'
  <2> SUFFICES ASSUME TypeOK, [Next]_vars PROVE TypeOK'
    OBVIOUS
  <2>1. CASE UNCHANGED vars
    BY <2>1 DEF vars, runvars, history, TypeOK
  <2>2. QED
    BY <2>1, RunKeepsTypes, EditKeepsTypes DEF Next, Terminated, Steps
<1>2. QED
  BY <1>1, TypesStart, PTL DEF Spec

--------------------------------------------------------------------------------
(* The order of the waves. *)

View(s) == <<pc[s], mode[s], caching[s], applying[s], limit[s], wave[s],
             state[s], key[s], current[s], out[s], code[s]>>

\* An invocation writes its own state and the index, nothing else.
LEMMA OthersKept ==
    ASSUME TypeOK, NEW r \in Runs, NEW s \in Runs, s # r, Steps(r)
    PROVE  View(s)' = View(s)
<1>1. CASE Refuse(r) \/ Start(r) \/ StartClear(r)
  BY <1>1 DEF Refuse, Start, StartClear, Exit, runvars, View, TypeOK
<1>2. CASE (\E g \in Gates : Launch(r, g) \/ HashInputs(r, g)) \/ LookUp(r)
  BY <1>2 DEF Launch, HashInputs, LookUp, runvars, View, TypeOK
<1>3. CASE SaveTruncates(r) \/ SaveWrites(r)
  BY <1>3 DEF SaveTruncates, SaveWrites, Exit, runvars, View, TypeOK
<1>4. CASE AbortAfterWave(r) \/ NextWave(r) \/ Finish(r) \/ LoopDrains(r)
  BY <1>4 DEF AbortAfterWave, NextWave, Finish, LoopDrains, Exit, runvars, View, TypeOK
<1>5. CASE GateStep(r)
  BY <1>5 DEF GateStep, GateReads, GateFails, GatePasses, StoreLoads, runvars, View, TypeOK
<1>6. CASE Crash(r)
  BY <1>6 DEF Crash, Exit, runvars, View, TypeOK
<1>7. QED
  BY <1>1, <1>2, <1>3, <1>4, <1>5, <1>6 DEF Steps, RunnerStep

\* An invocation does not write to the worktree, and no key is untainted again.
LEMMA WorktreeKept ==
    ASSUME NEW r \in Runs, Steps(r)
    PROVE  tree' = tree /\ edits' = edits /\ disturbed' = disturbed /\ tainted \subseteq tainted'
BY DEF Steps, RunnerStep, GateStep, Refuse, Start, StartClear, Launch, HashInputs, LookUp,
       SaveTruncates, SaveWrites, AbortAfterWave, NextWave, Finish, LoopDrains, GateReads,
       GateFails, GatePasses, StoreLoads, Taint, Crash, history

\* What an invocation that has not started, one that looks up a key, one that
\* writes the index and one whose wave is under way look like.
Fresh(r) ==
    /\ applying[r] = {} /\ wave[r] = 1 /\ current[r] = None
    /\ \A g \in Gates : state[r][g] = "waiting" /\ key[r][g] = None

LooksUp(r) == current[r] # None /\ state[r][current[r]] = "keyed" /\ key[r][current[r]] # None

WritesIndex(r) == IF current[r] = None THEN applying[r] = {} ELSE state[r][current[r]] = "sound"

InOrder(r) ==
    \A g \in applying[r] :
        /\ WaveOf[g] < wave[r] => state[r][g] = "pass"
        /\ WaveOf[g] > wave[r] => state[r][g] = "waiting"

WithinLimit(r) == limit[r] \in Nat => Cardinality(Active(r)) <= limit[r]

Honest(r) == pc[r] = "exited" /\ code[r] = 0 => \A g \in applying[r] : state[r][g] = "pass"

OrderInv(r) ==
    /\ pc[r] = "new" => Fresh(r)
    /\ pc[r] = "lookup" => LooksUp(r)
    /\ pc[r] \in {"save", "write"} => WritesIndex(r)
    /\ InOrder(r)
    /\ WithinLimit(r)
    /\ NaN \notin Limits => limit[r] \in Nat /\ Honest(r)

\* The gates at work are finitely many.
LEMMA ActiveIs ==
    ASSUME TypeOK, NEW r \in Runs
    PROVE  /\ Active(r) \subseteq Gates /\ IsFiniteSet(Active(r))
           /\ Cardinality(Active(r)) \in Nat
<1>1. Active(r) \subseteq Gates
  BY DEF TypeOK, Active, InWave
<1>2. IsFiniteSet(Gates)
  BY RegistryAssumption, FS_Interval DEF Gates
<1>3. IsFiniteSet(Active(r))
  BY <1>1, <1>2, FS_Subset
<1>4. QED
  BY <1>1, <1>3, FS_CardinalityType

\* A step after which no more gates are at work keeps the limit.
LEMMA LimitKept ==
    ASSUME TypeOK, NEW r \in Runs, WithinLimit(r), Active(r)' \subseteq Active(r), limit'[r] = limit[r]
    PROVE  WithinLimit(r)'
<1>1. Cardinality(Active(r)') <= Cardinality(Active(r)) /\ Cardinality(Active(r)') \in Nat
  BY ActiveIs, FS_Subset, FS_CardinalityType
<1>2. Cardinality(Active(r)) \in Nat
  BY ActiveIs
<1>3. QED
  BY <1>1, <1>2 DEF WithinLimit

\* One gate moves to another state.
LEMMA GateMoves ==
    ASSUME TypeOK, NEW r \in Runs, NEW g \in Gates, NEW v, state' = [state EXCEPT ![r][g] = v]
    PROVE  /\ state'[r][g] = v
           /\ \A h \in Gates : h # g => state'[r][h] = state[r][h]
BY DEF TypeOK

\* An invocation exits, its gates as they are.
LEMMA ExitKeepsOrder ==
    ASSUME TypeOK, NEW r \in Runs, OrderInv(r), NEW c \in {0, 1, 2}, Exit(r, c),
           state' = state, applying' = applying, wave' = wave, limit' = limit,
           c = 0 /\ NaN \notin Limits => \A g \in applying[r] : state[r][g] = "pass"
    PROVE  OrderInv(r)'
<1>1. pc'[r] = "exited" /\ code'[r] = c
  BY DEF Exit, TypeOK
<1>2. WithinLimit(r)'
  <2>1. Active(r)' = Active(r)
    BY DEF Active, InWave
  <2>2. QED
    BY <2>1, LimitKept DEF OrderInv
<1>3. InOrder(r)'
  BY DEF OrderInv, InOrder
<1>4. QED
  BY <1>1, <1>2, <1>3 DEF OrderInv, Honest

\* A gate of the wave settles, reads the tree, or is taken up by the cache.
LEMMA GateKeepsOrder ==
    ASSUME TypeOK, NEW r \in Runs, OrderInv(r), NEW g \in Gates, NEW v \in Busy \cup Finished,
           state' = [state EXCEPT ![r][g] = v],
           state[r][g] \in Busy,
           state[r][g] = "running" \/ pc[r] = "wave",
           UNCHANGED <<pc, applying, wave, limit, key, current, code>>
    PROVE  OrderInv(r)'
<1>1. /\ state'[r][g] = v /\ v # "waiting"
      /\ \A h \in Gates : h # g => state'[r][h] = state[r][h]
  BY GateMoves DEF Busy, Finished
<1>2. state[r][g] \notin {"waiting", "pass"} /\ applying[r] \subseteq Gates
  BY DEF Busy, TypeOK
<1>3. InOrder(r)'
  BY <1>1, <1>2 DEF OrderInv, InOrder
<1>4. WithinLimit(r)'
  <2>1. Active(r)' \subseteq Active(r)
    BY <1>1, <1>2 DEF Active, InWave
  <2>2. QED
    BY <2>1, LimitKept DEF OrderInv
<1>5. pc[r] # "new"
  BY <1>2 DEF OrderInv, Fresh
<1>6. pc[r] \in {"save", "write"} => WritesIndex(r)'
  <2>1. SUFFICES ASSUME pc[r] \in {"save", "write"}, current[r] # None PROVE state'[r][current[r]] = "sound"
    BY DEF OrderInv, WritesIndex
  <2>2. current[r] \in Gates /\ state[r][current[r]] = "sound" /\ state[r][g] = "running"
    BY <2>1 DEF OrderInv, WritesIndex, TypeOK
  <2>3. QED
    BY <1>1, <2>2
<1>7. pc[r] = "lookup" => LooksUp(r)'
  <2>1. SUFFICES ASSUME pc[r] = "lookup" PROVE state'[r][current[r]] = "keyed"
    BY DEF OrderInv, LooksUp
  <2>2. current[r] \in Gates /\ state[r][current[r]] = "keyed" /\ state[r][g] = "running"
    BY <2>1 DEF OrderInv, LooksUp, TypeOK
  <2>3. QED
    BY <1>1, <2>2
<1>8. Honest(r) => Honest(r)'
  BY <1>1, <1>2 DEF Honest
<1>9. QED
  BY <1>3, <1>4, <1>5, <1>6, <1>7, <1>8 DEF OrderInv

\* A gate takes a free slot.
LEMMA LaunchKeepsOrder ==
    ASSUME TypeOK, NEW r \in Runs, OrderInv(r), NEW g \in Gates, CanLaunch(r, g),
           NEW v \in {"keyed", "running"}, state' = [state EXCEPT ![r][g] = v],
           UNCHANGED <<applying, limit, wave>>
    PROVE  /\ state'[r][g] = v /\ limit'[r] \in Nat
           /\ InOrder(r)' /\ WithinLimit(r)'
<1>0. /\ applying[r] \subseteq Gates
      /\ \A h \in Gates : WaveOf[h] \in Nat
  BY RegistryAssumption DEF TypeOK, Waves
<1>1. /\ state[r][g] = "waiting" /\ g \in InWave(r)
      /\ limit[r] \in Nat /\ Cardinality(Active(r)) < limit[r]
  <2>1. limit[r] \in Limits \cup {1} /\ limit[r] # NaN
    BY DEF CanLaunch, TypeOK
  <2>2. limit[r] \in Nat
    <3>1. 1 \in Nat
      OBVIOUS
    <3>2. QED
      BY <2>1, <3>1, LimitsAssumption, Zenon
  <2>3. QED
    BY <2>2 DEF CanLaunch
<1>2. /\ state'[r][g] = v
      /\ \A h \in Gates : h # g => state'[r][h] = state[r][h]
  BY GateMoves
<1>3. InOrder(r)'
  BY <1>0, <1>1, <1>2 DEF InOrder, InWave, OrderInv
<1>4. Active(r)' \subseteq Active(r) \cup {g}
  BY <1>0, <1>1, <1>2 DEF Active, InWave
<1>5. Cardinality(Active(r)') <= limit'[r]
  <2>1. /\ IsFiniteSet(Active(r) \cup {g})
        /\ Cardinality(Active(r) \cup {g}) <= Cardinality(Active(r)) + 1
    <3>1. IsFiniteSet(Active(r)) /\ Cardinality(Active(r)) \in Nat
      BY ActiveIs
    <3>2. /\ IsFiniteSet(Active(r) \cup {g})
          /\ Cardinality(Active(r) \cup {g}) =
                IF g \in Active(r) THEN Cardinality(Active(r)) ELSE Cardinality(Active(r)) + 1
      BY <3>1, FS_AddElement
    <3>3. QED
      BY <3>1, <3>2
  <2>2. /\ Cardinality(Active(r)') <= Cardinality(Active(r) \cup {g})
        /\ Cardinality(Active(r)') \in Nat /\ Cardinality(Active(r) \cup {g}) \in Nat
    BY <1>4, <2>1, FS_Subset, FS_CardinalityType
  <2>3. QED
    BY <1>1, <2>1, <2>2, ActiveIs
<1>6. QED
  BY <1>1, <1>2, <1>3, <1>5 DEF WithinLimit

\* A wave whose gates have all passed leaves nothing behind it that has not.
LEMMA WavePassed ==
    ASSUME TypeOK, NEW r \in Runs, OrderInv(r), WaveDone(r), ~WaveFailed(r)
    PROVE  \A g \in applying[r] : WaveOf[g] <= wave[r] => state[r][g] = "pass"
<1> SUFFICES ASSUME NEW g \in applying[r], WaveOf[g] <= wave[r] PROVE state[r][g] = "pass"
  OBVIOUS
<1>1. WaveOf[g] \in Nat /\ wave[r] \in Nat
  BY RegistryAssumption DEF TypeOK, Waves
<1>2. CASE WaveOf[g] < wave[r]
  BY <1>2 DEF OrderInv, InOrder
<1>3. CASE WaveOf[g] = wave[r]
  BY <1>3 DEF WaveDone, WaveFailed, InWave, Finished
<1>4. QED
  BY <1>1, <1>2, <1>3

\* Every step of an invocation keeps its waves in order.
LEMMA OrderKept ==
    ASSUME TypeOK, NEW r \in Runs, OrderInv(r), Steps(r)
    PROVE  OrderInv(r)'
<1>0. /\ applying[r] \subseteq Gates /\ wave[r] \in Nat
      /\ \A g \in Gates : WaveOf[g] \in Nat /\ WaveOf[g] >= 1 /\ WaveOf[g] <= NumWaves
  BY RegistryAssumption DEF TypeOK, Waves
<1>1. CASE Refuse(r)
  <2>1. PICK c \in {0, 2} : Exit(r, c)
    BY <1>1 DEF Refuse
  <2>2. QED
    BY <1>1, <2>1, ExitKeepsOrder DEF Refuse, runvars, OrderInv, Fresh
<1>2. CASE Start(r)
  <2>1. PICK gs \in SUBSET Gates, n \in Limits :
            applying' = [applying EXCEPT ![r] = gs] /\ limit' = [limit EXCEPT ![r] = n]
    BY <1>2 DEF Start
  <2>2. /\ applying'[r] \subseteq Gates /\ limit'[r] \in Limits
        /\ pc'[r] = "wave" /\ state' = state /\ wave'[r] = 1 /\ Fresh(r)
    BY <1>2, <2>1 DEF Start, TypeOK, OrderInv, Fresh
  <2>3. Active(r)' = {}
    BY <2>2 DEF Active, InWave, Fresh, Busy
  <2>4. Cardinality(Active(r)') = 0
    BY <2>3, FS_EmptySet
  <2>5. WithinLimit(r)'
    BY <2>4 DEF WithinLimit
  <2>6. InOrder(r)'
    BY <1>0, <2>2 DEF InOrder, Fresh
  <2>7. NaN \notin Limits => limit'[r] \in Nat
    BY <2>2, LimitsAssumption
  <2>8. QED
    BY <2>2, <2>5, <2>6, <2>7 DEF OrderInv, Honest
<1>3. CASE StartClear(r)
  <2>1. /\ pc'[r] = "save" /\ Fresh(r)
        /\ UNCHANGED <<applying, limit, wave, state, current, code>>
    BY <1>3 DEF StartClear, runvars, TypeOK, OrderInv
  <2>2. WithinLimit(r)' /\ InOrder(r)' /\ WritesIndex(r)'
    BY <2>1 DEF OrderInv, WithinLimit, InOrder, Active, InWave, WritesIndex, Fresh
  <2>3. QED
    BY <2>1, <2>2 DEF OrderInv, Honest
<1>4. ASSUME NEW g \in Gates, Launch(r, g)
      PROVE  OrderInv(r)'
  <2>1. /\ CanLaunch(r, g) /\ pc[r] = "wave"
        /\ state' = [state EXCEPT ![r][g] = "running"]
        /\ UNCHANGED <<pc, applying, limit, wave, current, code>>
    BY <1>4 DEF Launch, CanLaunch, runvars
  <2>2. limit'[r] \in Nat /\ InOrder(r)' /\ WithinLimit(r)'
    BY <2>1, LaunchKeepsOrder
  <2>3. QED
    BY <2>1, <2>2 DEF OrderInv, Honest
<1>4a. ASSUME NEW g \in Gates, HashInputs(r, g)
       PROVE  OrderInv(r)'
  <2>1. /\ CanLaunch(r, g) /\ pc'[r] = "lookup" /\ current'[r] = g
        /\ state' = [state EXCEPT ![r][g] = "keyed"]
        /\ UNCHANGED <<applying, limit, wave, code>>
    BY <1>4a DEF HashInputs, runvars, TypeOK
  <2>2. /\ state'[r][g] = "keyed" /\ limit'[r] \in Nat
        /\ InOrder(r)' /\ WithinLimit(r)'
    BY <2>1, LaunchKeepsOrder
  <2>3. key'[r][g] # None
    <3>1. key'[r][g] = KeyOf(g, mode[r]) /\ g \in Cacheable /\ mode[r] \in Modes
      BY <1>4a DEF HashInputs, Keyed, TypeOK
    <3>2. QED
      BY <3>1, KeyTyped, RegistryAssumption
  <2>4. LooksUp(r)'
    BY <2>1, <2>2, <2>3, RegistryAssumption DEF LooksUp
  <2>5. QED
    BY <2>1, <2>2, <2>4 DEF OrderInv, Honest
<1>4b. CASE LookUp(r)
  <2>1. /\ current[r] \in Gates /\ state[r][current[r]] = "keyed" /\ pc'[r] = "wave"
        /\ UNCHANGED <<applying, limit, wave, code>>
    BY <1>4b DEF LookUp, OrderInv, LooksUp, runvars, TypeOK
  <2>2. PICK v \in {"pass", "running"} : state' = [state EXCEPT ![r][current[r]] = v]
    BY <1>4b DEF LookUp
  <2>3. /\ state'[r][current[r]] = v
        /\ \A h \in Gates : h # current[r] => state'[r][h] = state[r][h]
    BY <2>1, <2>2, GateMoves
  <2>4. InOrder(r)'
    BY <1>0, <2>1, <2>3 DEF InOrder, OrderInv
  <2>5. Active(r)' \subseteq Active(r)
    BY <1>0, <2>1, <2>3 DEF Active, InWave, Busy
  <2>6. WithinLimit(r)'
    BY <2>1, <2>5, LimitKept DEF OrderInv
  <2>7. QED
    BY <2>1, <2>4, <2>6 DEF OrderInv, Honest
<1>5. CASE SaveTruncates(r)
  <2>1. /\ pc[r] = "save" /\ pc'[r] = "write"
        /\ UNCHANGED <<applying, limit, wave, state, current, code>>
    BY <1>5 DEF SaveTruncates, runvars, TypeOK
  <2>2. WithinLimit(r)' /\ InOrder(r)' /\ WritesIndex(r)'
    BY <2>1 DEF OrderInv, WithinLimit, InOrder, Active, InWave, WritesIndex
  <2>3. QED
    BY <2>1, <2>2 DEF OrderInv, Honest
<1>6. CASE SaveWrites(r) /\ current[r] = None
  <2>1. Exit(r, 0) /\ state' = state /\ UNCHANGED runvars /\ applying[r] = {}
    BY <1>6 DEF SaveWrites, OrderInv, WritesIndex
  <2>2. QED
    BY <2>1, ExitKeepsOrder DEF runvars
<1>7. CASE SaveWrites(r) /\ current[r] # None
  <2>1. /\ current[r] \in Gates /\ state[r][current[r]] = "sound" /\ pc'[r] = "wave"
        /\ state' = [state EXCEPT ![r][current[r]] = "pass"]
        /\ UNCHANGED <<applying, limit, wave, code>>
    BY <1>7 DEF SaveWrites, OrderInv, WritesIndex, runvars, TypeOK
  <2>2. /\ state'[r][current[r]] = "pass"
        /\ \A h \in Gates : h # current[r] => state'[r][h] = state[r][h]
    BY <2>1, GateMoves
  <2>3. InOrder(r)'
    BY <1>0, <2>1, <2>2 DEF InOrder, OrderInv
  <2>4. Active(r)' \subseteq Active(r)
    BY <1>0, <2>1, <2>2 DEF Active, InWave, Busy
  <2>5. WithinLimit(r)'
    BY <2>1, <2>4, LimitKept DEF OrderInv
  <2>6. QED
    BY <2>1, <2>3, <2>5 DEF OrderInv, Honest
<1>8. CASE AbortAfterWave(r)
  BY <1>8, ExitKeepsOrder DEF AbortAfterWave, runvars
<1>9. CASE NextWave(r)
  <2>1. /\ wave'[r] = wave[r] + 1 /\ pc[r] = "wave"
        /\ UNCHANGED <<pc, applying, limit, state, current, code>>
    BY <1>9 DEF NextWave, WaveDone, TypeOK
  <2>2. \A g \in applying[r] : WaveOf[g] <= wave[r] => state[r][g] = "pass"
    BY <1>9, WavePassed DEF NextWave
  <2>3. InOrder(r)'
    BY <1>0, <2>1, <2>2 DEF InOrder, OrderInv
  <2>4. Active(r)' = {}
    BY <1>0, <2>1 DEF Active, InWave, OrderInv, InOrder, Busy
  <2>5. Cardinality(Active(r)') = 0
    BY <2>4, FS_EmptySet
  <2>6. WithinLimit(r)'
    BY <2>5 DEF WithinLimit
  <2>7. QED
    BY <2>1, <2>3, <2>6 DEF OrderInv, Honest
<1>10. CASE Finish(r)
  <2>1. \A g \in applying[r] : state[r][g] = "pass"
    BY <1>0, <1>10, WavePassed DEF Finish
  <2>2. QED
    BY <1>10, <2>1, ExitKeepsOrder DEF Finish, runvars
<1>11. CASE LoopDrains(r)
  <2>1. NaN \in Limits
    BY <1>11, LimitsAssumption DEF LoopDrains, TypeOK
  <2>2. QED
    BY <1>11, <2>1, ExitKeepsOrder DEF LoopDrains, runvars
<1>12. ASSUME NEW g \in Gates, GateReads(r, g) \/ GateFails(r, g) \/ GatePasses(r, g)
       PROVE  OrderInv(r)'
  <2>1. PICK v \in Busy \cup Finished : state' = [state EXCEPT ![r][g] = v]
    BY <1>12 DEF GateReads, GateFails, GatePasses, Busy, Finished
  <2>2. /\ state[r][g] \in Busy
        /\ state[r][g] = "running" \/ pc[r] = "wave"
        /\ UNCHANGED <<pc, applying, wave, limit, key, current, code>>
    BY <1>12 DEF GateReads, GateFails, GatePasses, Busy, runvars
  <2>3. QED
    BY <2>1, <2>2, GateKeepsOrder
<1>13. ASSUME NEW g \in Gates, StoreLoads(r, g)
       PROVE  OrderInv(r)'
  <2>1. /\ pc'[r] = "save" /\ current'[r] = g /\ state[r][g] = "sound"
        /\ UNCHANGED <<applying, limit, wave, state, code>>
    BY <1>13 DEF StoreLoads, runvars, TypeOK
  <2>2. WithinLimit(r)' /\ InOrder(r)' /\ WritesIndex(r)'
    BY <2>1, RegistryAssumption DEF OrderInv, WithinLimit, InOrder, Active, InWave, WritesIndex
  <2>3. QED
    BY <2>1, <2>2 DEF OrderInv, Honest
<1>14. CASE Crash(r)
  BY <1>14, ExitKeepsOrder DEF Crash, runvars
<1>15. QED
  BY <1>1, <1>2, <1>3, <1>4, <1>4a, <1>4b, <1>5, <1>6, <1>7, <1>8, <1>9, <1>10, <1>11, <1>12,
     <1>13, <1>14
     DEF Steps, RunnerStep, GateStep

RunnerInv == TypeOK /\ \A r \in Runs : OrderInv(r)

\* What a step leaves alone stays in order.
LEMMA OrderUntouched ==
    ASSUME NEW s \in Runs, OrderInv(s), View(s)' = View(s)
    PROVE  OrderInv(s)'
<1>1. /\ pc'[s] = pc[s] /\ applying'[s] = applying[s] /\ limit'[s] = limit[s] /\ wave'[s] = wave[s]
      /\ state'[s] = state[s] /\ key'[s] = key[s] /\ current'[s] = current[s] /\ code'[s] = code[s]
  BY DEF View
<1>2. Active(s)' = Active(s)
  BY <1>1 DEF Active, InWave
<1>3. QED
  BY <1>1, <1>2 DEF OrderInv, Fresh, LooksUp, WritesIndex, InOrder, WithinLimit, Honest

\* The invariant of the runner.
LEMMA RunnerStart == Init => RunnerInv
<1> SUFFICES ASSUME Init PROVE RunnerInv
  OBVIOUS
<1>1. SUFFICES ASSUME NEW r \in Runs PROVE OrderInv(r)
  BY TypesStart DEF RunnerInv
<1>2. /\ pc[r] = "new" /\ applying[r] = {} /\ limit[r] = 1 /\ wave[r] = 1 /\ current[r] = None
      /\ \A g \in Gates : state[r][g] = "waiting" /\ key[r][g] = None
  BY DEF Init
<1>3. Active(r) = {}
  BY <1>2 DEF Active, InWave
<1>4. Cardinality(Active(r)) = 0
  BY <1>3, FS_EmptySet
<1>5. QED
  BY <1>2, <1>4 DEF OrderInv, Fresh, InOrder, WithinLimit, Honest

\* Every step keeps the invariant on waves, pools and exit codes.
LEMMA RunnerStepKeeps ==
    ASSUME RunnerInv, [Next]_vars
    PROVE  RunnerInv'
<1>1. ASSUME NEW r \in Runs, Steps(r) PROVE RunnerInv'
  <2>1. TypeOK'
    BY <1>1, RunKeepsTypes DEF RunnerInv
  <2>2. ASSUME NEW s \in Runs PROVE OrderInv(s)'
    <3>1. CASE s = r
      BY <1>1, <3>1, OrderKept DEF RunnerInv
    <3>2. CASE s # r
      BY <1>1, <3>2, OthersKept, OrderUntouched DEF RunnerInv
    <3>3. QED
      BY <3>1, <3>2
  <2>3. QED
    BY <2>1, <2>2 DEF RunnerInv
<1>2. CASE Edit \/ UNCHANGED vars
  <2>1. TypeOK'
    BY <1>2, EditKeepsTypes DEF RunnerInv, vars, runvars, history, TypeOK
  <2>2. \A s \in Runs : View(s)' = View(s)
    BY <1>2 DEF Edit, vars, runvars, View
  <2>3. QED
    BY <2>1, <2>2, OrderUntouched DEF RunnerInv
<1>3. QED
  BY <1>1, <1>2 DEF Next, Terminated, Steps

\* It holds in every state of every behaviour.
LEMMA RunnerInvariant == Spec => []RunnerInv
<1>1. RunnerInv /\ [Next]_vars => RunnerInv'
  BY RunnerStepKeeps
<1>2. QED
  BY <1>1, RunnerStart, PTL DEF Spec

\* "Waves run in order; fail fast", for every registry, pool and crash.
THEOREM WavesKeepOrder ==
    ASSUME NaN \notin Limits
    PROVE  Spec => []WavesInOrder
<1>1. RunnerInv => WavesInOrder
  <2> SUFFICES ASSUME RunnerInv, NEW r \in Runs
               PROVE  /\ Cardinality(Active(r)) <= limit[r]
                      /\ \A g, h \in applying[r] :
                          WaveOf[g] < WaveOf[h] /\ state[r][h] # "waiting" => state[r][g] = "pass"
    BY DEF WavesInOrder
  <2>1. OrderInv(r) /\ wave[r] \in Nat /\ applying[r] \subseteq Gates
    BY DEF RunnerInv, TypeOK, Waves
  <2>2. \A g \in Gates : WaveOf[g] \in Nat
    BY RegistryAssumption DEF Waves
  <2>3. Cardinality(Active(r)) <= limit[r]
    BY <2>1 DEF OrderInv, WithinLimit
  <2>4. \A g, h \in applying[r] :
            WaveOf[g] < WaveOf[h] /\ state[r][h] # "waiting" => state[r][g] = "pass"
    BY <2>1, <2>2 DEF OrderInv, InOrder
  <2>5. QED
    BY <2>3, <2>4
<1>2. QED
  BY <1>1, RunnerInvariant, PTL

\* An exit code of 0 is honest, whatever has failed, timed out or thrown, as long
\* as --concurrency is a number.
THEOREM ExitCodesHonest ==
    ASSUME NaN \notin Limits
    PROVE  Spec => []ExitCodeHonest
<1>1. RunnerInv => ExitCodeHonest
  BY DEF RunnerInv, OrderInv, Honest, ExitCodeHonest
<1>2. QED
  BY <1>1, RunnerInvariant, PTL

--------------------------------------------------------------------------------
(* The cache. *)

Kept(k) == Covered(k.gate) /\ k \notin tainted => SoundKey(k)

\* Of an invocation at work that no edit has disturbed: its keys are those of the
\* worktree, and what has passed and is vouched for passes over the worktree.
KeysFresh(r) == \A g \in Gates : key[r][g] # None => g \in Cacheable /\ key[r][g] = KeyOf(g, mode[r])

PassesHold(r) ==
    \A g \in Gates :
        (state[r][g] = "sound" \/ (state[r][g] = "pass" /\ Vouched(r, g))) => Passes(g, tree)

Undisturbed(r) == AtWork(r) /\ r \notin disturbed

SoundInv(r) ==
    /\ Undisturbed(r) => KeysFresh(r) /\ PassesHold(r)
    /\ \A k \in out[r] : Kept(k)

IndexKept == \A k \in index.keys : Kept(k)

\* A sound key is one of a worktree that its gate passes over, and the other way
\* round when the gate declares what it reads.
LEMMA KeySound ==
    ASSUME NEW g \in Gates, Covered(g), NEW m
    PROVE  SoundKey(KeyOf(g, m)) <=> Passes(g, tree)
<1> DEFINE t == [f \in Declared[g] |-> tree[f]]
<1>1. KeyOf(g, m).gate = g /\ KeyOf(g, m).inputs = t
  BY DEF KeyOf
<1>2. DOMAIN t = Declared[g] /\ \A f \in Declared[g] : t[f] = tree[f]
  OBVIOUS
<1>3. ReadBy[g] \subseteq Declared[g]
  BY DEF Covered
<1> HIDE DEF t
<1>4. QED
  BY <1>1, <1>2, <1>3 DEF SoundKey, Passes

\* A lookup finds only keys that have been kept.
LEMMA LookupKept == ASSUME IndexKept PROVE \A k \in LoadIndex : Kept(k)
BY DEF IndexKept, LoadIndex

\* What has been kept stays kept: keys are tainted for good.
LEMMA KeptKept ==
    ASSUME NEW k, Kept(k), tainted \subseteq tainted'
    PROVE  Kept(k)'
BY DEF Kept, SoundKey, Covered

\* A gate at work moves on: what it reads, and what it is when it has passed and
\* is vouched for, is what the worktree is.
LEMMA GateKeepsSound ==
    ASSUME TypeOK, NEW r \in Runs, SoundInv(r), NEW g \in Gates, NEW v,
           state' = [state EXCEPT ![r][g] = v],
           Undisturbed(r) /\ (v = "sound" \/ (v = "pass" /\ Vouched(r, g))) => Passes(g, tree),
           Undisturbed(r)' => Undisturbed(r),
           tainted \subseteq tainted',
           \A k \in out'[r] : Kept(k)',
           tree' = tree, mode' = mode, key' = key
    PROVE  SoundInv(r)'
<1>1. /\ state'[r][g] = v
      /\ \A h \in Gates : h # g => state'[r][h] = state[r][h]
  BY GateMoves
<1>2. \A h \in Gates : Vouched(r, h)' => Vouched(r, h)
  BY DEF Vouched, Covered
<1>3. Undisturbed(r) => PassesHold(r)'
  BY <1>1, <1>2 DEF SoundInv, PassesHold, Passes
<1>4. Undisturbed(r) => KeysFresh(r)'
  BY DEF SoundInv, KeysFresh, KeyOf
<1>5. QED
  BY <1>3, <1>4 DEF SoundInv

\* Every step of an invocation keeps what it vouches for.
LEMMA SoundKept ==
    ASSUME TypeOK, IndexKept, NEW r \in Runs, OrderInv(r), SoundInv(r), Steps(r)
    PROVE  SoundInv(r)' /\ IndexKept'
<1>0. tree' = tree /\ disturbed' = disturbed /\ tainted \subseteq tainted'
  BY WorktreeKept
<1>1. ASSUME UNCHANGED <<mode, key, state>>, \A k \in out'[r] : Kept(k)',
             AtWork(r)' => AtWork(r)
      PROVE  SoundInv(r)'
  <2>1. Undisturbed(r)' => Undisturbed(r)
    BY <1>0, <1>1 DEF Undisturbed
  <2>2. \A h \in Gates : Vouched(r, h)' => Vouched(r, h)
    BY <1>0, <1>1 DEF Vouched, Covered
  <2>3. Undisturbed(r) => KeysFresh(r)' /\ PassesHold(r)'
    BY <1>0, <1>1, <2>2 DEF SoundInv, KeysFresh, PassesHold, Passes, KeyOf
  <2>4. QED
    BY <1>1, <2>1, <2>3 DEF SoundInv
<1>1a. ASSUME index' = index PROVE IndexKept'
  BY <1>0, <1>1a, KeptKept DEF IndexKept
<1>1b. ASSUME out' = out PROVE \A k \in out'[r] : Kept(k)'
  BY <1>0, <1>1b, KeptKept DEF SoundInv
<1>2. CASE Refuse(r) \/ AbortAfterWave(r) \/ NextWave(r) \/ Finish(r) \/ LoopDrains(r)
  <2>1. /\ UNCHANGED <<mode, key, state, out, index>>
        /\ AtWork(r)' => AtWork(r)
    BY <1>2 DEF Refuse, AbortAfterWave, NextWave, Finish, LoopDrains, WaveDone, Exit, runvars,
                AtWork, TypeOK
  <2>2. QED
    BY <1>1, <1>1a, <1>1b, <2>1
<1>3. CASE Start(r) \/ StartClear(r)
  <2>1. Fresh(r) /\ UNCHANGED <<mode, key, state, out, index>>
    BY <1>3 DEF Start, StartClear, runvars, OrderInv
  <2>2. KeysFresh(r)' /\ PassesHold(r)'
    BY <2>1 DEF Fresh, KeysFresh, PassesHold
  <2>3. QED
    BY <1>1a, <1>1b, <2>1, <2>2 DEF SoundInv
<1>4. ASSUME NEW g \in Gates, Launch(r, g)
      PROVE  SoundInv(r)' /\ IndexKept'
  <2>1. /\ UNCHANGED <<pc, mode, key, out, index, disturbed>>
        /\ state' = [state EXCEPT ![r][g] = "running"]
    BY <1>4 DEF Launch, runvars, history
  <2>2. Undisturbed(r)' => Undisturbed(r)
    BY <2>1 DEF Undisturbed, AtWork
  <2>3. QED
    BY <1>0, <1>1a, <1>1b, <2>1, <2>2, GateKeepsSound
<1>4a. ASSUME NEW g \in Gates, HashInputs(r, g)
       PROVE  SoundInv(r)' /\ IndexKept'
  <2>1. /\ g \in Cacheable /\ AtWork(r)
        /\ key' = [key EXCEPT ![r][g] = KeyOf(g, mode[r])]
        /\ state' = [state EXCEPT ![r][g] = "keyed"]
        /\ UNCHANGED <<mode, out, index>>
    BY <1>4a DEF HashInputs, CanLaunch, Keyed, runvars, AtWork
  <2>2. /\ key'[r][g] = KeyOf(g, mode[r])
        /\ \A h \in Gates : h # g => key'[r][h] = key[r][h]
    BY <2>1 DEF TypeOK
  <2>3. /\ state'[r][g] = "keyed"
        /\ \A h \in Gates : h # g => state'[r][h] = state[r][h]
    BY <2>1, GateMoves
  <2>4. ASSUME Undisturbed(r) PROVE KeysFresh(r)'
    <3>1. \A h, m : KeyOf(h, m)' = KeyOf(h, m)
      BY <1>0 DEF KeyOf
    <3>2. ASSUME NEW h \in Gates, key'[r][h] # None
          PROVE  h \in Cacheable /\ key'[r][h] = KeyOf(h, mode[r])
      BY <2>1, <2>2, <2>4, <3>2 DEF SoundInv, KeysFresh
    <3>3. QED
      BY <2>1, <3>1, <3>2 DEF KeysFresh
  <2>5. ASSUME Undisturbed(r) PROVE PassesHold(r)'
    <3>1. \A h \in Gates : h # g /\ Vouched(r, h)' => Vouched(r, h)
      BY <1>0, <2>2 DEF Vouched, Covered
    <3>2. QED
      BY <1>0, <2>3, <2>5, <3>1 DEF SoundInv, PassesHold, Passes
  <2>6. Undisturbed(r)' => Undisturbed(r)
    BY <1>0, <2>1 DEF Undisturbed
  <2>7. QED
    BY <1>1a, <1>1b, <2>1, <2>4, <2>5, <2>6 DEF SoundInv
<1>4b. CASE LookUp(r)
  <2> DEFINE g == current[r]
             v == IF key[r][g] \in LoadIndex THEN "pass" ELSE "running"
  <2>1. /\ g \in Gates /\ key[r][g] # None /\ AtWork(r)
        /\ state' = [state EXCEPT ![r][g] = v]
        /\ UNCHANGED <<mode, key, out, index>>
    BY <1>4b DEF LookUp, OrderInv, LooksUp, TypeOK, runvars, AtWork
  <2>2. ASSUME Undisturbed(r), v = "pass", Vouched(r, g) PROVE Passes(g, tree)
    <3>1. key[r][g] \in LoadIndex
      BY <2>2
    <3>2. Covered(g) /\ key[r][g] \notin tainted /\ key[r][g] = KeyOf(g, mode[r])
      BY <2>1, <2>2 DEF Vouched, SoundInv, KeysFresh
    <3>3. SoundKey(key[r][g])
      <4>1. key[r][g].gate = g
        BY <3>2 DEF KeyOf
      <4>2. QED
        BY <3>1, <3>2, <4>1, LookupKept DEF Kept
    <3>4. QED
      BY <2>1, <3>2, <3>3, KeySound
  <2>3. v # "sound"
    OBVIOUS
  <2>4. Undisturbed(r)' => Undisturbed(r)
    BY <1>0, <2>1 DEF Undisturbed
  <2> HIDE DEF v, g
  <2>5. QED
    BY <1>0, <1>1a, <1>1b, <2>1, <2>2, <2>3, <2>4, GateKeepsSound
<1>5. CASE SaveTruncates(r)
  <2>1. UNCHANGED <<mode, key, state, out>> /\ index'.keys = {} /\ AtWork(r)
    BY <1>5 DEF SaveTruncates, runvars, AtWork
  <2>2. QED
    BY <1>1, <1>1b, <2>1 DEF IndexKept
<1>6. CASE SaveWrites(r)
  <2>1. AtWork(r) /\ UNCHANGED <<mode, key>> /\ out'[r] = {} /\ index'.keys \subseteq out[r]
    BY <1>6 DEF SaveWrites, runvars, AtWork, TypeOK
  <2>2. IndexKept'
    BY <1>0, <2>1, KeptKept DEF SoundInv, IndexKept
  <2>3. CASE current[r] = None
    <3>1. state' = state
      BY <1>6, <2>3 DEF SaveWrites
    <3>2. QED
      BY <1>1, <2>1, <2>2, <3>1
  <2>4. CASE current[r] # None
    <3>1. /\ current[r] \in Gates /\ state[r][current[r]] = "sound"
          /\ state' = [state EXCEPT ![r][current[r]] = "pass"]
      BY <1>6, <2>4 DEF SaveWrites, OrderInv, WritesIndex, TypeOK
    <3>2. Undisturbed(r) => Passes(current[r], tree)
      BY <3>1 DEF SoundInv, PassesHold
    <3>3. Undisturbed(r)' => Undisturbed(r)
      BY <1>0, <2>1 DEF Undisturbed
    <3>4. QED
      BY <1>0, <2>1, <2>2, <3>1, <3>2, <3>3, GateKeepsSound
  <2>5. QED
    BY <2>3, <2>4
<1>7. ASSUME NEW g \in Gates, GateReads(r, g) \/ GateFails(r, g) \/ GatePasses(r, g)
      PROVE  SoundInv(r)' /\ IndexKept'
  <2>1. UNCHANGED <<pc, mode, key, out, index>> /\ (Undisturbed(r)' <=> Undisturbed(r))
    BY <1>0, <1>7 DEF GateReads, GateFails, GatePasses, runvars, Undisturbed, AtWork
  <2>2. PICK v : /\ state' = [state EXCEPT ![r][g] = v]
                 /\ Undisturbed(r) /\ v \in {"sound", "pass"} => Passes(g, tree)
    <3>1. CASE GateReads(r, g)
      <4> DEFINE v == IF Passes(g, tree) THEN "sound" ELSE "unsound"
      <4>1. state' = [state EXCEPT ![r][g] = v]
        BY <3>1 DEF GateReads
      <4>2. v \in {"sound", "pass"} => Passes(g, tree)
        OBVIOUS
      <4>3. QED
        BY <4>1, <4>2
    <3>2. CASE GateFails(r, g)
      <4>1. state' = [state EXCEPT ![r][g] = "fail"]
        BY <3>2 DEF GateFails
      <4>2. "fail" \notin {"sound", "pass"}
        OBVIOUS
      <4>3. QED
        BY <4>1, <4>2
    <3>3. CASE GatePasses(r, g)
      <4>1. state[r][g] = "sound" /\ state' = [state EXCEPT ![r][g] = "pass"]
        BY <3>3 DEF GatePasses
      <4>2. Undisturbed(r) => Passes(g, tree)
        BY <4>1 DEF SoundInv, PassesHold
      <4>3. QED
        BY <4>1, <4>2
    <3>4. QED
      BY <1>7, <3>1, <3>2, <3>3
  <2>3. QED
    BY <1>0, <1>1a, <1>1b, <2>1, <2>2, GateKeepsSound
<1>8. ASSUME NEW g \in Gates, StoreLoads(r, g)
      PROVE  SoundInv(r)' /\ IndexKept'
  <2>1. /\ AtWork(r) /\ state[r][g] = "sound" /\ key[r][g] # None
        /\ UNCHANGED <<mode, key, state, index>>
        /\ out'[r] = LoadIndex \cup {key[r][g]}
        /\ r \in disturbed => key[r][g] \in tainted'
    BY <1>8 DEF StoreLoads, Taint, runvars, AtWork, TypeOK
  <2>2. Kept(key[r][g])'
    <3>1. CASE r \in disturbed
      BY <2>1, <3>1 DEF Kept
    <3>2. CASE r \notin disturbed
      <4>1. Passes(g, tree) /\ key[r][g] = KeyOf(g, mode[r])
        BY <2>1, <3>2 DEF SoundInv, Undisturbed, PassesHold, KeysFresh
      <4>2. key[r][g].gate = g
        BY <4>1 DEF KeyOf
      <4>3. Kept(key[r][g])
        BY <4>1, <4>2, KeySound DEF Kept
      <4>4. QED
        <5> DEFINE k == key[r][g]
        <5>1. k' = k
          BY <2>1
        <5> HIDE DEF k
        <5>2. Kept(k) => Kept(k)'
          BY <1>0, <5>1 DEF Kept, SoundKey, Covered
        <5>3. QED
          BY <4>3, <5>1, <5>2 DEF k
    <3>3. QED
      BY <3>1, <3>2
  <2>3. \A k \in out'[r] : Kept(k)'
    <3>1. \A k \in LoadIndex : Kept(k)'
      BY <1>0, LookupKept, KeptKept
    <3>2. ASSUME NEW k, k = key[r][g] PROVE Kept(k)'
      BY <2>1, <2>2, <3>2 DEF Kept, SoundKey, Covered
    <3>3. QED
      BY <2>1, <3>1, <3>2
  <2>4. QED
    BY <1>1, <1>1a, <2>1, <2>3
<1>9. CASE Crash(r)
  <2>1. UNCHANGED <<mode, key, state, index>> /\ out'[r] = {} /\ AtWork(r)
    BY <1>9 DEF Crash, runvars, TypeOK
  <2>2. QED
    BY <1>1, <1>1a, <2>1
<1>10. QED
  BY <1>2, <1>3, <1>4, <1>4a, <1>4b, <1>5, <1>6, <1>7, <1>8, <1>9 DEF Steps, RunnerStep, GateStep

CacheInv == RunnerInv /\ IndexKept /\ \A r \in Runs : SoundInv(r)

\* The other invocations leave it as it is, and the editor disturbs those at work.
LEMMA SoundUntouched ==
    ASSUME NEW s \in Runs, SoundInv(s), View(s)' = View(s),
           disturbed \subseteq disturbed', tainted \subseteq tainted',
           tree' = tree \/ ~Undisturbed(s)'
    PROVE  SoundInv(s)'
<1>1. /\ pc'[s] = pc[s] /\ mode'[s] = mode[s] /\ state'[s] = state[s] /\ key'[s] = key[s]
      /\ out'[s] = out[s]
  BY DEF View
<1>2. Undisturbed(s)' => Undisturbed(s)
  BY <1>1 DEF Undisturbed, AtWork
<1>3. \A g \in Gates : Vouched(s, g)' => Vouched(s, g)
  BY <1>1 DEF Vouched, Covered
<1>4. tree' = tree => (KeysFresh(s) => KeysFresh(s)') /\ (PassesHold(s) => PassesHold(s)')
  BY <1>1, <1>3 DEF KeysFresh, PassesHold, Passes, KeyOf
<1>5. \A k \in out'[s] : Kept(k)'
  BY <1>1, KeptKept DEF SoundInv
<1>6. QED
  BY <1>2, <1>4, <1>5 DEF SoundInv

\* Every step keeps the invariant on the cache.
LEMMA CacheStep ==
    ASSUME CacheInv, [Next]_vars
    PROVE  CacheInv'
<1>0. RunnerInv' /\ TypeOK
  BY RunnerStepKeeps DEF CacheInv, RunnerInv
<1>1. ASSUME NEW r \in Runs, Steps(r) PROVE CacheInv'
  <2>1. /\ SoundInv(r)' /\ IndexKept'
        /\ tree' = tree /\ disturbed' = disturbed /\ tainted \subseteq tainted'
    BY <1>1, SoundKept, WorktreeKept DEF CacheInv, RunnerInv
  <2>2. ASSUME NEW s \in Runs, s # r PROVE SoundInv(s)'
    BY <1>0, <1>1, <2>1, <2>2, OthersKept, SoundUntouched DEF CacheInv
  <2>3. QED
    BY <1>0, <2>1, <2>2 DEF CacheInv
<1>2. CASE Edit \/ UNCHANGED vars
  <2>1. /\ \A s \in Runs : View(s)' = View(s) /\ (tree' = tree \/ ~Undisturbed(s)')
        /\ index' = index /\ disturbed \subseteq disturbed' /\ tainted' = tainted
    BY <1>2 DEF Edit, vars, runvars, history, View, Undisturbed, AtWork
  <2>2. IndexKept'
    BY <2>1, KeptKept DEF CacheInv, IndexKept
  <2>3. QED
    BY <1>0, <2>1, <2>2, SoundUntouched DEF CacheInv
<1>3. QED
  BY <1>1, <1>2 DEF Next, Terminated, Steps

\* What the runner vouches for, in every state.
LEMMA CacheInvariant == Spec => []CacheInv
<1>1. Init => CacheInv
  BY RunnerStart DEF Init, CacheInv, IndexKept, SoundInv, Undisturbed, AtWork
<1>2. CacheInv /\ [Next]_vars => CacheInv'
  BY CacheStep
<1>3. QED
  BY <1>1, <1>2, PTL DEF Spec

\* Whatever invocations, edits, crashes and torn writes of the index are
\* interleaved, and whatever the registry declares, a lookup finds for a gate that
\* declares what it reads only keys over whose inputs it passes, but for those
\* that an invocation has stored during which somebody edited the worktree.
THEOREM CacheIsSound == Spec => []CacheSound
<1>1. CacheInv => CacheSound
  BY LookupKept DEF CacheInv, CacheSound, Kept
<1>2. QED
  BY <1>1, CacheInvariant, PTL

\* When an invocation that no edit has disturbed exits with 0, the worktree passes
\* every gate that applied and that was run, or whose key vouches for it.
THEOREM ExitZeroIsEarned ==
    ASSUME NaN \notin Limits
    PROVE  Spec => ExitZeroMeansTreePasses
<1> DEFINE Earned == \A r \in Runs \ disturbed : pc[r] # "exited" /\ pc'[r] = "exited" /\ code'[r] = 0
                        => \A g \in applying[r] : Vouched(r, g) => Passes(g, tree)
<1>1. CacheInv /\ [Next]_vars => Earned
  <2> SUFFICES ASSUME CacheInv, [Next]_vars, NEW r \in Runs, r \notin disturbed,
                      pc[r] # "exited", pc'[r] = "exited", code'[r] = 0,
                      NEW g \in applying[r], Vouched(r, g)
               PROVE  Passes(g, tree)
    OBVIOUS
  <2>1. TypeOK /\ OrderInv(r) /\ SoundInv(r) /\ applying[r] \subseteq Gates
    BY DEF CacheInv, RunnerInv, TypeOK
  <2>2. Steps(r)
    <3>1. PICK s \in Runs : Steps(s)
      BY DEF Next, Terminated, Edit, vars, runvars, Steps
    <3>2. s = r
      BY <2>1, <3>1, OthersKept DEF View
    <3>3. QED
      BY <3>1, <3>2
  <2>3. ~Refuse(r) /\ ~(SaveWrites(r) /\ current[r] = None)
    BY <2>1 DEF Refuse, SaveWrites, OrderInv, Fresh, WritesIndex
  <2>4. ~LoopDrains(r) /\ ~AbortAfterWave(r) /\ ~Crash(r)
    <3>1. limit[r] # NaN
      BY <2>1, LimitsAssumption DEF OrderInv
    <3>2. QED
      BY <2>1, <3>1 DEF LoopDrains, AbortAfterWave, Crash, Exit, TypeOK
  <2>5. Finish(r)
    BY <2>1, <2>2, <2>3, <2>4 DEF Steps, RunnerStep, GateStep, Start, StartClear, Launch, HashInputs, LookUp,
       CanLaunch, SaveTruncates, SaveWrites, NextWave, WaveDone, GateReads, GateFails, GatePasses, StoreLoads, TypeOK
  <2>6. WaveOf[g] <= wave[r] /\ AtWork(r)
    BY <2>1, <2>5, RegistryAssumption DEF Finish, WaveDone, AtWork, Waves
  <2>7. state[r][g] = "pass"
    BY <2>1, <2>5, <2>6, WavePassed DEF Finish
  <2>8. QED
    BY <2>1, <2>6, <2>7 DEF SoundInv, Undisturbed, PassesHold
<1>2. CacheInv /\ [Next]_vars => [Earned]_vars
  BY <1>1
<1>3. QED
  BY <1>2, CacheInvariant, PTL DEF Spec, ExitZeroMeansTreePasses

--------------------------------------------------------------------------------
(* runCmd, by which a runner runs the commands of its gates. *)

\* An error is that of a command that never ran, and a verdict leaves no timer
\* armed and no command running.
ExecInv ==
    /\ ExecTypeOK
    /\ events = "error" => exitCode = "spawn error"
    /\ NothingLeftBehind

--------------------------------------------------------------------------------
\* Before the command has done anything.
LEMMA ExecStart == ExecInit => ExecInv
<1> SUFFICES ASSUME ExecInit PROVE ExecInv
  OBVIOUS
<1>1. killed = (timer = "fired")
  <2>1. killed = FALSE /\ ~(timer = "fired")
    BY DEF ExecInit
  <2>2. QED
    BY <2>1, Zenon
<1>2. verdict \in BOOLEAN \cup {Pending}
  BY Zenon DEF ExecInit
<1>3. written \in 0..MaxOutput /\ read \in 0..written /\ output \in 0..read
  BY OutputAssumption DEF ExecInit
<1>4. QED
  BY <1>1, <1>2, <1>3 DEF ExecInit, ExecInv, ExecTypeOK, NothingLeftBehind

\* Every event keeps the types.
LEMMA TypesKept ==
    ASSUME ExecTypeOK, [ExecNext]_execVars
    PROVE  ExecTypeOK'
<1>1. CASE SpawnFails
  BY <1>1, CodesAssumption DEF SpawnFails, ExecTypeOK
<1>2. CASE StartsChild
  BY <1>2 DEF StartsChild, ExecTypeOK
<1>3. CASE Writes
  <2>1. written' \in 0..MaxOutput /\ read' \in 0..written' /\ output' \in 0..read'
    BY <1>3, OutputAssumption DEF Writes, ExecTypeOK
  <2>2. QED
    BY <1>3, <2>1 DEF Writes, ExecTypeOK
<1>4. CASE Exits
  BY <1>4 DEF Exits, ExecTypeOK
<1>5. CASE ChildExits
  BY <1>5 DEF ChildExits, ExecTypeOK
<1>6. CASE OnData
  <2>1. read' \in 0..written' /\ output' \in 0..read' /\ written' \in 0..MaxOutput
    BY <1>6 DEF OnData, ExecTypeOK
  <2>2. QED
    BY <1>6, <2>1 DEF OnData, ExecTypeOK
<1>7. CASE OnTimeout
  <2>1. exitCode' \in Codes \cup {Pending}
    BY <1>7, CodesAssumption DEF OnTimeout, ExecTypeOK
  <2>2. killed' = (timer' = "fired") /\ timer' = "fired"
    BY <1>7 DEF OnTimeout
  <2>3. QED
    BY <1>7, <2>1, <2>2 DEF OnTimeout, ExecTypeOK
<1>8. ASSUME NEW passed \in BOOLEAN, Resolve(passed), UNCHANGED <<written, read>>
      PROVE  verdict' \in BOOLEAN \cup {Pending} /\ output' \in 0..read'
  <2>1. verdict' \in BOOLEAN \cup {Pending}
    BY <1>8, Zenon DEF Resolve, ExecTypeOK
  <2>2. output' \in 0..read'
    BY <1>8 DEF Resolve, ExecTypeOK
  <2>3. QED
    BY <2>1, <2>2
<1>9. ASSUME timer' = (IF timer = "armed" THEN "cleared" ELSE timer), UNCHANGED killed
      PROVE  timer' \in {"armed", "fired", "cleared"} /\ killed' = (timer' = "fired")
  BY <1>9 DEF ExecTypeOK
<1>10. CASE OnClose
  <2>1. verdict' \in BOOLEAN \cup {Pending} /\ output' \in 0..read'
    BY <1>8, <1>10 DEF OnClose
  <2>2. timer' \in {"armed", "fired", "cleared"} /\ killed' = (timer' = "fired")
    BY <1>9, <1>10 DEF OnClose
  <2>3. QED
    BY <1>10, <2>1, <2>2 DEF OnClose, ExecTypeOK
<1>11. CASE OnError
  <2>1. verdict' \in BOOLEAN \cup {Pending} /\ output' \in 0..read'
    BY <1>8, <1>11 DEF OnError
  <2>2. timer' \in {"armed", "fired", "cleared"} /\ killed' = (timer' = "fired")
    BY <1>9, <1>11 DEF OnError
  <2>3. QED
    BY <1>11, <2>1, <2>2 DEF OnError, ExecTypeOK
<1>12. CASE UNCHANGED execVars
  BY <1>12 DEF execVars, ExecTypeOK
<1>13. QED
  BY <1>1, <1>2, <1>3, <1>4, <1>5, <1>6, <1>7, <1>10, <1>11, <1>12
     DEF ExecNext, Environment, Handlers

\* And what a verdict and an error say of the command.
LEMMA ExecStep ==
    ASSUME ExecInv, [ExecNext]_execVars
    PROVE  ExecInv'
<1>0. ExecTypeOK'
  BY TypesKept DEF ExecInv
<1>1. CASE SpawnFails
  BY <1>0, <1>1, CodesAssumption DEF SpawnFails, ExecInv, NothingLeftBehind, Running
<1>2. CASE Exits
  BY <1>0, <1>2, CodesAssumption DEF Exits, ExecInv, NothingLeftBehind, Running
<1>3. CASE StartsChild \/ Writes \/ ChildExits \/ OnData
  BY <1>0, <1>3 DEF StartsChild, Writes, ChildExits, OnData, ExecInv, NothingLeftBehind, Running
<1>4. CASE OnTimeout
  BY <1>0, <1>4, CodesAssumption DEF OnTimeout, ExecInv, NothingLeftBehind, Running
<1>5. CASE OnClose
  BY <1>0, <1>5 DEF OnClose, ExecInv, NothingLeftBehind, Running, Held
<1>6. CASE OnError
  <2>1. exitCode' = "spawn error" /\ timer' # "armed" /\ events' = "none"
    BY <1>6 DEF OnError, ExecInv
  <2>2. QED
    BY <1>0, <2>1, CodesAssumption DEF ExecInv, NothingLeftBehind, Running
<1>7. CASE UNCHANGED execVars
  BY <1>0, <1>7 DEF execVars, ExecInv, NothingLeftBehind, Running
<1>8. QED
  BY <1>1, <1>2, <1>3, <1>4, <1>5, <1>6, <1>7 DEF ExecNext, Environment, Handlers

\* The types, in every state.
THEOREM ExecTypeCorrect == ExecSpec => []ExecTypeOK
<1>1. ExecInv /\ [ExecNext]_execVars => ExecInv'
  BY ExecStep
<1>2. ExecInv => ExecTypeOK
  BY DEF ExecInv
<1>3. QED
  BY <1>1, <1>2, ExecStart, PTL DEF ExecSpec

\* No timer is left armed, and no command running, behind a verdict.
THEOREM ExecLeavesNothing == ExecSpec => []NothingLeftBehind
<1>1. ExecInv /\ [ExecNext]_execVars => ExecInv'
  BY ExecStep
<1>2. ExecInv => NothingLeftBehind
  BY DEF ExecInv
<1>3. QED
  BY <1>1, <1>2, ExecStart, PTL DEF ExecSpec

--------------------------------------------------------------------------------
\* Each event is a step of the contract, or none of its business.
LEMMA EventIsContractStep ==
    ASSUME ExecInv, [ExecNext]_execVars
    PROVE  [Contract!Ends \/ Contract!TimeIsUp \/ Contract!Passes \/ Contract!Fails]_<<exitCode, killed, verdict>>
<1>1. CASE SpawnFails \/ Exits
  <2>1. Contract!Ends
    BY <1>1, CodesAssumption DEF SpawnFails, Exits, Running, Contract!Ends
  <2>2. QED
    BY <2>1
<1>2. CASE StartsChild \/ Writes \/ ChildExits \/ OnData \/ UNCHANGED execVars
  BY <1>2 DEF StartsChild, Writes, ChildExits, OnData, execVars
<1>3. CASE OnTimeout
  <2>1. verdict = Pending
    BY <1>3 DEF OnTimeout, ExecInv, NothingLeftBehind
  <2>2. Contract!TimeIsUp
    BY <1>3, <2>1 DEF OnTimeout, Running, Contract!TimeIsUp
  <2>3. QED
    BY <2>2
<1>4. CASE OnClose /\ verdict = Pending
  <2>1. verdict' = (exitCode = Success /\ ~killed) /\ UNCHANGED <<exitCode, killed>>
    BY <1>4, Zenon DEF OnClose, Resolve
  <2>2. CASE exitCode = Success /\ ~killed
    <3>1. verdict' = TRUE
      BY <2>1, <2>2, Zenon
    <3>2. Contract!Passes
      BY <1>4, <2>1, <2>2, <3>1, Zenon DEF Contract!Passes
    <3>3. QED
      BY <3>2
  <2>3. CASE ~(exitCode = Success /\ ~killed)
    <3>1. verdict' = FALSE
      BY <2>1, <2>3, Zenon
    <3>2. Contract!Fails
      BY <1>4, <2>1, <2>3, <3>1, Zenon DEF Contract!Fails
    <3>3. QED
      BY <3>2
  <2>4. QED
    BY <2>2, <2>3
<1>5. CASE OnError /\ verdict = Pending
  <2>1. verdict' = FALSE /\ UNCHANGED <<exitCode, killed>> /\ exitCode = "spawn error"
    BY <1>5 DEF OnError, Resolve, ExecInv
  <2>2. Contract!Fails
    BY <1>5, <2>1 DEF Contract!Fails, Success
  <2>3. QED
    BY <2>2
<1>6. CASE (OnClose \/ OnError) /\ verdict # Pending
  BY <1>6 DEF OnClose, OnError, Resolve
<1>7. QED
  BY <1>1, <1>2, <1>3, <1>4, <1>5, <1>6 DEF ExecNext, Environment, Handlers

\* One verdict, "passed" only of a command that ended with 0 before its time was
\* up, in whatever order exit, timer, output and error come.
THEOREM ExecKeepsContract == ExecSpec => OneVerdict
<1>1. ExecInit => Contract!ContractInit
  BY DEF ExecInit, Contract!ContractInit
<1>2. ExecInv /\ [ExecNext]_execVars => ExecInv'
  BY ExecStep
<1>3. ExecInv /\ [ExecNext]_execVars =>
        [Contract!Ends \/ Contract!TimeIsUp \/ Contract!Passes \/ Contract!Fails]_<<exitCode, killed, verdict>>
  BY EventIsContractStep
<1>4. QED
  BY <1>1, <1>2, <1>3, ExecStart, PTL DEF ExecSpec, OneVerdict, Contract!ContractSpec

================================================================================
