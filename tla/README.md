# Aegiuw in TLA+

TLA+ specifications of Aegiuw, checked with TLC and proved about with TLAPS. They
are written from the source; where a document or a comment says otherwise, the
difference is listed under *Disagreements*.

## 1. Inventory

Aegiuw inspects the first bytes of an outgoing connection, decides whether the
destination may be reached directly ("native") or only through an isolated path, and
has its own runner of quality gates that decides whether a commit or a push may go on.

### The inspection side (Rust)

| Component | State | Operations | Hard because | Correct when |
|---|---|---|---|---|
| **Record reassembly** `sni.rs` 1338-1467 | cursor, `handshake_buf`, `expected_total` | `try_reassemble_single_record`, `reassemble_handshake_owned`; the caller calls again on a longer slice | two implementations of one contract; records split, coalesced, empty, torn; two limits | both paths return the handshake the contract names; an answer never changes when more arrives; the buffer is bounded; the loop ends |
| **ClientHello walk** `sni.rs` 1488-1682 | cursor, `seen`/`extension_order`, `psk_seen`, `sni_host`, `ech_present` | one per way an extension is handled; projections `extract_sni`, `parse_handshake_message`; pre-filter `verify_handshake_type` | any order of extensions, trailing bytes, duplicates, ECH before or after the name; two readers of one length | the outcome is a function of the block's content and not of the order of reading; ECH always masks the host; the pre-filter drops nothing the parser takes |
| **byte cursor** `sni.rs` | slice and position | fixed and length-prefixed reads | a length that overruns, at every depth | never leaves its slice; no prefix makes the reader lose its place |
| **server_name body** `sni.rs` 2023-2148 | a cursor, the host so far | list walk, label, length, address and character checks | limits measured after stripping a dot, several entries | accepts exactly the hosts that its rules name |
| **other bodies** `sni.rs` | a cursor, the list so far | ALPN, versions, shares, limits, codepoint lists | lists in lists; entries that overrun; empty and odd lists | the answer is every entry of the bytes, in wire order, or none |
| **builders** `sni.rs` tests, `aegiuw-daemon/src/main.rs` | none | messages and extensions from values | every length is written before what it measures | what is built is parsed back field by field |
| **metadata, accessors, host helpers** `sni.rs` | `ClientHelloMetadata` | projections, classes of codepoints, HelloRetryRequest check | GREASE in every list; ECH; unknown codepoints | projections agree with each other |
| **fingerprints** `fingerprint.rs` | none | JA3, JA4, known clients, likely launch source | GREASE filtering, counts cut at 99, a score with bands | stable under what a client changes by itself, and only under that |
| **risk verdicts** `risk.rs` | the verdict | `severity`, `into_signals`, `Verdict::evaluate`, `Verdict::safe` | the declaration order of an enum is policy; the empty list | deny by default; the worst signal decides |
| **typosquat heuristic** `levenshtein.rs` | rows `prev`, `curr`; best so far | `distance`, `check_typosquat` | early exit in the loop, ties, two rolling rows | nearest brand, first of equals; never for a brand itself |
| **launch context** `context.rs` | none | `assess_context` | - | elevated parents leave a signal |
| **daemon pipeline** `aegiuw-daemon/src/main.rs` | one connection's verdict | `assess`, choice of the path | the short-circuit comes before the heuristics; outcomes without a host | native only for a visible, cached host; every isolated connection carries its evidence |
| **tools** `aegiuw-sni-inspect` | the histogram | decode hex, tally, rank, report; inspect one line | lines that do not decode, hellos that do not parse, ties | every line is counted once, under what inspecting it shows |
| **dissector, worker, fuzzing** | none | a Lua parser, a stub, test drivers | - | - |

The pieces call each other in one thread: `assess` calls `extract_sni`, which calls
`parse_client_hello_full`: reassembly, then the walk, which calls a body parser per
extension and fills the metadata, which fingerprints and tools read. The outcome goes to the allow-cache and the heuristics, and their signals
to `Verdict::evaluate`. What varies is the input: what has arrived, how it is cut into
records, which extensions are there and in which order.

### The quality side (JavaScript)

| Component | State | Operations | Hard because | Correct when |
|---|---|---|---|---|
| **Command runner** `exec.mjs` | output, timer, `killed`, a promise | spawn, collect, kill when overdue, settle on `error` or `close` | events in any order; a kill that comes too late; a grandchild with the pipes | one verdict, "passed" only in time and with code 0; no timer and no command behind it |
| **Runner** `runner.mjs` | wave, pool of running gates, results, exit code | select, launch up to a limit, await, abort or go on, exit | gates are processes that end in any order; timeouts; exceptions; limits that parse to nothing | a wave starts only when the one before has passed; exit code 0 means all has passed |
| **Cache** `cache.mjs` | `index.json`, shared by every invocation | key, lookup, store, clear | read-modify-write without a lock, a truncating write, crash between the two; the key is older than the pass | a key in the index is a key over whose inputs the gate passes |
| **Registry, triggers, gates** | none | which gate applies to which change, secrets, SPDX | declared inputs, files that make a gate apply and files really read are three lists; added lines are found by reading a patch | every gate that could fail runs, or passed over the same contents |
| **Git surface, hooks** | none | diff range, staged files, dirty tree | several refs in a push, deletions, renames, quoted paths, a patch too long for its buffer, index and worktree differ | the tree that is checked is the one that is committed or pushed |

An invocation is started by a hook or by hand; two may run at once, over one worktree
that is being edited. They meet in the worktree and in the cache index.

## 2. Modules

| Module | Role |
|---|---|
| `HandshakeContract` | abstract specification: a call on *n* records answers `Promise(n)` in one step |
| `Reassembly` | the fast path, the loop, one action per way an iteration ends, and the caller; EXTENDS the contract |
| `ClientHello` | the extension walk, the outcome, and the *meaning* of a block stated without an order of reading |
| `Cursor`, `ServerName` | bounds-checked reads over bytes; the rules of a host name, and the labels of one |
| `ExtensionBody` | the body parsers, entry by entry over bytes, and what a body means without a cursor; EXTENDS both |
| `Metadata` | the hello as values, `ClientHelloMetadata` and its accessors |
| `HelloBytes` | `parse_handshake_message_full` over whole messages; EXTENDS `ExtensionBody` and `Metadata`, implements `ClientHello` |
| `HelloBuilders` | the builders, composed with `HelloBytes`: what is built is what is observed |
| `Fingerprint`, `Corpus` | JA3, JA4, the tables and the launch source; the clients of the test corpus |
| `ClientDrift` | a client that changes its GREASE, its order, its host and its offer between connections |
| `ForkPolicy` | abstract specification: one decision from the whole connection; EXTENDS `ClientHello` |
| `Fork` | `extract_sni` (with the walk in it), the allow-cache, the heuristics, evaluation and the path, call by call; EXTENDS `ForkPolicy` |
| `NearestBrand` | abstract specification: the first of the closest brands, or none for a brand, in one step |
| `Typosquat` | `check_typosquat` and `distance`, cell by cell |
| `HexLines`, `SniTools` | the tools' library (decoding, histogram, ranking); `sni-replay` over a corpus, then `sni-inspect` on one of its lines |
| `CommandContract` | abstract specification: a command gets one verdict |
| `ExecCmd` | `runCmd` with its command, grandchildren, timer and events |
| `QualityRunner` | invocations, gates, cache index and editor, interleaved |
| `PushScope` | worktree, index, commits, remote and cache; which gates a hook runs over which tree, and which it takes from the cache |
| `MC...` | the constants TLC needs, one module per specification that is run |
| `ReassemblyProofs`, `ExtensionBodyProofs` (with `HelloBytes` and `HelloBuilders`), `ForkProofs` (with the walk of `ClientHello`), `ClientDriftProofs`, `TyposquatProofs`, `SniToolsProofs`, `QualityRunnerProofs` (with `ExecCmd`), `PushScopeProofs` | invariants and proofs |

A detailed specification implements an abstract one five times, each by `INSTANCE` or by
extension with the abstract specification as a property: `Reassembly` the
`HandshakeContract`, `HelloBytes` the walk of `ClientHello`, `Fork` the `ForkPolicy`,
`Typosquat` the `NearestBrand`, `ExecCmd` the `CommandContract`.

Each mutant operator (commented "Mutant") stands before the definition it would
replace and is used by no specification; it shows that the property it is paired
with in `PROJECT.json` can fail.

### How state and actions correspond to the code

**Reassembly.** Bytes are lengths: `cut[i]` is the payload in records 1..i, so the
buffer is determined by its length. `hs[i]` is the content type, `claim` the u24 read
from the first four payload bytes, wherever records cut them. `pos` is the cursor,
`buf` is `handshake_buf.len()`, `need` is `expected_total`; `torn` says that the slice
ends inside a record, which the code finds with `?` and answers like the end of the
slice. `FastHit` and `FastMiss` are `try_reassemble_single_record`, the rest one
iteration of the loop, in the order of the code: content type, record length, empty
record, append, cap, claim, complete. `Deliver` is the caller.

**ClientHello.** An extension is a type and the verdict of its body parser. What
precedes the block is good or not, what follows it nothing, one to
three bytes, or an extension that overruns. `order` is `extension_order`, in which the
duplicate check looks. `ReadEch`, `ReadHost`, `RejectBody` and `ReadOther` are the arms
of the match; they share what comes before the match (`NewType`).

**ExtensionBody.** `kind` is the parser that was called, `body` its slice, `cur` its
cursor, `at` where it stands or what it returned ("some", "none", "skip"), `out` the
list or host it builds. One action reads one entry. A `key_share` entry is read in two
steps, its group and its key, each with a length of its own. The meaning of a body
(`Cuts`, `HostsNamed`) is stated over the whole slice, as the ways to cut it in entries.
A byte is 0..255; a host is its bytes. UTF-8 (characters of one to four bytes, no overlong form, no
surrogate) and `IpAddr::from_str` are external.

**HelloBytes.** `pc` says who is at work, the caller or the body parser; `block` is the
cursor over the extension block; `meta` is `ClientHelloMetadata`, whose `psk_present` is
also the walk's `psk_seen`. `GoodHello` is the chain of `?` before the block. `Walk` maps the
message to the record that `ClientHello` reads: its prelude, the extensions that its
lengths delimit, each with the meaning of its body, and its tail. `VerifyHandshakeType` is the pre-filter, over
the same bytes: type, three bytes of length, cap.

**HelloBuilders.** A hello of values (`Metadata`) is written to bytes as `build_...` and
`with_...` do. `BuiltSpec` is `HelloBytes` over written hellos and over messages that nobody
builds.

**Metadata, Fingerprint, ClientDrift.** `Observe` is the metadata of a hello of values,
which `BuiltIsObserved` ties to the parser. A digest is the text it is taken of, cut where
the code cuts the digest: two fingerprints differ in the model when the texts do. JA4 also keeps
its counts cut at 99 and its two characters of ALPN. `ClientDrift` has one action for each
thing that a client changes between connections; the properties compare the fingerprints
of one hello with those of the next.

**Typosquat.** `prev`, `curr`, `i` and `j` are the rows and indices of `distance`, a cell
an action; `SwapRows` is `mem::swap` with the start of the next row. `n` and `best` are the
loop of `check_typosquat`. `Distance` of the abstract module is the recursive definition of the
fewest edits.

**HexLines, SniTools.** A line is characters of the classes the decoder tells apart:
digits, blanks, separators, others. The bytes that parse are a small set with the hello they
hold; `parse_client_hello_full` itself is the modules above. `tally` is `hist`.

**Fork.** `at` is the next call. `outcome`, `signals` and `level` are the values
handed from call to call. Hosts are compared through `FoldCase`, as
`eq_ignore_ascii_case` does; `Distance` is a constant.

**ExecCmd.** The environment is the command and what it starts: each may write, start,
exit. `OnData`, `OnTimeout`, `OnError` and `OnClose` are the handlers; `events` says which of
node's two last events is due or was emitted. A chunk is counted, not spelled. `killed` is the
flag of the closure, `verdict` and `output` are what the promise was resolved with first.

**QualityRunner.** A thread of JavaScript does not interleave with itself between two
awaits, but every access to a file that another process can write is an action of its own: `HashInputs` is
`computeCacheKey`, `LookUp` the read of the index and, on a miss, the spawn (`Launch` is the callback of a gate
without a key); `GateReads` is the gate's process reading the worktree; `StoreLoads`, `SaveTruncates` and
`SaveWrites` are `storeCache`. `Edit` may come between any two of them. A file has one of two contents, one that
the gates reading it accept and one that they refuse; an index is empty, garbage (two
writers over each other) or a set of keys. `Declared` is the registry's list of inputs, `ReadBy` what the gate reads, and
neither need have the other. Two variables are history and guard nothing: `disturbed`, the invocations during which somebody
edited, and `tainted`, the keys that such an invocation has stored.

**PushScope.** An invocation is one step here (its steps are `QualityRunner`'s), the
trees are the state: worktree, index, and commits with their pasts; and the keys of the cache index. `Commit` and `Push`
are the two hooks around git's own step: `StagedContext` and `PushContext` are
`buildContext`, `Resolve` is `resolveDiffBase`, `Relevant` the ACMR filter and
`filterRelevant`, `MustRunFull` is `shouldRunFullSuite`, `Applies` and `Watched` the registry's
`applies` functions, `ScanPasses` and `SpdxPasses` the gates in JavaScript. cargo and tsc are
`Builds`, over whatever files they read (`ReadBy`): a file they refuse, or a file without one it needs. `Passed` is the
runner's callback, lookup first; `KeyOf` has the declared inputs with their contents and, for a gate over changed files,
the names of those; `StoreKeys` is what a run leaves in the index. `Check` is a run that lets nothing through (a hook
that refuses, a run by hand) and leaves its keys all the same, `SetCaching` the variable that disables the cache.
`AddedHits` is the scan of a patch: a file that may only have moved has no line in it (`MayHaveMoved`, the fewest
lines that rename detection can leave), nor has a patch that is longer than `gitSync` holds (`Bulky`); a quoted path
is read as the file before it (`Quoted`), and an added line that begins with `++` as a header ("masked").
Contents are classes (good, without header, failing, not building, with a secret, masked, absent). `ListedBefore` is the
order in which git writes the refs to the hook. Stage, checkout, branch and reset are git's and marked
external; a force push is a push of a branch that was reset.

## 3. Runs

| Run | Question | Bounds |
|---|---|---|
| `reassembly` | Does every call return what the contract promises, through either path, on every prefix; do calls agree; does the buffer stay bounded; does every call end; do fast path and loop implement the contract? | 3 records of 0, 1, 3, 4, 5 or 6 bytes, cap 8, record limit 5, claims 0, 2, 4, 5 |
| `wire` | Over bytes: is every body read as what it means and in bounds; is every built hello reported as built, and let through by the pre-filter exactly when it is within the cap; do the bytes drive the walk as `ClientHello` walks? | built hellos of up to 3 extensions; list values of up to 3 entries; names of up to 10 bytes over two symbols and 4 over six, and characters of two, three and four bytes, whole, cut, overlong and surrogate; raw bodies of up to 4 bytes over four values (key shares of 6); every truncation and several alterations of a message; host limit 9, label limit 4, cap 64, record size limits 2..258 |
| `fork` | Is the outcome of the walk the meaning of the block, in every order, and does ECH mask the host; do the calls together carry out the policy, with whole evidence, for every connection? | all blocks of up to 2 extensions over 5 types and 6 hosts, and of up to 4 over one host and bodies that parse; 2 brands, 2 parents |
| `client_drift` | Which changes of a client do fingerprints, launch source, accessors and the HelloRetryRequest check follow? | the clients of the corpus and eight more, 2 GREASE values, 10 extensions to add, 1 new host, 2 changes |
| `typosquat` | Are the rolling rows edit distances; is the brand found the first nearest? | words of up to 3 letters, two of them one letter in two cases; lists of up to 2 of 5 brands; threshold 2 |
| `tools` | Is the histogram the corpus, the report its ranking, and do the two tools agree on a line? | corpora of up to 3 of 10 sorts of lines, longer ones of lines that name hosts, 3 hosts, 2 of them listed |
| `exec` | Does a command get one verdict, and is nothing left behind it? | 2 grandchildren, 3 chunks of output, 4 ways to end |
| `runner_safety` | Fail-fast waves, a bounded pool, honest exit codes; whom does the cache vouch for when somebody edits while runners are at work? | 2 invocations, 3 gates in 2 waves (one declares what it reads, one nothing of it, one is never cached), 1 file, limits 1 and 2, 1 edit at any moment; of a second invocation, a limit of 2 and an edit at most two (`AnyTwo`) |
| `runner_undeclared` | see *Disagreements* | the second of these gates alone, 2 invocations, 1 edit |
| `runner_live` | Does every invocation end, unless a gate is never closed? | 2 invocations, 3 gates, limits 1 and NaN |
| `runner_not_a_number` | see *Disagreements* | 2 invocations, 3 gates, limits 1 and NaN |
| `push` | Is a tree pushed that a gate refuses, and how does a secret get into a commit? | 11 files: three crates, a manifest, the worker, a document, and one each of excluded, self-excluded, quoted, long and `.env`; 3 commits, 3 turns (edits, runs by hand, cache on or off); one at a time of a second branch, the cache (over a crate, the manifest and the worker), and secrets (`OneTopic`) |

*Properties by run.* `reassembly`: `AnswerIsPromise`, `BufferBound`, `AnswerStable`,
`ContractSpec`, `CallReturns`.
`wire`: `ListIsMeaning`, `PairsVerbatim`, `HostIsMeaning`, `BuiltIsObserved`, `BuiltPassFilter`, `ImplementsWalk`.
`fork`: `OutcomeIsMeaning`, `EchMasksHost`, `NativeIsVisibleAndCached`, `EvidenceComplete`, `PolicySpec`, `EveryConnectionRouted`.
`client_drift`: `VersionsAgree`, `GreaseInvisible`, `OrderInvisible`, `OfferNeverDemotes`,
`OfferVisible`. `typosquat`: `RowsAreDistances`, `FindsNearest`. `tools`: `TallyIsCorpus`,
`ReportRanksHosts`, `ToolsAgree`. `exec`: `NothingLeftBehind`, `OneVerdict`,
`SettlesUnlessHeld`. `runner_safety`: `WavesInOrder`, `ExitCodeHonest`, `CacheSound`,
`ExitZeroMeansTreePasses`; `runner_undeclared`: `EveryExitZeroEarned`; `runner_live`:
`EveryRunExits`; `runner_not_a_number`: `ExitCodeHonest`. `push`: `SecretsEnterUnseen`, `PushedTreeAccepted`.
A type invariant is run in `reassembly`, `fork` and `wire` (there it says
that cursors stay within their slices); everywhere it is needed by a proof it is proved.

*Why the bounds are enough to be interesting.* With 3 records, a cap of 8 and a limit
of 5, a header can be cut anywhere over two or three records, be interrupted by empty
ones, complete exactly at, before and beyond the cap, and a record can be over its own
limit while the total is not (6 > 5, 6 < 8); lengths 3 and 4 sit on both sides of the
header. Four extensions are enough for a duplicate or ECH before and after a name with
something between and after, and for PSK in every position. In `wire` the limits of a
host and of a label are scaled down so that names lie on both sides of each with and without
the dot that is stripped; the raw bodies hold every length that is too short, exact and too
long for one, two and three entries. The hosts of `fork` are
the cached one in two spellings, one near both brands but nearer one, one as near to
both, a brand that is near the other, and one near none. Two changes of a client let
one undo or hide the other. Words of three letters fill rows of every shape up to 4 by 4, with
two swaps, and reach distances on both sides of the threshold. Two grandchildren are one
that ends and one that stays. Two invocations give the
lost update, the torn write and the torn read; the third gate gives a wave with two. One edit breaks a file, or mends it,
before, between or during the two invocations, and between the hashing and the reading of a gate. The constraint `AnyTwo` has
each two of interleaved invocations, gates at once and edits, and leaves the three together to the theorems.
In `push` three edits are enough to break a tree and change a second file, to break a
commit that a later one is built on, and to put a secret in one place, take it away and
put it in another; three commits give a range of two, a branch from an
old commit, and a reset with a forced push. A run by hand or a change of caching
is a turn as well: one edit and one of each give a key of one tree that is met with another. The constraint `OneTopic` keeps the three
dimensions apart, as three small models would: with a second branch no cache, with secrets neither; the
theorems have all of them at once. `MaxEdits` bounds the editor of the runner, `MaxTurns` what is done in the clone between commits, `MaxCommits` the
history, `MaxChanges` the client, `MaxOutput` the command. `SYMMETRY` is over the
invocations, in `runner_safety`.

*Deadlock.* Checked for the runner (with `Terminated` as the stutter of a system that is
over). Switched off elsewhere: the parsers, the tools, `typosquat` and `exec` stop when
their answer is there, a client stops after `MaxChanges`, and in `PushScope` the bounds on turns and
commits may leave a clone that can neither commit nor push.

*Fairness.* Weak fairness of the call's steps in `Reassembly` and `Fork`: it
is straight-line code on one thread without I/O. Nothing is assumed of the connection:
`Deliver` need not happen. `ExecCmd` has weak fairness of its four handlers, since the event
loop serves what is due, and of nothing else: no process need ever end. Hence the property is that a
verdict comes *unless* a process that the command started keeps the pipes for ever; the kill
reaches the command only (`exec.mjs` 31-34). For the runner, weak fairness of each invocation's own steps (`RunnerStep`), which the event loop serves, and none of its
gates: `SettlesUnlessHeld` is all that `runCmd` promises of one. `EveryRunExits` therefore says that an invocation ends *unless* one
of its gates stays unsettled for ever. Crashes and edits are not fair. `wire`, `client_drift`, `typosquat`
and `tools` are about safety and need none.

## 4. Disagreements

Two are runs that TLC ends with a counterexample, each of a property that quotes what a document or a comment
says (`PROJECT.json`, "findings").

- `runner_not_a_number`: `--concurrency x` gives `NaN`, no gate is launched, and node leaves with exit code 0 when the
  event loop has drained.
- `runner_undeclared`: "never use a cache entry unless every meaningful input is in the key" (`cache.mjs` 12). The inputs of
  `spdx-headers` are empty (`registry.mjs` 88): its key has names and no contents, and in full mode not even names. A file that has
  lost its header is passed from the cache. The same goes for the crate that the Rust gates leave out: they
  run over the workspace and declare two of its three crates (69, 103, 119, 172).

No run ends with one of the others.

*Quality gates.* The properties of the passing runs make an exception of each of these. Take `tainted`, `Trusted`,
`KeepsFiles` or the `Blind` files out of its formula, and TLC finds what is described within the bounds of the run.
- "cache successful gates ONLY" (`cache.mjs` 7): the key is taken (`runner.mjs` 269) before the gate reads
  the tree (284), so a file that is mended in between has its refused contents stored as passed (`tainted` in `CacheSound`).
- In a push too, the pass of `spdx-headers` or of a Rust gate may be an earlier one over other contents (`Trusted` in `PushedTreeAccepted`).
- "scoped run is safe" (`triggers.mjs` 51): a range that deletes a Rust file and changes a document has
  the document as its only relevant file (`git.mjs` 33); no Rust gate applies, and what is pushed need not build (`KeepsFiles`).
- "Scans the staged diff" (`secrets.mjs` 8), "never commit signing keys or device tokens"
  (`.gitignore` 23): a file that has only moved has no added line in `git diff` as it is called (`git.mjs` 39), and quoted
  paths, lines that begin with `++` and patches longer than `gitSync` holds hide what they add (`SecretsEnterUnseen`).

*Parser.*
- "The pre-filter must never reject inputs that the parser would actually entertain" (`sni.rs` 4907,
  `docs/DECISIONS.md` 470). The parser drops the u24 length (1494), the pre-filter refuses one above the cap (1834), so they differ
  on a message whose length field alone is wrong. Of built messages, whose length is right, `BuiltPassFilter` holds.
- "Bytes past the end of the first complete handshake are ignored" (`sni.rs` 190-192): they count
  against the cap when they are in the completing record (1441). `Promise` states what the code does.
- The cap is said to be checked "before the allocation grows past it"; the fragment is appended first, and
  what holds, and is proved, is `BufferBound`: less than cap plus one record.
- `NotFound` is documented as "no server_name extension was present"; a `server_name` without a usable
  entry gives it as well. `ServerNameOutcome::Skip` names the empty list, which is malformed
  (2003, 2030-2036).
- `alpn_classified` (714-717) says that an empty list never reaches it; `parse_alpn_extension` accepts one. A host with two dots at its end keeps one. A prefixed read that fails has moved over the
  length, where the cursor says "advance only on success"; no caller goes on after it. The test for an odd length
  of a codepoint list is redundant with its reads.
- The comment that describes `is_idn_host` (1203-1224) stands before a constant.

*Fingerprints.*
- The JA4 in the table of known clients (`fingerprint.rs` 573-578) is FoxIO's, whose hashes are of lists in hexadecimal;
  the code hashes lists in decimal, so the entry matches no hello for which the code computes a JA4.
- `highest_supported_version` leaves out codepoints nobody knows, JA4 says "00" for them (`VersionsAgree`
  has the case). A GREASE protocol in ALPN is not filtered in JA4.
- The Safari of the repository's own fixture scores like a library.

*Heuristics and tools.*
- The exact match folds case, the distance does not: a brand in another case is no typosquat, and one with a letter
  changed besides counts every letter in another case as an edit.
- The edit distance is said to use O(min(n, m)) space; the rows are as long as its second argument.
- `replay.rs` 15 tolerates `0x` prefixes; `decode_hex` drops separators and has no notion of one, and its
  own example, `0x16` (`lib.rs` 20-22), has an odd number of digits and is refused.
- A line that decodes to no byte is counted as malformed by `sni-replay` and refused by `sni-inspect`
  (`ToolsAgree` has the case). The share of ECH is documented over hellos "successfully parsed" and taken
  over malformed ones too.
- The comment at `sni-inspect`'s `main.rs` 75-78 allows `NotFound` where only malformed is possible. `-h` exits with 2.

## 5. What is proved

By TLAPS, for every value of the constants that satisfies the named assumptions of the modules:
any number of records and any lengths, blocks of any length, bodies of any bytes, any hosts, brands,
caches and parents, any gates, files and number of invocations.

**Reassembly.** The inductive invariant is `TypeOK`, `LoopInv`, `AnswerIsPromise`,
`AnswerHolds` and `BufferBound`. `AnswerIsPromise` alone is not inductive: in the loop one
needs that the buffer is the payload of the records read, all acceptable, and that none
of them completes the handshake (`LoopInv`). Then a rejection at record *pos + 1* is
justified because the completing record, if there is one, comes no earlier
(`CompletesLater`), and completion is justified because it is that record. `AnswerStable`
follows since a promise other than `None` is kept on longer prefixes (`PromiseStable`);
`AnswerHolds` carries it over deliveries. `ImplementsContract`: every step of a call but
the last is a stutter of the contract, the last is `Answer`, a delivery is `MoreArrives`
(`StepImplements`; that the others show the caller nothing is `QuietStep`).

**ClientHello.** The invariant is `TypeOK` and `WalkInv`: what has been collected is
exactly what extensions 1..i-1 say, no rule is broken so far, and a rejection names
a rule that the whole block breaks. At the end 1..i-1 is the block, and `Outcome = Meaning`
and `EchMasksHost` follow.

**ExtensionBody.** Three facts hold for every sequence of bytes: the cursor stays within its slice
(`CursorInBounds`), a codepoint list is answered with all its pairs in wire order
(`PairsAreVerbatim`), and a host is bytes of the wire but for one dot (`HostIsOnTheWire`). The invariant has
what is behind the cursor (`PairsSoFar`) and where the host was read (`HostRead`); the lemmas on
`Cursors` say what each read leaves of a cursor. `ListsHaveMeaning` and `HostsHaveMeaning` say that the answer is
the meaning of the whole slice. The first needs that a body can be cut in one way only (`CutsAgree`): two cuts that
differ do so at a least place, and there the length that stands before an entry tells both where it ends. The invariant
(`ListInv`) is that every cut of the body begins with the entries read so far, and every cut of what is behind the
cursor continues them to a cut of the body. The second is that the walk over labels refuses what the limits of a name
refuse, and that nothing after the sole entry is looked at (`NameInv`). These theorems are about the module's own
specification, a call on any body; `CalledParsersHaveMeaning` states all of them of the calls that `HelloBytes` makes.

**HelloBytes.** `ImplementsWalk` is proved for every set of messages (`BytesImplementWalk`, and `BuiltImplementsWalk` for built
ones). The invariant (`BytesInv`) is that of the body parsers, together with where the walk stands. The extensions read so far are
the first ones of the message and the cursor is at the start of the next (`BlockInv`, `CallInv`); the metadata has the
order and the flags of those (`MetaInv`); and an answer, or its absence, is the verdict of the abstract walk on the body
(`AnswerInv`, from which `AnswerIsVerdict`). `AnswerInv` needs the meaning of the body, hence the invariants of the parsers are in it;
and a refusal is justified by the slice as a whole, while the parser stops at the first entry that is bad.
Where extensions start is a recursive function (`Starts`). That such a function exists (`FromIs`), and that it is a list
of starts that ends where no further one fits (`StartsAre`), is shown from the end of a block towards its first byte:
the least offset from which on it holds is 0. With that, each action is one of `ClientHello` or a stutter: `CallParser` and the
steps of a parser stutter, since the abstract walk moves when the answer is taken (`Behind` leaves the extension out whose
body is being parsed); there is one lemma for each other action. `MessagesAssumption` says that messages are bytes.
`HostsAssumption` says that no host has the same text as a verdict: the mapping puts both in one field. `BuiltAssumption` says
that the messages are at least those that are built.

**HelloBuilders.** `BuildersAndParserAgree` proves `BuiltIsObserved` for every set of hellos, with lists of any length: what the
builders write, the parser reads. What is written is a flattened list of pieces, and its places are where each of them starts
(`Laid`, `FlattenIs`); the pieces do not overlap, since the places are in order (`LaidInOrder`). Entries of a list, hosts of a name
list, suites and whole extensions are laid out so; `MessageIs` and `GoodHelloIs` do the fields before the block. While a
list is read, the answer is the first values written and the cursor is at the place of the next (`EntriesHeld`), so a parser answers with
the values or finds the one it has to refuse (`WrittenInv`, `WrittenKept`; `NameIsWritten` for a name). The places of the
extensions are a list of starts like that of `Starts`, and there is only one (`StartsAgree`, `BlockIsWritten`): the walk
stands at an extension of the hello. The invariant (`BuiltInv`) says of the n extensions behind that no two are of one type and
none but the last is `pre_shared_key` (`Follows`), that each flag is set exactly if one of them sets it (`FlagsSay`), and that each list
and the host are what is written in the one of their type, or None (`AnswersSay`). While a body is parsed the order and the flags
have it and the answers do not, hence two counts.
`FilterMeasuresTheWhole`: the three bytes of a length are that length (`U24Is`), so a built message claims what stands behind its header
(`ClaimIs`), and the pre-filter compares the whole with the cap.
`HellosAssumption` says what values a builder takes, `NoParserAssumption` that None is no parser. Nothing bounds the lengths but
that messages are bytes: a list too long for its prefix has none.

**ClientDrift.** The invariant (`DriftInv`) is that every hello of the client is one the parser accepts: codepoints of 16
bits and no extension twice (`IsHello`). All else is about what one change does to filtered and sorted lists. A filter
keeps an entry at the number of kept entries up to it (`Picked`, `StandingIs`), so an entry that is dropped leaves no
trace wherever it is put in (`DroppedUnseen`), and one that is kept makes the list longer (`KeptSeen`): hence
`GreaseStaysInvisible`, with `GreaseIsReserved`, which finds that the test of nibbles accepts exactly the 16 codepoints
of RFC 8701, and that no accessor knows one of them (`ReservedIsUnknown`), and hence `OffersAlwaysShow`. Sorting looks only
at how many entries are below a value; lists between which there is a bijection that keeps entries are sorted alike
(`RearrangedAlike`), which gives `OrderStaysInvisible`. The launch source is that of the score since the table of known clients
knows nobody (`LaunchIsScored`), and the score only grows with what is offered (`ScoreGrows`, `RankGrows`):
`OffersNeverDemote`. `VersionsAlwaysAgree` is by cases on the greatest codepoint, known or not (`HighestIs`,
`Ja4VersionIs`). `ClientAssumption` says that the client opens with hellos the parser accepts and takes its GREASE from
what is reserved. `CountAssumption` is needed since JA4 counts to 99 and does not hash `server_name` and ALPN: added
as the hundredth extension, one of these without a value does not show.

**Fork.** `ForkInv` adds to the walk's invariant what is known at each call: the outcome is what
the connection shows, the signals are those due so far, the level is the policy's. The
lemma `WorstSignal` says what the maximum over the signals is without the choice in it.
`ImplementsPolicy` is the refinement: `CacheHit` and `Evaluate` are `Judge`, `Route` is `TakePath`,
all else stutters. `NativePathIsTrusted` follows from the same invariant. `EvidenceIsComplete` needs
more, what each heuristic leaves behind it (`EvidenceInv`, `Gathered`), and that the brand a
signal names is one of the nearest, of which the first is one (`NearestIsUnique`).

**Typosquat.** `RowsInBounds`: every cell read or written is in its row, for words and lists of any
length. The swap is where it could fail, since the row that is written next has the length of the one read.
`RowsHoldDistances`: a cell holds the fewest edits between two prefixes. The fewest edits are those of a trace, a set
of letters of the one word that stay letters of the other (`TraceNarrows`, `FewestOfCell`), so that the recursive
`Distance` is shown to be a function that exists (`DistanceIsFewest`) and the rows to follow it. `ReportsNearestBrand`:
`best` is the first of the nearest brands seen so far, if none was met exactly, and the early return is that of the
abstract step. Words are closed under prefixes, and no report is None (`InputsAssumption`).

**SniTools.** `TallyHoldsCorpus`: with another line each set of lines that a count stands for grows by that line or
stays (`BehindGrows`), and one count grows with it. A line is tallied trimmed and shown as it is, so both
`TallyIsCorpus` and `ToolsAlwaysAgree` need that blanks around a line do not change its digits (`TrimmedDigits`): the digits
are found by how many come before them, and trimming moves their places without a change of their number.
`ToolsAlwaysAgree` then is that the copies of a line are among the lines of its bucket (`CopiesAreCounted`).
`ReportsInOrder`: the list that is sorted holds each host at the place of how many go before it (`Ranked`); inserting
one behind those that count as much moves the others by one or not at all (`RanksMove`, `InsertRanks`). That
the recursive `sorted` of `TopHosts` exists is `SortsExist`. The assumptions say that corpora are lines of characters
and that what parses is an answer with a host that occurs.

**ExecCmd.** The invariant is that only a failed spawn leaves `error` to be emitted, and that
behind a verdict or a `close` the command has ended and no timer is armed. `ExecKeepsContract`
is the refinement: `OnTimeout` makes the command overdue, the first of `OnError` and `OnClose` is its
verdict, and the second resolves a promise that is resolved.

**QualityRunner.** Two invariants. `OrderInv`: gates of later waves are fresh, the pool is within its limit, gates of
earlier waves have passed, an exit code says what the gates did. `WavesKeepOrder` and `ExitCodesHonest` follow
if NaN is not among the limits; `runner_not_a_number` shows that this is necessary. `SoundInv` and `IndexKept`: in an invocation
that no edit has disturbed, keys are those of the worktree (`KeysFresh`), and a gate that has read it and is content, or has passed
and is vouched for, passes over it (`PassesHold`); every key in the index, or about to be written to it, is sound, tainted or of
a gate that does not declare what it reads (`Kept`). It is kept by an edit because an edit disturbs every
invocation at work, and by a lookup because what it finds is `Kept` (`LookupKept`); a disturbed invocation taints what
it stores. It gives `CacheIsSound` and, with the first, `ExitZeroIsEarned`, in which `Vouched` names the gates that were run or
whose key is not tainted. Both premises are necessary: `runner_undeclared` shows it of the first, an edit between
hashing and reading of the second. Crashes, lost updates
and torn writes only lose keys, so they are in the proof as steps that keep a subset.

**PushScope.** `SecretsComeUnseen`: `SecretsEnterUnseen` is inductive beside `TypeOK`. A secret that HEAD does not have, in a file the
scan can read, is in the staged patch unless the patch is too long or as many files with a secret were deleted as
came up; those files stood in HEAD, which is in the past of the new commit, and what HEAD had where the scan looks came by
induction from where it does not. `ScopedRunSuffices` says that scoping and caching lose nothing, gate by gate. The invariant `KeysBuild` says that
the inputs of a key, of a command whose inputs cover what it reads, are inputs that it builds: a cached pass is
then as good as a run (`CommandAccepts`). What a scoped run leaves out has not changed since a tree that
the gate accepts, and what an unchanged file needs is still there because the range deletes
nothing. `Trusted` has the premises on the registry: its patterns know every file that the gate reads, and the inputs cover them
if the cache is on. It needs `ExcludedAssumption` (no tracked source or `.env` below the excluded
directories), and it does not need the triggers: only that an empty change set is run in
full. The premises on the push are in `CheckedPush` and `KeepsFiles`: one ref, pushed from its clean
checkout, from a start that passes. Without them nothing is promised: of several refs the first
decides the range, and the gates see HEAD's worktree.

**Induction.** The library's induction theorems take an operator as a parameter, which none of the provers in use can
instantiate. `LeastNatural` stands in for them: of a set of numbers that is not empty one is the least, since the sets
0..k are well-founded under inclusion (`FS_StrictSubsetOrderingWellFounded`). A fact about all numbers is then shown
of the least one for which it would fail.

**Only model-checked.** Liveness (`CallReturns`, `EveryConnectionRouted`, `EveryRunExits`,
`SettlesUnlessHeld`): the provers in use have no fairness reasoning and no ENABLED.
Every other property of a passing run is also a theorem.

## 6. Not modelled

- `is_cloudflare_ech_outer` (a comparison with a constant that nothing calls), `ja4_h` (a stub that ignores its
  input), `md5_hex_lower` and the rendering of lists, `malformed_hex_preview`, `is_http`,
  `offers_key_share_group`.
- A git that fails, for which `gitSync` answers with an empty string, but for the patch that is too long for its buffer.
- `cacheStatus`, `pruneOutputs`, printing: no decision depends on them. `install-hooks.mjs`.
- What a gate's grandchildren do to the gate after it.
- The hashing of inputs file by file: `HashInputs` reads them at once, since an edit between two of them disturbs the
  invocation like one behind them. The parts of a key that are the same in every run (schema, runtime, code of the runner).
- The Wireshark dissector (a second parser, in Lua, inside another program), the edge worker (a stub without state), fuzz
  targets, benches and shell scripts (they drive what is modelled).

## 7. Plan

Done: `Reassembly`, `ClientHello`, `Fork` and `PushScope` with their abstract specifications and proofs;
`ExtensionBody`, `HelloBytes` and `HelloBuilders` over bytes, with the refinement to `ClientHello` and
the agreement of builders and parser; `ExecCmd` and `QualityRunner`
with proofs; the refinement proved; `Typosquat`, `Fingerprint` with `ClientDrift`, and `SniTools`, with proofs.

Left: a `QualityRunner` whose gates are `ExecCmd`s, so that what an unsettled gate does to its invocation is one model; and the
other ways in which git fails.
