---------------------------------- MODULE Fork ---------------------------------
(***************************************************************************)
(* The decision pipeline of the daemon (assess and main of                 *)
(* crates/aegiuw-daemon/src/main.rs): extract_sni, with the extension walk *)
(* of ClientHello in it, then the allow-cache, the heuristics and          *)
(* Verdict::evaluate, one call after the other.                            *)
(***************************************************************************)
EXTENDS ForkPolicy, FiniteSets

VARIABLES
    at,        \* the call about to be made
    outcome,   \* what extract_sni returned
    signals    \* the evidence gathered, by kind

assessment == <<at, outcome, signals, level, path>>
forkvars == <<vars, assembled, parent, assessment>>

\* RiskLevel, in the order of its declaration.
Rank == [safe |-> 0, unknown |-> 1, suspicious |-> 2, high_risk |-> 3]

\* RiskSignal::severity.
Severity(s) ==
    IF s.kind = "typosquat" THEN "suspicious"
    ELSE IF s.kind = "risky_launch_context" THEN "high_risk"
    ELSE "unknown"

Signal(kind) == [kind |-> kind]
Typosquat(h, n) == [kind |-> "typosquat", domain |-> h, looks_like |-> n]

--------------------------------------------------------------------------------
ForkInit ==
    /\ Init
    /\ assembled \in BOOLEAN
    /\ parent \in Parents
    /\ at = "reassemble"
    /\ outcome = None
    /\ signals = {}
    /\ level = None
    /\ path = None

\* parse_client_hello_full gives up when there is no handshake to parse.
Reassemble ==
    /\ at = "reassemble"
    /\ \/ assembled /\ at' = "parse" /\ UNCHANGED outcome
       \/ ~assembled /\ at' = "cache" /\ outcome' = Malformed
    /\ UNCHANGED <<vars, assembled, parent, signals, level, path>>

Parse ==
    /\ at = "parse"
    /\ ParseStep
    /\ UNCHANGED <<assembled, parent, assessment>>

\* Mutant: the host is reported whether or not the block was refused later.
ExtractEarly ==
    /\ at = "parse"
    /\ Done \/ sni_host # None
    /\ outcome' = IF sni_host # None THEN Cleartext(sni_host) ELSE Outcome
    /\ at' = "cache"
    /\ UNCHANGED <<vars, assembled, parent, signals, level, path>>

\* extract_sni projects the metadata to an outcome.
Extract ==
    /\ at = "parse"
    /\ Done
    /\ outcome' = Outcome
    /\ at' = "cache"
    /\ UNCHANGED <<vars, assembled, parent, signals, level, path>>

\* Verdict::safe, the only short-circuit.
CacheHit ==
    /\ at = "cache"
    /\ outcome.kind = "cleartext"
    /\ HostInCache(outcome.host)
    /\ level' = "safe"
    /\ at' = "route"
    /\ UNCHANGED <<vars, assembled, parent, outcome, signals, path>>

CacheMiss ==
    /\ at = "cache"
    /\ outcome.kind = "cleartext"
    /\ ~HostInCache(outcome.host)
    /\ signals' = {Signal("not_in_safe_cache")}
    /\ at' = "typosquat"
    /\ UNCHANGED <<vars, assembled, parent, outcome, level, path>>

\* into_signals, for an outcome without a host.
IntoSignals ==
    /\ at = "cache"
    /\ outcome.kind # "cleartext"
    /\ signals' = {Signal(outcome.kind)}
    /\ at' = "context"
    /\ UNCHANGED <<vars, assembled, parent, outcome, level, path>>

\* The first of the nearest brands: a later one has to be strictly nearer.
Nearest(h, n) ==
    /\ n \in Near(h)
    /\ \A m \in Near(h) :
        \/ Distance[h][n] < Distance[h][m]
        \/ Distance[h][n] = Distance[h][m] /\ n <= m

\* Mutant: every brand within the distance is a signal, the exact one too.
CheckEveryBrand ==
    /\ at = "typosquat"
    /\ signals' = signals \cup { Typosquat(outcome.host, n) : n \in Near(outcome.host) }
    /\ at' = "context"
    /\ UNCHANGED <<vars, assembled, parent, outcome, level, path>>

\* Mutant: a host that is near no brand is not gone on with.
CheckSquatOnly ==
    /\ at = "typosquat"
    /\ \E n \in DOMAIN Brands :
        /\ Nearest(outcome.host, n)
        /\ signals' = signals \cup {Typosquat(outcome.host, n)}
    /\ at' = "context"
    /\ UNCHANGED <<vars, assembled, parent, outcome, level, path>>

CheckTyposquat ==
    /\ at = "typosquat"
    /\ \/ /\ IsSquat(outcome.host)
          /\ \E n \in DOMAIN Brands :
                /\ Nearest(outcome.host, n)
                /\ signals' = signals \cup {Typosquat(outcome.host, n)}
       \/ /\ ~IsSquat(outcome.host)
          /\ UNCHANGED signals
    /\ at' = "context"
    /\ UNCHANGED <<vars, assembled, parent, outcome, level, path>>

\* assess_context(parent_process, false).
AssessContext ==
    /\ at = "context"
    /\ signals' = signals \cup
            (IF parent \in Elevated THEN {Signal("risky_launch_context")} ELSE {})
    /\ at' = "evaluate"
    /\ UNCHANGED <<vars, assembled, parent, outcome, level, path>>

\* Verdict::evaluate: the worst signal decides, and no signal is "unknown".
Worst(S) ==
    IF S = {} THEN "unknown"
    ELSE Severity(CHOOSE s \in S : \A t \in S : Rank[Severity(t)] <= Rank[Severity(s)])

Evaluate ==
    /\ at = "evaluate"
    /\ level' = Worst(signals)
    /\ at' = "route"
    /\ UNCHANGED <<vars, assembled, parent, outcome, signals, path>>

\* Mutant: a connection that looks harmless is let through.
RouteUnlessRisky ==
    /\ at = "route"
    /\ path' = IF Rank[level] <= Rank["unknown"] THEN "native" ELSE "isolate"
    /\ at' = "done"
    /\ UNCHANGED <<vars, assembled, parent, outcome, signals, level>>

\* allows_native_path.
Route ==
    /\ at = "route"
    /\ path' = IF level = "safe" THEN "native" ELSE "isolate"
    /\ at' = "done"
    /\ UNCHANGED <<vars, assembled, parent, outcome, signals, level>>

AssessStep ==
    \/ Reassemble \/ Parse \/ Extract
    \/ CacheHit \/ CacheMiss \/ IntoSignals
    \/ CheckTyposquat \/ AssessContext \/ Evaluate
    \/ Route

ForkSpec == ForkInit /\ [][AssessStep]_forkvars

\* One thread, no waiting.
FairForkSpec == ForkSpec /\ WF_forkvars(AssessStep)

--------------------------------------------------------------------------------
SignalKinds ==
    {"not_in_safe_cache", "encrypted", "not_found", "malformed", "risky_launch_context"}

SignalSet ==
    [kind : SignalKinds]
        \cup [kind : {"typosquat"}, domain : Hosts, looks_like : DOMAIN Brands]

Outcomes == {Encrypted, NotFound, Malformed} \cup { Cleartext(h) : h \in Hosts }

ForkTypeOK ==
    /\ assembled \in BOOLEAN
    /\ parent \in Parents
    /\ at \in {"reassemble", "parse", "cache", "typosquat", "context", "evaluate", "route", "done"}
    /\ outcome \in Outcomes \cup {None}
    /\ signals \subseteq SignalSet
    /\ level \in DOMAIN Rank \cup {None}
    /\ path \in {"native", "isolate", None}

\* A connection on the native path shows, in a well-formed ClientHello without
\* encrypted_client_hello, a host name that the allow-cache holds.
NativeIsVisibleAndCached ==
    path = "native" =>
        /\ assembled /\ WellFormed /\ ~Present(ECH)
        /\ \E h \in Hosts : NamesHost(h) /\ HostInCache(h)

\* A connection on the isolate path carries its whole evidence: the launch
\* context when the parent is elevated, whatever else was found; at most one
\* brand, and then the nearest; that the host is not in the cache, or for a
\* connection without a host the reason why there is none.
EvidenceComplete ==
    at = "done" /\ path = "isolate" =>
        /\ parent \in Elevated <=> Signal("risky_launch_context") \in signals
        /\ Observed.kind = "cleartext" <=> Signal("not_in_safe_cache") \in signals
        /\ Observed.kind # "cleartext" => Signal(Observed.kind) \in signals
        /\ \A n \in DOMAIN Brands :
            (\E h \in Hosts : Typosquat(h, n) \in signals)
                <=> Observed.kind = "cleartext" /\ IsSquat(Observed.host) /\ Nearest(Observed.host, n)

\* Every connection is sent one way or the other.
EveryConnectionRouted == <>(path # None)

================================================================================
