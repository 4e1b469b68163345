------------------------------- MODULE ForkPolicy ------------------------------
(***************************************************************************)
(* What the fork promises of one connection (docs/PRD.md, Conditions A and *)
(* B, as assess and main of crates/aegiuw-daemon/src/main.rs carry it      *)
(* out): one decision, taken from the whole ClientHello and the parent     *)
(* process at once.                                                        *)
(***************************************************************************)
EXTENDS ClientHello

CONSTANTS
    FoldCase,     \* FoldCase[h] : h in lower case
    AllowCache,   \* ALLOW_CACHE
    Brands,       \* SAMPLE_BRANDS, a sequence
    Distance,     \* Distance[h][n] : edit distance from h to Brands[n]
    MaxDistance,  \* DEFAULT_MAX_DISTANCE
    Parents,      \* names of parent processes
    Elevated      \* those that classify_parent takes for mail or documents

ASSUME HeuristicsAssumption ==
    /\ FoldCase \in [Hosts -> Hosts]
    /\ AllowCache \subseteq Hosts
    /\ Brands \in Seq(Hosts)
    /\ Distance \in [Hosts -> [DOMAIN Brands -> Nat]]
    /\ MaxDistance \in Nat
    /\ Elevated \subseteq Parents
    /\ None \notin {"safe", "unknown", "suspicious", "high_risk", "native", "isolate"}

VARIABLES
    assembled,  \* whether reassemble_handshake has found a handshake
    parent,     \* the parent process
    level,      \* verdict.level, None until there is a verdict
    path        \* "native" or "isolate", None until one is taken

connection == <<input, assembled, parent>>
policyvars == <<connection, level, path>>

--------------------------------------------------------------------------------
SameHost(h, c) == FoldCase[h] = FoldCase[c]

\* host_in_cache.
HostInCache(h) == \E c \in AllowCache : SameHost(c, h)

ExactBrand(h) == \E n \in DOMAIN Brands : SameHost(h, Brands[n])

\* Brands near h; the one check_typosquat names is the first of the nearest.
Near(h) == { n \in DOMAIN Brands : Distance[h][n] \in 1..MaxDistance }

IsSquat(h) == ~ExactBrand(h) /\ Near(h) # {}

\* What a reader of the whole connection sees.
Observed == IF assembled THEN Meaning ELSE Malformed

Trusted == Observed.kind = "cleartext" /\ HostInCache(Observed.host)

PolicyLevel ==
    IF Trusted THEN "safe"
    ELSE IF parent \in Elevated THEN "high_risk"
    ELSE IF Observed.kind = "cleartext" /\ IsSquat(Observed.host) THEN "suspicious"
    ELSE "unknown"

PolicyInit ==
    /\ prelude \in Preludes
    /\ exts \in Blocks
    /\ tail \in {"nothing", "stub", "overrun"}
    /\ assembled \in BOOLEAN
    /\ parent \in Parents
    /\ level = None
    /\ path = None

\* The verdict is reached ...
Judge ==
    /\ level = None
    /\ level' = PolicyLevel
    /\ UNCHANGED <<connection, path>>

\* ... and acted upon: the native path for a trusted host and nothing else.
TakePath ==
    /\ level # None
    /\ path = None
    /\ path' = IF Trusted THEN "native" ELSE "isolate"
    /\ UNCHANGED <<connection, level>>

PolicySpec == PolicyInit /\ [][Judge \/ TakePath]_policyvars

================================================================================
