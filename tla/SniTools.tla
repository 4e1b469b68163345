------------------------------- MODULE SniTools -------------------------------
(***************************************************************************)
(* The binaries of crates/aegiuw-sni-inspect: aegiuw-sni-replay tallies a   *)
(* corpus, aegiuw-sni-inspect then shows a line of it.  Both read hex with  *)
(* the same library and ask the same parser for the outcome.                *)
(***************************************************************************)
EXTENDS HexLines, Fingerprint

CONSTANTS
    Corpora,       \* corpora: sequences of lines
    Arguments,     \* lists of arguments: flags, and "word" for any other
    Hellos,        \* the bytes that parse, and the hello they hold
    TopN,          \* how many hosts are listed, 10 in the code
    BarWidth       \* 30 in the code

VARIABLES
    corpus,        \* the lines of the input
    replay,        \* "starts", "reads" or how aegiuw-sni-replay exited
    next,          \* the line it reads next
    tally,         \* hist
    report,        \* what it printed, None before
    inspect,       \* "starts" or how aegiuw-sni-inspect exited
    line,          \* the line it was given
    shown          \* what it printed, None before

vars == <<corpus, replay, next, tally, report, inspect, line, shown>>

Success == "exit 0"
Usage == "exit 2"

--------------------------------------------------------------------------------
\* parse_client_hello_full.
Parse(bytes) == IF bytes \in DOMAIN Hellos THEN Observe(Hellos[bytes]) ELSE None

\* extract_sni: what does not parse is malformed.
Outcome(bytes) ==
    IF Parse(bytes) = None THEN "malformed" ELSE OutcomeKind(Parse(bytes))

ASSUME CorporaAssumption == Corpora \subseteq Seq(Seq(STRING))

ASSUME ReportAssumption == HostNames \in Seq(STRING) /\ TopN \in Nat

\* What parses is not None, and its host occurs; no byte does not parse.
ASSUME HellosAssumption ==
    /\ <<>> \notin DOMAIN Hellos
    /\ \A bytes \in DOMAIN Hellos :
        /\ Observe(Hellos[bytes]) # None
        /\ VisibleHost(Hellos[bytes]) \in {None} \cup { HostNames[k] : k \in DOMAIN HostNames }

IsLong(arg) == arg \in {"--help", "--stdin", "--file", "--other"}

\* read_corpus: the standard input, or a file by its name.
ReadCorpus(args) ==
    Len(args) = 1 /\ args[1] \notin {"-h", "--help"}
        /\ (args[1] = "--stdin" \/ ~IsLong(args[1]))

\* parse_args: besides, the hex itself.
ReadsInput(args) == args = <<"--stdin">> \/ (Len(args) = 2 /\ args[1] = "--file")

ParseArgs(args) == ReadsInput(args) \/ ReadCorpus(args)

Init ==
    /\ corpus \in Corpora
    /\ replay = "starts" /\ next = 1 /\ tally = EmptyTally /\ report = None
    /\ inspect = "starts" /\ line = <<>> /\ shown = None

--------------------------------------------------------------------------------
(* aegiuw-sni-replay *)

InspectLater == UNCHANGED <<inspect, line, shown>>

\* Help, other arguments, and an input that cannot be read are one exit code.
ReplayRefuses ==
    /\ replay = "starts"
    /\ replay' = Usage
    /\ UNCHANGED <<corpus, next, tally, report>> /\ InspectLater

ReplayOpens ==
    /\ replay = "starts"
    /\ \E args \in Arguments : ReadCorpus(args)
    /\ replay' = "reads"
    /\ UNCHANGED <<corpus, next, tally, report>> /\ InspectLater

Trimmed(text) ==
    LET solid == { k \in DOMAIN text : text[k] # " " }
    IN  IF solid = {} THEN <<>>
        ELSE SubSeq(text, CHOOSE k \in solid : \A j \in solid : k <= j, Maximum(solid))

Skipped(text) == text = <<>> \/ text[1] = "#"

Reading == replay = "reads" /\ next <= Len(corpus)

Line == Trimmed(corpus[next])

Counted(count) ==
    /\ tally' = count
    /\ next' = next + 1
    /\ UNCHANGED <<corpus, replay, report>> /\ InspectLater

SkipLine ==
    /\ Reading /\ Skipped(Line)
    /\ Counted(tally)

CountDecodeError ==
    /\ Reading /\ ~Skipped(Line) /\ ~Decodes(Line)
    /\ Counted(RecordDecodeError(tally))

\* Mutant: what does not parse is not tallied.
CountParsed ==
    /\ Reading /\ ~Skipped(Line) /\ Decodes(Line)
    /\ LET kind == Outcome(Decoded(Line))
       IN  Counted(IF Parse(Decoded(Line)) = None THEN tally
                   ELSE IF kind = "cleartext"
                   THEN RecordHost(RecordKind(tally, kind), Parse(Decoded(Line)).host)
                   ELSE RecordKind(tally, kind))

CountOutcome ==
    /\ Reading /\ ~Skipped(Line) /\ Decodes(Line)
    /\ LET kind == Outcome(Decoded(Line))
       IN  Counted(IF kind = "cleartext"
                   THEN RecordHost(RecordKind(tally, kind), Parse(Decoded(Line)).host)
                   ELSE RecordKind(tally, kind))

\* print_row: the share of the total, rounded to a bar.
Bar(count, total) ==
    IF total = 0 THEN 0 ELSE (2 * count * BarWidth + total) \div (2 * total)

PrintReport ==
    /\ replay = "reads" /\ next > Len(corpus)
    /\ report' = [lines |-> TotalLines(tally),
                  parsed |-> TotalParsed(tally),
                  errors |-> tally.decode_errors,
                  bars |-> [k \in Kinds |-> Bar(tally.outcomes[k], TotalParsed(tally))],
                  ech |-> EchAdoption(tally),
                  top |-> TopHosts(tally, TopN)]
    /\ replay' = Success
    /\ UNCHANGED <<corpus, next, tally>> /\ InspectLater

--------------------------------------------------------------------------------
(* aegiuw-sni-inspect, on a line of the corpus that was replayed *)

\* print_metadata.
Printed(meta) == [
    host |-> meta.host,
    flags |-> <<meta.ech_present, meta.psk_present, meta.early_data_present,
                meta.compress_certificate_present>>,
    record_size_limit |-> meta.record_size_limit,
    versions |-> VersionsClassified(meta),
    highest |-> HighestVersion(meta),
    key_shares |-> KeyShareGroupsClassified(meta),
    post_quantum |-> HasPostQuantumKeyShare(meta),
    groups |-> Classified(meta.supported_groups, GroupFromWire),
    algorithms |-> Classified(meta.signature_algorithms, LAMBDA s : s),
    points |-> meta.ec_point_formats,
    alpn |-> AlpnClassified(meta),
    extensions |-> Len(meta.extension_order),
    ciphers |-> Len(meta.cipher_suites),
    ja3 |-> Ja3(meta),
    ja4 |-> Ja4(meta),
    client |-> KnownClientFromJa4(Ja4(meta)),
    source |-> LikelyLaunchSource(meta)]

\* No answer is None.
ASSUME AnswersAssumption ==
    LET printed == { Printed(Observe(Hellos[bytes])) : bytes \in DOMAIN Hellos }
    IN  None \notin printed \cup [outcome : Kinds, metadata : {None} \cup printed]

InspectExits(code, given, print) ==
    /\ replay = Success /\ inspect = "starts"
    /\ inspect' = code /\ line' = given /\ shown' = print
    /\ UNCHANGED <<corpus, replay, next, tally, report>>

\* Other arguments, or an input that cannot be read.
InspectRefuses == InspectExits(Usage, <<>>, None)

\* Hex that does not decode, or that holds no byte.
InspectRefusesHex ==
    \E args \in Arguments, k \in DOMAIN corpus :
        /\ ParseArgs(args)
        /\ ~Decodes(corpus[k]) \/ Digits(corpus[k]) = <<>>
        /\ InspectExits(Usage, corpus[k], None)

\* The outcome, and the metadata if there is any: both are an answer.
InspectShows ==
    \E args \in Arguments, k \in DOMAIN corpus :
        LET bytes == Decoded(corpus[k])
        IN  /\ ParseArgs(args)
            /\ Decodes(corpus[k]) /\ bytes # <<>>
            /\ InspectExits(Success, corpus[k],
                 [outcome |-> Outcome(bytes),
                  metadata |-> IF Parse(bytes) = None THEN None ELSE Printed(Parse(bytes))])

Next ==
    \/ ReplayRefuses \/ ReplayOpens
    \/ SkipLine \/ CountDecodeError \/ CountOutcome \/ PrintReport
    \/ InspectRefuses \/ InspectRefusesHex \/ InspectShows

Spec == Init /\ [][Next]_vars

--------------------------------------------------------------------------------
\* The lines behind that are neither blank nor a comment.
Behind == { k \in 1..(next - 1) : ~Skipped(Trimmed(corpus[k])) }

LinesOf(kind) ==
    { k \in Behind : Decodes(corpus[k]) /\ Outcome(Decoded(corpus[k])) = kind }

HostLines(host) ==
    { k \in LinesOf("cleartext") : Parse(Decoded(corpus[k])).host = host }

\* Every line behind is in one bucket: that of its outcome, or the decode errors;
\* and each host is counted once for every cleartext line that names it.
TallyIsCorpus ==
    /\ \A kind \in Kinds : tally.outcomes[kind] = Cardinality(LinesOf(kind))
    /\ TotalLines(tally) = Cardinality(Behind)
    /\ \A k \in DOMAIN HostNames :
        tally.host_counts[HostNames[k]] = Cardinality(HostLines(HostNames[k]))

\* The report lists the hosts by how often the corpus names them, and hosts named
\* as often in ascending order, each at the place of how many go before it.
ReportRanksHosts ==
    report # None =>
        LET named == { k \in DOMAIN HostNames : HostLines(HostNames[k]) # {} }
            times(k) == Cardinality(HostLines(HostNames[k]))
            ahead(k) == { j \in named : times(j) > times(k) \/ (times(j) = times(k) /\ j < k) }
        IN  /\ Len(report.top) = IF Cardinality(named) < TopN THEN Cardinality(named) ELSE TopN
            /\ \A k \in named : Cardinality(ahead(k)) < TopN =>
                report.top[Cardinality(ahead(k)) + 1] = HostNames[k]

\* What inspect shows for a line is the bucket replay counted its copies in; what it
\* refuses was a decode error, or had no digit and was counted as malformed.  And the
\* outcome and the metadata, taken of two parses of the same bytes, tell one story:
\* no metadata for what is malformed and for nothing else, and a host only with the
\* outcome that shows it.
ToolsAgree ==
    inspect # "starts" /\ line # <<>> /\ ~Skipped(Trimmed(line)) =>
        LET copies == Cardinality({ k \in DOMAIN corpus : corpus[k] = line })
            meta == shown.metadata
        IN  IF shown = None
            THEN tally.decode_errors >= copies \/ tally.outcomes["malformed"] >= copies
            ELSE /\ tally.outcomes[shown.outcome] >= copies
                 /\ (meta = None) <=> (shown.outcome = "malformed")
                 /\ meta # None =>
                     /\ (meta.host # None) <=> (shown.outcome = "cleartext")
                     /\ meta.flags[1] <=> (shown.outcome = "encrypted")

================================================================================
