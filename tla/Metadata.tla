------------------------------- MODULE Metadata -------------------------------
(***************************************************************************)
(* ClientHelloMetadata of crates/aegiuw-core/src/sni.rs: what a ClientHello *)
(* that was accepted is reported as, and the classes its accessors answer  *)
(* with.  A hello is its cipher suites and its extensions, each a type and *)
(* what the parser of its body answers; a class is its kind() label.       *)
(***************************************************************************)
EXTENDS Integers, Sequences, FiniteSets

CONSTANT None   \* Rust's None

\* EXT_*
Ext == [
    server_name |-> \h0000, supported_groups |-> \h000a, ec_point_formats |-> \h000b,
    signature_algorithms |-> \h000d, alpn |-> \h0010, compress_certificate |-> \h001b,
    record_size_limit |-> \h001c, pre_shared_key |-> \h0029, early_data |-> \h002a,
    supported_versions |-> \h002b, key_share |-> \h0033, encrypted_client_hello |-> \hfe0d]

LegacyVersion == \h0303   \* TLS_LEGACY_VERSION

--------------------------------------------------------------------------------
Has(hello, type) == \E k \in DOMAIN hello.exts : hello.exts[k].type = type

Answer(hello, type) ==
    IF Has(hello, type)
    THEN LET k == CHOOSE k \in DOMAIN hello.exts : hello.exts[k].type = type
         IN  hello.exts[k].value
    ELSE None

\* DECISIONS.C14: the visible host is a decoy under encrypted_client_hello.
VisibleHost(hello) ==
    IF Has(hello, Ext.encrypted_client_hello) THEN None ELSE Answer(hello, Ext.server_name)

\* Each field is filled from its own extension.
Observe(hello) == [
    host |-> VisibleHost(hello),
    ech_present |-> Has(hello, Ext.encrypted_client_hello),
    alpn_protocols |-> Answer(hello, Ext.alpn),
    supported_versions |-> Answer(hello, Ext.supported_versions),
    key_share_groups |-> Answer(hello, Ext.key_share),
    psk_present |-> Has(hello, Ext.pre_shared_key),
    early_data_present |-> Has(hello, Ext.early_data),
    compress_certificate_present |-> Has(hello, Ext.compress_certificate),
    record_size_limit |-> Answer(hello, Ext.record_size_limit),
    signature_algorithms |-> Answer(hello, Ext.signature_algorithms),
    supported_groups |-> Answer(hello, Ext.supported_groups),
    ec_point_formats |-> Answer(hello, Ext.ec_point_formats),
    extension_order |-> [k \in DOMAIN hello.exts |-> hello.exts[k].type],
    cipher_suites |-> hello.ciphers]

\* SniOutcome::kind of what extract_sni projects the metadata to.
OutcomeKind(meta) ==
    IF meta.ech_present THEN "encrypted"
    ELSE IF meta.host # None THEN "cleartext"
    ELSE "not_found"

\* hrr_sni_consistent: whether a second hello asks for the host of the first, if both
\* show one.
HrrSniConsistent(first, second) ==
    IF OutcomeKind(first) = "cleartext" /\ OutcomeKind(second) = "cleartext"
    THEN first.host = second.host
    ELSE None

\* A list the accessors map over, with None for an extension that is absent.
Classified(list, Class(_)) ==
    IF list = None THEN None ELSE [k \in DOMAIN list |-> Class(list[k])]

OrEmpty(list) == IF list = None THEN <<>> ELSE list

Entries(list) == { OrEmpty(list)[k] : k \in DOMAIN OrEmpty(list) }

\* Iterator::filter: the n-th entry that is kept has n kept places up to its own.
Picked(list, kept) ==
    [n \in 1..Cardinality(kept) |->
        list[CHOOSE k \in kept : Cardinality(kept \cap 1..k) = n]]

--------------------------------------------------------------------------------
(* AlpnProtocol, of the bytes of a protocol's name. *)

Http10 == <<104, 116, 116, 112, 47, 49, 46, 48>>   \* http/1.0
Http11 == <<104, 116, 116, 112, 47, 49, 46, 49>>   \* http/1.1
Http2 == <<104, 50>>                               \* h2
Http3 == <<104, 51>>                               \* h3
Http3Draft == <<104, 51, 45>>                      \* h3-

AlpnFromWire(name) ==
    CASE name = Http10 -> "http_1_0"
      [] name = Http11 -> "http_1_1"
      [] name = Http2 -> "http_2"
      [] name = Http3 \/ (Len(name) >= 3 /\ SubSeq(name, 1, 3) = Http3Draft) -> "http_3"
      [] OTHER -> "other"

AlpnClassified(meta) == Classified(meta.alpn_protocols, AlpnFromWire)

Offers(meta, protocol) == \E p \in Entries(meta.alpn_protocols) : AlpnFromWire(p) = protocol

--------------------------------------------------------------------------------
(* TlsVersion, in the order the enum declares: an unknown one sorts lowest. *)

Versions == <<"other", "ssl_3_0", "tls_1_0", "tls_1_1", "tls_1_2", "tls_1_3">>

VersionFromWire(v) == IF v \in \h0300..\h0304 THEN Versions[v - \h0300 + 2] ELSE "other"

VersionRank(version) == CHOOSE k \in DOMAIN Versions : Versions[k] = version

VersionsClassified(meta) == Classified(meta.supported_versions, VersionFromWire)

OffersVersion(meta, version) ==
    IF meta.supported_versions = None THEN version = "tls_1_2"
    ELSE \E v \in Entries(meta.supported_versions) : VersionFromWire(v) = version

KnownVersions(meta) ==
    { VersionFromWire(v) : v \in Entries(meta.supported_versions) } \ {"other"}

\* Mutant: the first version the client prefers.
FirstKnownVersion(meta) ==
    IF KnownVersions(meta) = {} THEN "tls_1_2"
    ELSE LET list == OrEmpty(meta.supported_versions)
             k == CHOOSE k \in DOMAIN list :
                    /\ VersionFromWire(list[k]) # "other"
                    /\ \A j \in 1..(k - 1) : VersionFromWire(list[j]) = "other"
         IN  VersionFromWire(list[k])

\* highest_supported_tls_version: TLS 1.2 when no known version is offered.
HighestVersion(meta) ==
    IF KnownVersions(meta) = {} THEN "tls_1_2"
    ELSE CHOOSE v \in KnownVersions(meta) :
            \A w \in KnownVersions(meta) : VersionRank(w) <= VersionRank(v)

--------------------------------------------------------------------------------
(* KeyShareGroup, and the experimental extension types. *)

GroupFromWire(g) ==
    CASE g = \h0017 -> "secp256r1"
      [] g = \h001d -> "x25519"
      [] g = \h11ec -> "x25519_mlkem768"
      [] g = \h1140 -> "secp256r1_mlkem768"
      [] g = \h6399 -> "x25519_kyber768_draft00"
      [] OTHER -> "other"

IsPostQuantum(group) ==
    group \in {"x25519_mlkem768", "secp256r1_mlkem768", "x25519_kyber768_draft00"}

KeyShareGroupsClassified(meta) == Classified(meta.key_share_groups, GroupFromWire)

HasPostQuantumKeyShare(meta) ==
    \E g \in Entries(meta.key_share_groups) : IsPostQuantum(GroupFromWire(g))

\* The early codepoints of encrypted_client_hello, below the stable one, and their class.
UnstableTable == [type \in \hfe08..\hfe0c |-> "ech_draft"]

UnstableExtensions(meta) ==
    LET order == meta.extension_order
        found == Picked(order, { k \in DOMAIN order : order[k] \in DOMAIN UnstableTable })
    IN  [k \in DOMAIN found |-> <<found[k], UnstableTable[found[k]]>>]

--------------------------------------------------------------------------------
\* Mutant: the two bytes need not be the same.
IsLowNibbleA(v) == v % 16 = 10

\* is_grease_codepoint: both bytes are the same, and end in the nibble A.
IsGrease(v) == v \div 256 = v % 256 /\ (v % 256) % 16 = 10

NoGrease(list) == Picked(list, { k \in DOMAIN list : ~IsGrease(list[k]) })

================================================================================
