----------------------------- MODULE MCHelloBytes ------------------------------
(***************************************************************************)
(* The messages built of small hellos, and messages that no builder makes: *)
(* every short body of a few small bytes, fields that break a rule, and    *)
(* blocks and messages that end too early.                                 *)
(***************************************************************************)
EXTENDS HelloBuilders

CONSTANTS MaxBody, MaxFree, MaxShort, MaxExts

Upto(S, n) == UNION { [1..k -> S] : k \in 0..n }

Names ==
    LET a == 97  z == 88  N == 78  one == 49
    IN  Upto({a, Dot}, MaxFree) \cup Upto({z, Dot, one, 95, 195, 169}, MaxShort) \cup
        { <<one, Dot, one, Dot, one, Dot, one>>,
          <<one, Dot, one, Dot, one, Dot, one, Dot>>,
          <<48, one, Dot, one, Dot, one, Dot, one>>,
          <<50, 53, 53, Dot, one, Dot, one, Dot, one>>,
          <<50, 53, 54, Dot, one, Dot, one, Dot, one>>,
          <<120, N, Hyphen, Hyphen>>,
          <<a, Dot, 120, 110, Hyphen, Hyphen, Dot, a>>,
          <<a, Dot, z, N, Hyphen, Hyphen>>,
          <<120, 110, Hyphen, Dot, Hyphen>>,
          <<226, 130, 172>>, <<a, 226, 130>>, <<224, 159, 172>>, <<237, 160, 128>>,
          <<240, 159, 146, 169>>, <<244, 144, 128, 128>> }

ListTypes ==
    {Ext.signature_algorithms, Ext.supported_groups, Ext.supported_versions, Ext.key_share}

\* Extensions whose body is parsed.
Parsed ==
    [type : {Ext.alpn}, value : Upto({<<>>, <<1>>, <<2, 3>>}, 3)]
        \cup [type : ListTypes, value : Upto({1, 258, 515}, 3)]
        \cup [type : {Ext.ec_point_formats}, value : Upto({0, 1, 2}, 3)]
        \cup [type : {Ext.record_size_limit}, value : 0..3 \cup 256..(MaxLimit + 1)]
        \cup [type : {Ext.server_name},
              value : { <<h>> : h \in Names } \cup { <<g, h>> : g, h \in Upto({97}, 1) }]

\* One extension of each sort, to put next to each other.
Sample ==
    [type : {Ext.pre_shared_key, Ext.encrypted_client_hello, Ext.early_data,
             Ext.compress_certificate, \h1234}, value : {<<2, 0>>}]
        \cup [type : {Ext.server_name}, value : {<< <<97>> >>}]
        \cup [type : {Ext.alpn}, value : {<<Http2>>, << <<>> >>}]

MCHellos ==
    [ciphers : {DefaultSuites}, exts : [1..1 -> Parsed] \cup Upto(Sample, MaxExts)]
        \cup [ciphers : {<<>>, <<\h1302, \h0a0a>>}, exts : Upto(Sample, 1)]
        \cup { EchThenDecoySni(h) : h \in Upto({97, Dot}, 2) }

--------------------------------------------------------------------------------
\* Bodies of server_name that no builder makes.
Bent ==
    { <<0, list, type, 0, len>> \o host \o rest :
        list \in 2..6, type \in {0, 1}, len \in 0..3, host \in Upto({97, 195}, 2),
        rest \in {<<>>, <<0>>, <<1>>} }

\* Key shares whose list ends one byte early, inside the last of them.
CutShort ==
    { [KeyShareBody(groups) EXCEPT ![2] = @ - 1] : groups \in Upto({1, 515}, 2) \ {<<>>} }

RawBodies ==
    [type : {Ext.alpn, Ext.supported_versions, Ext.key_share, Ext.record_size_limit,
             Ext.supported_groups, Ext.ec_point_formats}, bytes : Upto({0, 1, 2, 4}, MaxBody)]
        \cup [type : {Ext.key_share}, bytes : [1..6 -> {0, 1, 4}] \cup CutShort]
        \cup [type : {Ext.server_name}, bytes : Bent \cup Upto({0, 3}, 4)]

Whole == ExtensionBytes(Ext.server_name, NameBody(<< <<97>> >>))

\* Blocks that end in too few bytes for an extension, or inside one.
Unended ==
    { whole \o rest :
        whole \in {<<>>, Whole, ExtensionBytes(Ext.pre_shared_key, <<>>)},
        rest \in {<<0>>, <<0, 0, 0>>, <<0, 0, 0, 1>>, <<0, 16, 0, 9, 0, 0>>} }

\* Fields before the block that are, or are not, as they have to be.
Fields ==
    { Message(Whole, version, session_id, suites, compression) :
        version \in {LegacyVersion, \h0301},
        session_id \in { [k \in 1..n |-> 7] : n \in {0, 32, 33} },
        suites \in {<<>>, <<19, 1>>, <<19, 1, 2>>},
        compression \in {<<>>, <<0>>, <<1>>, <<1, 0>>} }

\* Messages cut anywhere, of another type, of a length that is not theirs, or with
\* more bytes behind the block.
Damaged ==
    LET m == DefaultMessage(Whole)
    IN  { SubSeq(m, 1, n) : n \in 0..Len(m) } \cup {m \o <<0, 0, 0, 0>>}
            \cup { [m EXCEPT ![k] = b] : k \in {1, 2, 4, 39, 41, 43, 46}, b \in {0, 1, 2, 255} }

MCRaw ==
    { DefaultMessage(ExtensionBytes(r.type, r.bytes)) : r \in RawBodies }
        \cup { DefaultMessage(b) : b \in Unended }
        \cup Fields \cup Damaged

MCMessages == MCRaw \cup { MessageOf(h) : h \in MCHellos }

================================================================================
