----------------------------- MODULE HelloBuilders -----------------------------
(***************************************************************************)
(* The messages that the builders of crates/aegiuw-core/src/sni.rs (tests) *)
(* and of crates/aegiuw-daemon/src/main.rs put together, and what the      *)
(* parser of HelloBytes makes of them.                                     *)
(***************************************************************************)
EXTENDS HelloBytes, SequencesExt

CONSTANTS
    Hellos,      \* hellos to build messages of
    Raw          \* bytes of no builder

VARIABLE sent    \* the hello the message was built of, or None

--------------------------------------------------------------------------------
U16(n) == <<n \div 256, n % 256>>
U24(n) == <<n \div 65536, (n \div 256) % 256, n % 256>>

UnderU8(list) == <<Len(list)>> \o list
UnderU16(list) == U16(Len(list)) \o list

Each(Encode(_), values) == FlattenSeq([k \in DOMAIN values |-> Encode(values[k])])

AlpnBody(protos) == UnderU16(Each(UnderU8, protos))

\* supported_versions, and compress_certificate, whose body nothing reads.
VersionsBody(versions) == UnderU8(Each(U16, versions))

\* signature_algorithms and supported_groups.
U16ListBody(codes) == UnderU16(Each(U16, codes))

\* The entries of the tests carry a key of no matter what bytes: here, one.
KeyShareBody(groups) ==
    LET Share(group) == U16(group) \o UnderU16(<<7>>)
    IN  UnderU16(Each(Share, groups))

PointsBody(formats) == UnderU8(formats)

LimitBody(limit) == U16(limit)

\* build_sni_extension and the daemon's sni_extension are the list of one host.
NameBody(hosts) ==
    LET NameEntry(host) == <<HostName>> \o UnderU16(host)
    IN  UnderU16(Each(NameEntry, hosts))

\* A body nothing reads is given as it is.
BodyOf(e) ==
    LET k == Parser(e.type)
    IN  CASE k = "alpn" -> AlpnBody(e.value)
          [] k = "versions" -> VersionsBody(e.value)
          [] k = "u16_list" -> U16ListBody(e.value)
          [] k = "key_share" -> KeyShareBody(e.value)
          [] k = "points" -> PointsBody(e.value)
          [] k = "limit" -> LimitBody(e.value)
          [] k = "server_name" -> NameBody(e.value)
          [] OTHER -> e.value

\* build_extension.
ExtensionBytes(type, bytes) == U16(type) \o UnderU16(bytes)

\* build_handshake_message_custom, in the order of its parameters.
Message(exts, version, session_id, suites, compression) ==
    LET Random == [k \in 1..32 |-> 170]
        hello == U16(version) \o Random \o UnderU8(session_id) \o UnderU16(suites)
                     \o UnderU8(compression) \o UnderU16(exts)
    IN  <<HelloType>> \o U24(Len(hello)) \o hello

\* The extensions of a hello, each by build_extension.
BlockOf(hello) ==
    LET Encode(e) == ExtensionBytes(e.type, BodyOf(e))
    IN  Each(Encode, hello.exts)

\* build_clienthello_custom_ciphers and the daemon's client_hello, without the record.
MessageOf(hello) ==
    Message(BlockOf(hello), LegacyVersion, <<>>, Each(U16, hello.ciphers), <<0>>)

DefaultSuites == <<\h1301>>

\* build_handshake_message of the given extensions.
DefaultMessage(exts) == Message(exts, LegacyVersion, <<>>, Each(U16, DefaultSuites), <<0>>)

\* ech_then_decoy_sni of the daemon.
EchThenDecoySni(host) ==
    [ciphers |-> DefaultSuites,
     exts |-> <<[type |-> Ext.encrypted_client_hello, value |-> <<>>],
                [type |-> Ext.server_name, value |-> <<host>>]>>]

--------------------------------------------------------------------------------
\* No parser is the absence of one.
ASSUME NoParserAssumption == None \notin Kinds

Code == 0..65535   \* u16

\* A type, and a value of the type its builder takes; build_sni_extension takes a host.
Writable(e) ==
    LET k == Parser(e.type)
    IN  /\ e \in [type : Code, value : {e.value}]
        /\ k \in PairKinds \cup {"key_share"} => e.value \in Seq(Code)
        /\ k \in {"alpn", "server_name"} => e.value \in Seq(Seq(Byte))
        /\ k = "server_name" => e.value # <<>>
        /\ k = "limit" => e.value \in Code
        /\ k \in {"points", None} => e.value \in Seq(Byte)

\* Suites are code points, and extensions such pairs.
ASSUME HellosAssumption ==
    \A h \in Hellos :
        /\ h \in [ciphers : Seq(Code), exts : Seq({ h.exts[k] : k \in DOMAIN h.exts })]
        /\ \A k \in DOMAIN h.exts : Writable(h.exts[k])

BuiltInit ==
    \/ \E h \in Hellos : sent = h /\ StartOn(MessageOf(h))
    \/ sent = None /\ \E m \in Raw : StartOn(m)

BuiltNext == HelloNext /\ UNCHANGED sent

ASSUME BuiltAssumption == Raw \cup { MessageOf(h) : h \in Hellos } \subseteq Messages

BuiltSpec == BuiltInit /\ [][BuiltNext]_<<helloVars, sent>>

--------------------------------------------------------------------------------
\* What a builder has to be given for the parser to answer with it.
Buildable(e) ==
    LET k == Parser(e.type)
    IN  CASE k = "alpn" -> \A j \in DOMAIN e.value : e.value[j] # <<>>
          [] k \in PairKinds \cup {"points"} -> e.value # <<>>
          [] k = "limit" -> e.value \in MinLimit..MaxLimit
          [] k = "server_name" ->
               IsUtf8(e.value[1]) => Len(e.value) = 1 /\ Usable(StripDot(e.value[1]))
          [] OTHER -> TRUE

\* The metadata reports the one host of a list, without its dot, if it is text.
Reported(e) ==
    IF e.type # Ext.server_name THEN e
    ELSE [e EXCEPT !.value = IF IsUtf8(e.value[1]) THEN StripDot(e.value[1]) ELSE None]

Ended == pc \in {"accepted", "rejected"}

\* A message that is built of a hello is accepted exactly when every body is one the
\* parser answers and the types follow the rules; and the metadata is what the hello
\* says, field by field: no builder and no parser disagree about a prefix, a byte
\* order, an empty list or a codepoint.
BuiltIsObserved ==
    Ended /\ sent # None =>
        LET exts == sent.exts
            rules == /\ sent.ciphers # <<>>
                     /\ \A k \in DOMAIN exts : Buildable(exts[k])
                     /\ \A j, k \in DOMAIN exts : exts[j].type = exts[k].type => j = k
                     /\ \A k \in DOMAIN exts :
                         exts[k].type = Ext.pre_shared_key => k = Len(exts)
        IN  IF rules
            THEN pc = "accepted" /\ meta = Observe([sent EXCEPT
                    !.exts = [k \in DOMAIN exts |-> Reported(exts[k])]])
            ELSE pc = "rejected"

\* A builder claims the length of what it has built, and the pre-filter and the parser
\* measure from the same byte: a message that is built goes through the filter exactly
\* if all of it, with its header, is within the cap of reassemble_handshake.
BuiltPassFilter ==
    sent # None => (VerifyHandshakeType(message) <=> Len(message) <= MaxHandshakeBytes)

================================================================================
