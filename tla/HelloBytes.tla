------------------------------ MODULE HelloBytes -------------------------------
(***************************************************************************)
(* parse_handshake_message_full of crates/aegiuw-core/src/sni.rs over the   *)
(* bytes of a handshake message: the fields before the extension block, the *)
(* walk over the block, and in it the calls of the parsers of              *)
(* ExtensionBody, with the metadata they fill.                             *)
(***************************************************************************)
EXTENDS ExtensionBody, Metadata, TLC

CONSTANTS
    Messages,            \* the messages to parse
    MaxHandshakeBytes    \* MAX_HANDSHAKE_BYTES

VARIABLES
    message,   \* the argument
    pc,        \* "start", "walk", "body", "accepted", "rejected"
    block,     \* the cursor over the extension block
    meta,      \* the metadata; psk_seen is its psk_present
    sni_host   \* the host seen so far

call == <<kind, body, cur, at, out>>
walkvars == <<block, meta, sni_host>>
helloVars == <<message, pc, walkvars, call>>

--------------------------------------------------------------------------------
(* The fields of a message, each a cursor at its length prefix. *)

HelloType == 1   \* HANDSHAKE_TYPE_CLIENT_HELLO

AfterHeader(m) == Skip(CursorOn(m), 4)
SessionId(m) == Skip(AfterHeader(m), 34)
Suites(m) == AfterPrefixed(SessionId(m), 1)
Compression(m) == AfterPrefixed(Suites(m), 2)
Extensions(m) == AfterPrefixed(Compression(m), 1)

GoodHeader(m) == Fits(CursorOn(m), 4) /\ m[1] = HelloType

\* legacy_version and random; at most 32 bytes of session id; suites, in pairs;
\* null among the compression methods; and room for the block.
GoodHello(m) ==
    /\ GoodHeader(m)
    /\ Fits(AfterHeader(m), 34) /\ Number(AfterHeader(m), 2) = LegacyVersion
    /\ PrefixFits(SessionId(m), 1) /\ Number(SessionId(m), 1) <= 32
    /\ PrefixFits(Suites(m), 2) /\ Number(Suites(m), 2) > 0 /\ Number(Suites(m), 2) % 2 = 0
    /\ PrefixFits(Compression(m), 1)
    /\ \E k \in DOMAIN Prefixed(Compression(m), 1) : Prefixed(Compression(m), 1)[k] = 0
    /\ PrefixFits(Extensions(m), 2)

Codepoints(bytes) ==
    [k \in 1..(Len(bytes) \div 2) |-> 256 * bytes[2 * k - 1] + bytes[2 * k]]

\* The parser that is called on the body of a type, if any.
Parser(type) ==
    CASE type = Ext.server_name -> "server_name"
      [] type = Ext.alpn -> "alpn"
      [] type = Ext.supported_versions -> "versions"
      [] type = Ext.key_share -> "key_share"
      [] type = Ext.record_size_limit -> "limit"
      [] type \in {Ext.signature_algorithms, Ext.supported_groups} -> "u16_list"
      [] type = Ext.ec_point_formats -> "points"
      [] OTHER -> None

\* The field that its answer goes to.
Field(type) ==
    CASE type = Ext.alpn -> "alpn_protocols"
      [] type = Ext.supported_versions -> "supported_versions"
      [] type = Ext.key_share -> "key_share_groups"
      [] type = Ext.record_size_limit -> "record_size_limit"
      [] type = Ext.signature_algorithms -> "signature_algorithms"
      [] type = Ext.supported_groups -> "supported_groups"
      [] type = Ext.ec_point_formats -> "ec_point_formats"

--------------------------------------------------------------------------------
NoExtensions(suites) == Observe([ciphers |-> suites, exts |-> <<>>])

NoCall == kind = "limit" /\ body = <<>> /\ cur = CursorOn(<<>>) /\ at = "idle" /\ out = <<>>

StartOn(m) ==
    /\ message = m
    /\ pc = "start"
    /\ block = CursorOn(<<>>)
    /\ meta = NoExtensions(<<>>)
    /\ sni_host = None
    /\ NoCall

RejectHello ==
    /\ pc = "start" /\ ~GoodHello(message)
    /\ pc' = "rejected"
    /\ UNCHANGED <<message, walkvars, call>>

ReadHello ==
    /\ pc = "start" /\ GoodHello(message)
    /\ block' = CursorOn(Prefixed(Extensions(message), 2))
    /\ meta' = NoExtensions(Codepoints(Prefixed(Suites(message), 2)))
    /\ pc' = "walk"
    /\ UNCHANGED <<message, sni_host, call>>

\* Four bytes are left: the loop goes round.
InLoop == pc = "walk" /\ Remaining(block) >= 4

Type == Number(block, 2)
Data == Prefixed(Skip(block, 2), 2)
DataFits == PrefixFits(Skip(block, 2), 2)
Known == Type \in { meta.extension_order[k] : k \in DOMAIN meta.extension_order }

\* An extension after pre_shared_key, one that overruns, or one of a type seen.
RejectExtension ==
    /\ InLoop
    /\ meta.psk_present \/ ~DataFits \/ Known
    /\ pc' = "rejected"
    /\ UNCHANGED <<message, walkvars, call>>

\* Mutant: every flag is set by the last extension, as psk_present may be.
FlagsOfTheLast(type) ==
    /\ InLoop /\ ~meta.psk_present /\ DataFits /\ ~Known
    /\ type = Type
    /\ block' = AfterPrefixed(Skip(block, 2), 2)
    /\ meta' = [meta EXCEPT
         !.extension_order = Append(@, type),
         !.psk_present = (type = Ext.pre_shared_key),
         !.ech_present = (type = Ext.encrypted_client_hello),
         !.early_data_present = (type = Ext.early_data),
         !.compress_certificate_present = (type = Ext.compress_certificate)]
    /\ UNCHANGED <<message, sni_host>>

\* The type is recorded, and the flag of those that are one.
NewExtension(type) ==
    /\ InLoop /\ ~meta.psk_present /\ DataFits /\ ~Known
    /\ type = Type
    /\ block' = AfterPrefixed(Skip(block, 2), 2)
    /\ meta' = [meta EXCEPT
         !.extension_order = Append(@, type),
         !.psk_present = (type = Ext.pre_shared_key),
         !.ech_present = @ \/ type = Ext.encrypted_client_hello,
         !.early_data_present = @ \/ type = Ext.early_data,
         !.compress_certificate_present = @ \/ type = Ext.compress_certificate]
    /\ UNCHANGED <<message, sni_host>>

TakeFlag ==
    /\ NewExtension(Type) /\ Parser(Type) = None
    /\ UNCHANGED <<pc, call>>

CallParser ==
    /\ NewExtension(Type) /\ Parser(Type) # None
    /\ Call(Parser(Type), Data)
    /\ pc' = "body"

ParseBody ==
    /\ pc = "body" /\ ParseStep
    /\ UNCHANGED <<message, pc, walkvars>>

Called == meta.extension_order[Len(meta.extension_order)]

TakeHost ==
    /\ pc = "body" /\ at = "some" /\ kind = "server_name"
    /\ sni_host' = out
    /\ pc' = "walk"
    /\ UNCHANGED <<message, block, meta, call>>

TakeList ==
    /\ pc = "body" /\ at = "some" /\ kind # "server_name"
    /\ meta' = [meta EXCEPT ![Field(Called)] = out]
    /\ pc' = "walk"
    /\ UNCHANGED <<message, block, sni_host, call>>

\* A well-formed server_name without a usable host.
SkipName ==
    /\ pc = "body" /\ at = "skip"
    /\ pc' = "walk"
    /\ UNCHANGED <<message, walkvars, call>>

RejectBody ==
    /\ pc = "body" /\ at = "none"
    /\ pc' = "rejected"
    /\ UNCHANGED <<message, walkvars, call>>

\* DECISIONS.C14: the host is published when encrypted_client_hello is absent.
FinishHello ==
    /\ pc = "walk" /\ ~InLoop
    /\ meta' = [meta EXCEPT !.host = IF meta.ech_present THEN None ELSE sni_host]
    /\ pc' = "accepted"
    /\ UNCHANGED <<message, block, sni_host, call>>

HelloNext ==
    \/ RejectHello \/ ReadHello
    \/ RejectExtension \/ TakeFlag \/ CallParser
    \/ ParseBody \/ TakeHost \/ TakeList \/ SkipName \/ RejectBody
    \/ FinishHello

HelloSpec == (\E m \in Messages : StartOn(m)) /\ [][HelloNext]_helloVars

--------------------------------------------------------------------------------
(* verify_handshake_type, which the QUIC parser is to ask first. *)

\* The u24 length that a message claims for its body.
ClaimedLength(m) == Number(Skip(CursorOn(m), 1), 3)

\* Mutant: the cap is put on the body, and the header forgotten.
BodyWithinCap(m) == GoodHeader(m) /\ ClaimedLength(m) <= MaxHandshakeBytes

\* Four bytes, of which the first is the type, and a length within the cap.
VerifyHandshakeType(m) == GoodHeader(m) /\ 4 + ClaimedLength(m) <= MaxHandshakeBytes

--------------------------------------------------------------------------------
(* The message as ClientHello sees it: what stands before the block, and the *)
(* extensions, each with the verdict on its body.                           *)

PreludeOf(m) == IF GoodHello(m) THEN "ok" ELSE "bad"

\* A server_name whose first name is of another type or is no text.
NamesOther(b) ==
    /\ HasList(b, 2) /\ Len(List(b, 2)) >= 3
    /\ LET list == List(b, 2)
           n == 256 * list[2] + list[3]
       IN  list[1] # HostName \/ (n + 3 <= Len(list) /\ ~IsUtf8(SubSeq(list, 4, n + 3)))

\* Hosts are opaque to ClientHello.
Opaque(host) == IF host = None THEN None ELSE ToString(host)

Taken(b, taken) == IF taken THEN "ok" ELSE "bad"

Verdict(k, b) ==
    IF k = None THEN "ok"
    ELSE CASE k \in WalkedKinds -> Taken(b, Cuts(k, b) # {})
           [] k = "points" -> Taken(b, HasList(b, 1) /\ List(b, 1) # <<>>)
           [] k = "limit" ->
                Taken(b, Len(b) = 2 /\ 256 * b[1] + b[2] \in MinLimit..MaxLimit)
           [] k = "server_name" ->
                IF HostsNamed(b) # {} THEN Opaque(CHOOSE h \in HostsNamed(b) : TRUE)
                ELSE IF NamesOther(b) THEN "skip" ELSE "bad"

\* The extension block of a message.
Block(m) == IF GoodHello(m) THEN Prefixed(Extensions(m), 2) ELSE <<>>

\* A whole extension stands at byte k of a block; then these are its type and its
\* body, and where the next one stands.
ExtensionFits(bytes, k) ==
    LET c == Skip(CursorOn(bytes), k)
    IN  Fits(c, 4) /\ PrefixFits(Skip(c, 2), 2)

TypeAt(bytes, k) == 256 * bytes[k + 1] + bytes[k + 2]

NextStart(bytes, k) == k + 4 + 256 * bytes[k + 3] + bytes[k + 4]

DataAt(bytes, k) == SubSeq(bytes, k + 5, NextStart(bytes, k))

ExtensionAt(bytes, k) ==
    [type |-> TypeAt(bytes, k), body |-> Verdict(Parser(TypeAt(bytes, k)), DataAt(bytes, k))]

\* Where the extensions of a block start, and last where no other does.
Starts(bytes) ==
    LET from[k \in 0..Len(bytes)] ==
            IF ExtensionFits(bytes, k) THEN <<k>> \o from[NextStart(bytes, k)] ELSE <<k>>
    IN  from[0]

ContentOf(m) ==
    LET bytes == Block(m)
        starts == Starts(bytes)
        left == Len(bytes) - starts[Len(starts)]
    IN  [prelude |-> PreludeOf(m),
         exts |-> [n \in 1..(Len(starts) - 1) |-> ExtensionAt(bytes, starts[n])],
         tail |-> IF left = 0 THEN "nothing" ELSE IF left < 4 THEN "stub" ELSE "overrun"]

ASSUME MessagesAssumption == Messages \subseteq Seq(Byte)

\* No host is written like a verdict.
ASSUME HostsAssumption ==
    \A m \in Messages :
        LET bytes == Block(m)
        IN  \A n \in 1..(Len(Starts(bytes)) - 1) :
                \A h \in HostsNamed(DataAt(bytes, Starts(bytes)[n])) :
                    Opaque(h) \notin {"ok", "bad", "skip"}

Content == [m \in Messages |-> ContentOf(m)]

AllExtensions ==
    UNION { { Content[m].exts[k] : k \in DOMAIN Content[m].exts } : m \in Messages }

Mentioned == { e.type : e \in AllExtensions }

ParsedOnes == { t \in Mentioned : Parser(t) \notin {None, "server_name"} }

OtherOnes ==
    { t \in Mentioned : Parser(t) = None } \ {Ext.encrypted_client_hello, Ext.pre_shared_key}

HostsOfAll == { e.body : e \in AllExtensions } \ {"ok", "bad", "skip"}

BlocksOfAll == { Content[m].exts : m \in Messages }

\* What has been read, without the extension whose body is being parsed.
Behind ==
    LET order == meta.extension_order
    IN  IF pc = "body" THEN SubSeq(order, 1, Len(order) - 1) ELSE order

Walk == INSTANCE ClientHello WITH
    SNI <- Ext.server_name,
    ECH <- Ext.encrypted_client_hello,
    PSK <- Ext.pre_shared_key,
    ParsedTypes <- ParsedOnes,
    OtherTypes <- OtherOnes,
    Hosts <- HostsOfAll,
    Blocks <- BlocksOfAll,
    prelude <- Content[message].prelude,
    exts <- Content[message].exts,
    tail <- Content[message].tail,
    pc <- IF pc = "body" THEN "walk" ELSE pc,
    i <- Len(Behind) + 1,
    order <- Behind,
    psk_seen <- meta.psk_present,
    ech_present <- meta.ech_present,
    sni_host <- Opaque(sni_host),
    host <- Opaque(meta.host)

\* Byte by byte, with every body parsed where it stands, the parser walks the
\* extensions as ClientHello does: no length prefix and no body's answer makes it
\* lose its place, so what holds of the walk's outcome holds of the bytes.
ImplementsWalk == Walk!Spec

================================================================================
