------------------------------ MODULE ClientHello ------------------------------
(***************************************************************************)
(* The extension walk of parse_handshake_message_full in                   *)
(* crates/aegiuw-core/src/sni.rs and its projection to an SniOutcome.      *)
(*                                                                         *)
(* An extension is its type and what its body parser makes of the body: a  *)
(* host, "skip" or "bad" for server_name, "ok" or "bad" for the types with *)
(* a parsed body, "ok" for the rest, whose body nothing looks at.  What is *)
(* left of the block after the last extension is nothing, one to three     *)
(* bytes ("stub") or an extension whose length overruns it ("overrun").    *)
(***************************************************************************)
EXTENDS Integers, Sequences

CONSTANTS
    SNI, ECH, PSK,  \* server_name, encrypted_client_hello, pre_shared_key
    ParsedTypes,    \* types whose body is parsed: ALPN, key_share, ...
    OtherTypes,     \* flags, unknown and GREASE types
    Hosts,          \* host names that parse_server_name_extension accepts
    Blocks,         \* extension blocks
    None            \* Rust's None

ExtTypes == {SNI, ECH, PSK} \cup ParsedTypes \cup OtherTypes

Extension ==
    [type : {SNI}, body : Hosts \cup {"skip", "bad"}]
        \cup [type : ParsedTypes, body : {"ok", "bad"}]
        \cup [type : {ECH, PSK} \cup OtherTypes, body : {"ok"}]

ASSUME TypesAssumption ==
    /\ SNI # ECH /\ SNI # PSK /\ ECH # PSK
    /\ {SNI, ECH, PSK} \cap (ParsedTypes \cup OtherTypes) = {}
    /\ ParsedTypes \cap OtherTypes = {}
    /\ Hosts \cap {"skip", "bad", "ok"} = {}
    /\ None \notin Hosts

ASSUME BlocksAssumption == Blocks \subseteq Seq(Extension)

VARIABLES
    prelude,   \* what precedes the block
    exts,      \* the extension block
    tail,      \* what is left after it
    pc,        \* "start", "walk", "accepted", "rejected"
    i,         \* the extension about to be read
    order,     \* meta.extension_order
    psk_seen,
    ech_present,
    sni_host,  \* the host seen so far
    host       \* meta.host

\* The fields before the block, refused or as they have to be.
Preludes == {"bad", "ok"}

input == <<prelude, exts, tail>>
meta == <<order, psk_seen, ech_present, sni_host, host>>
vars == <<input, pc, i, meta>>

--------------------------------------------------------------------------------
Init ==
    /\ prelude \in Preludes
    /\ exts \in Blocks
    /\ tail \in {"nothing", "stub", "overrun"}
    /\ pc = "start"
    /\ i = 1
    /\ order = <<>>
    /\ psk_seen = FALSE
    /\ ech_present = FALSE
    /\ sni_host = None
    /\ host = None

\* Handshake type, legacy_version, random, session id, cipher suites and
\* compression methods are as required; the u24 length is read and not used.
GoodPrelude == prelude = "ok"

ReadPrelude ==
    /\ pc = "start"
    /\ pc' = IF GoodPrelude THEN "walk" ELSE "rejected"
    /\ UNCHANGED <<input, i, meta>>

Seen == { order[j] : j \in 1..Len(order) }

\* There are four bytes left in the block, so the loop goes round.
InLoop == pc = "walk" /\ (i <= Len(exts) \/ tail = "overrun")

RejectAfterPsk ==
    /\ InLoop
    /\ psk_seen
    /\ pc' = "rejected"
    /\ UNCHANGED <<input, i, meta>>

RejectOverrun ==
    /\ InLoop
    /\ ~psk_seen
    /\ i > Len(exts)
    /\ pc' = "rejected"
    /\ UNCHANGED <<input, i, meta>>

\* A type and its data have been read.
Reading ==
    /\ InLoop
    /\ ~psk_seen
    /\ i <= Len(exts)

RejectDuplicate ==
    /\ Reading
    /\ exts[i].type \in Seen
    /\ pc' = "rejected"
    /\ UNCHANGED <<input, i, meta>>

\* Mutant: a repeated type is taken.
AnyType ==
    /\ Reading
    /\ order' = Append(order, exts[i].type)
    /\ psk_seen' = (exts[i].type = PSK)
    /\ i' = i + 1
    /\ UNCHANGED <<input, host>>

\* The type is new: it is recorded, whatever its body turns out to be.
NewType ==
    /\ Reading
    /\ exts[i].type \notin Seen
    /\ order' = Append(order, exts[i].type)
    /\ psk_seen' = (exts[i].type = PSK)
    /\ i' = i + 1
    /\ UNCHANGED <<input, host>>

\* Mutant: the first of server_name and encrypted_client_hello wins.
ReadEchBeforeHost ==
    /\ NewType
    /\ exts[i].type = ECH
    /\ ech_present' = (sni_host = None)
    /\ UNCHANGED <<pc, sni_host>>

ReadEch ==
    /\ NewType
    /\ exts[i].type = ECH
    /\ ech_present' = TRUE
    /\ UNCHANGED <<pc, sni_host>>

\* Mutant: whatever server_name holds is taken for a host.
ReadAnyName ==
    /\ NewType
    /\ exts[i].type = SNI
    /\ sni_host' = exts[i].body
    /\ UNCHANGED <<pc, ech_present>>

ReadHost ==
    /\ NewType
    /\ exts[i].type = SNI
    /\ exts[i].body \in Hosts
    /\ sni_host' = exts[i].body
    /\ UNCHANGED <<pc, ech_present>>

\* ServerNameOutcome::Malformed, or None from the body's parser.
RejectBody ==
    /\ NewType
    /\ exts[i].body = "bad"
    /\ pc' = "rejected"
    /\ UNCHANGED <<ech_present, sni_host>>

\* ServerNameOutcome::Skip, a parsed body, a flag or an unknown type.
ReadOther ==
    /\ NewType
    /\ exts[i].type # ECH
    /\ exts[i].body \in {"skip", "ok"}
    /\ UNCHANGED <<pc, ech_present, sni_host>>

\* The block is exhausted; DECISIONS.C14 keeps the host back under ECH.
Finish ==
    /\ pc = "walk"
    /\ ~InLoop
    /\ pc' = "accepted"
    /\ host' = IF ech_present THEN None ELSE sni_host
    /\ UNCHANGED <<input, i, order, psk_seen, ech_present, sni_host>>

ParseStep ==
    \/ ReadPrelude
    \/ RejectAfterPsk \/ RejectOverrun \/ RejectDuplicate
    \/ ReadEch \/ ReadHost \/ RejectBody \/ ReadOther
    \/ Finish

Next == ParseStep

Spec == Init /\ [][Next]_vars

--------------------------------------------------------------------------------
Cleartext(h) == [kind |-> "cleartext", host |-> h]
Encrypted == [kind |-> "encrypted"]
NotFound == [kind |-> "not_found"]
Malformed == [kind |-> "malformed"]

Done == pc \in {"accepted", "rejected"}

\* What extract_sni makes of the metadata.
Outcome ==
    IF pc = "rejected" THEN Malformed
    ELSE IF ech_present THEN Encrypted
    ELSE IF host # None THEN Cleartext(host)
    ELSE NotFound

--------------------------------------------------------------------------------
(* The meaning of a block, without an order of reading. *)

Present(t) == \E j \in DOMAIN exts : exts[j].type = t

WellFormed ==
    /\ GoodPrelude
    /\ tail # "overrun"
    /\ \A j, k \in DOMAIN exts : exts[j].type = exts[k].type => j = k
    /\ \A j \in DOMAIN exts : exts[j].body # "bad"
    /\ \A j \in DOMAIN exts : exts[j].type = PSK => j = Len(exts)

NamesHost(h) == \E j \in DOMAIN exts : exts[j] = [type |-> SNI, body |-> h]

Meaning ==
    IF ~WellFormed THEN Malformed
    ELSE IF Present(ECH) THEN Encrypted
    ELSE IF \E h \in Hosts : NamesHost(h) THEN Cleartext(CHOOSE h \in Hosts : NamesHost(h))
    ELSE NotFound

--------------------------------------------------------------------------------
TypeOK ==
    /\ prelude \in Preludes
    /\ exts \in Seq(Extension)
    /\ tail \in {"nothing", "stub", "overrun"}
    /\ pc \in {"start", "walk", "accepted", "rejected"}
    /\ i \in 1..(Len(exts) + 1)
    /\ order \in Seq(ExtTypes)
    /\ psk_seen \in BOOLEAN
    /\ ech_present \in BOOLEAN
    /\ sni_host \in Hosts \cup {None}
    /\ host \in Hosts \cup {None}

\* The extensions read so far break no rule.
PrefixOK ==
    \A j \in 1..(i - 1) :
        /\ exts[j].body # "bad"
        /\ exts[j].type = PSK => j = i - 1
        /\ \A k \in 1..(i - 1) : exts[j].type = exts[k].type => j = k

\* What the walk has collected is exactly what extensions 1..i-1 say; a
\* message is rejected for a rule it breaks, and accepted at the block's end.
WalkInv ==
    /\ Len(order) = i - 1
    /\ \A j \in 1..(i - 1) : order[j] = exts[j].type
    /\ psk_seen <=> \E j \in 1..(i - 1) : j = i - 1 /\ exts[j].type = PSK
    /\ ech_present <=> \E j \in 1..(i - 1) : exts[j].type = ECH
    /\ \A h \in Hosts :
        sni_host = h <=> \E j \in 1..(i - 1) : exts[j] = [type |-> SNI, body |-> h]
    /\ pc \in {"walk", "accepted"} => GoodPrelude /\ PrefixOK
    /\ pc = "start" => i = 1
    /\ pc = "rejected" => ~WellFormed
    /\ pc = "accepted" => i = Len(exts) + 1 /\ tail # "overrun"
    /\ host = IF pc = "accepted" /\ ~ech_present THEN sni_host ELSE None

\* The outcome is the meaning of the block: the order of the extensions, with
\* pre_shared_key last, never matters.
OutcomeIsMeaning == Done => Outcome = Meaning

\* A host is reported only when no extension of the block, before or after
\* server_name, is encrypted_client_hello (DECISIONS.C14).
EchMasksHost == Done /\ Outcome.kind = "cleartext" => ~Present(ECH)

================================================================================
