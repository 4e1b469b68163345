----------------------------- MODULE ClientDrift ------------------------------
(***************************************************************************)
(* A client that changes what clients change between two connections, and  *)
(* what the fingerprints of crates/aegiuw-core/src/fingerprint.rs make of   *)
(* its hellos.                                                             *)
(***************************************************************************)
EXTENDS Fingerprint

CONSTANTS
    Hellos,        \* hellos the client may open with
    Greases,       \* codepoints it picks its GREASE from
    Additions,     \* extensions it may come to offer
    NewHosts,      \* hosts it may go to next
    MaxChanges     \* how often it changes its hello

Codepoint == 0..65535

\* The extensions whose answer is a list of codepoints.
Listed == {Ext.supported_versions, Ext.supported_groups, Ext.signature_algorithms,
           Ext.key_share}

IsExtension(e) ==
    /\ e = [type |-> e.type, value |-> e.value]
    /\ e.type \in Codepoint
    /\ e.type \in Listed => e.value = None \/ e.value \in Seq(Codepoint)

\* What the parser accepts: no extension comes twice.
AreExtensions(exts) ==
    /\ Len(exts) \in Nat
    /\ exts = [k \in 1..Len(exts) |-> exts[k]]
    /\ \A k \in 1..Len(exts) : IsExtension(exts[k])
    /\ \A j, k \in 1..Len(exts) : exts[j].type = exts[k].type => j = k

IsHello(h) ==
    /\ h = [ciphers |-> h.ciphers, exts |-> h.exts]
    /\ h.ciphers \in Seq(Codepoint)
    /\ AreExtensions(h.exts)

\* RFC 8701: 0x0a0a, 0x1a1a and so on to 0xfafa.
Reserved == { 257 * (16 * n + 10) : n \in 0..15 }

ASSUME ClientAssumption ==
    /\ \A h \in Hellos : IsHello(h)
    /\ Greases \subseteq Reserved
    /\ \A e \in Additions : IsExtension(e) /\ e.type \notin Reserved
    /\ None \notin NewHosts /\ None \notin Seq(Codepoint)
    /\ MaxChanges \in Nat

\* JA4 counts to 99, and hashes the types of all extensions but two.
ASSUME CountAssumption ==
    \/ \A e \in Additions : e.type \notin {Ext.server_name, Ext.alpn}
    \/ \A h \in Hellos : Len(h.exts) + MaxChanges <= 99

VARIABLES
    hello,         \* the hello the client sends next
    change,        \* what it changed last: "none", "grease", "order", "host", "offer"
    changes        \* how often it did

vars == <<hello, change, changes>>

--------------------------------------------------------------------------------
(* What a client changes from one connection to the next. *)

Init ==
    /\ hello \in Hellos
    /\ change = "none"
    /\ changes = 0

Changed(what, next) ==
    /\ changes < MaxChanges
    /\ hello' = next
    /\ change' = what
    /\ changes' = changes + 1

PutAt(list, k, v) == SubSeq(list, 1, k) \o <<v>> \o SubSeq(list, k + 1, Len(list))

Swap(list, k) == [list EXCEPT ![k] = list[k + 1], ![k + 1] = list[k]]

PskLast(exts) ==
    exts # <<>> /\ exts[Len(exts)].type = Ext.pre_shared_key

GreaseCipher ==
    \E g \in Greases, k \in 0..Len(hello.ciphers) :
        Changed("grease", [hello EXCEPT !.ciphers = PutAt(@, k, g)])

GreaseExtension ==
    \E g \in Greases, k \in 0..Len(hello.exts) :
        /\ ~Has(hello, g)
        /\ PskLast(hello.exts) => k < Len(hello.exts)
        /\ Changed("grease",
             [hello EXCEPT !.exts = PutAt(@, k, [type |-> g, value |-> "opaque"])])

\* In a list of codepoints.
GreaseEntry ==
    \E g \in Greases, e \in DOMAIN hello.exts :
        /\ hello.exts[e].type \in Listed
        /\ hello.exts[e].value # None
        /\ \E k \in 0..Len(hello.exts[e].value) :
            Changed("grease", [hello EXCEPT !.exts[e].value = PutAt(@, k, g)])

SwapCiphers ==
    \E k \in 1..(Len(hello.ciphers) - 1) :
        Changed("order", [hello EXCEPT !.ciphers = Swap(@, k)])

SwapExtensions ==
    \E k \in 1..(Len(hello.exts) - 1) :
        /\ hello.exts[k + 1].type # Ext.pre_shared_key
        /\ Changed("order", [hello EXCEPT !.exts = Swap(@, k)])

\* The client connects to another host.
NextHost ==
    \E h \in NewHosts, k \in DOMAIN hello.exts :
        /\ hello.exts[k].type = Ext.server_name
        /\ hello.exts[k].value \notin {None, h}
        /\ Changed("host", [hello EXCEPT !.exts[k].value = h])

AddExtension ==
    \E e \in Additions :
        /\ ~Has(hello, e.type)
        /\ ~PskLast(hello.exts)
        /\ Changed("offer", [hello EXCEPT !.exts = Append(@, e)])

Next ==
    \/ GreaseCipher \/ GreaseExtension \/ GreaseEntry
    \/ SwapCiphers \/ SwapExtensions \/ NextHost
    \/ AddExtension

Spec == Init /\ [][Next]_vars

--------------------------------------------------------------------------------
\* How much like a browser.
Rank == [source \in LaunchSources |->
    CASE source = "cli" -> 0
      [] source = "unknown" -> 1
      [] source = "library" -> 2
      [] source = "browser" -> 3]

\* GREASE among the suites, the extensions or the entries of a codepoint list
\* changes neither fingerprint nor launch source, nor the version and groups the
\* hello is classified by.
GreaseInvisible ==
    [][change' = "grease" =>
        LET m == Observe(hello)
            n == Observe(hello')
        IN  /\ Ja3(m) = Ja3(n)
            /\ Ja4(m) = Ja4(n)
            /\ LikelyLaunchSource(m) = LikelyLaunchSource(n)
            /\ HighestVersion(m) = HighestVersion(n)
            /\ HasPostQuantumKeyShare(m) = HasPostQuantumKeyShare(n)
            /\ UnstableExtensions(m) = UnstableExtensions(n)
            /\ HrrSniConsistent(m, n) \in {TRUE, None}]_vars

\* A client that shuffles its extensions or its suites, or goes to another host, keeps
\* its JA4 and its launch source ("a browser that re-randomises extension order keeps
\* the same fingerprint"); and a second hello is consistent with the first exactly
\* when the host, as far as either shows one, stays.
OrderInvisible ==
    [][change' \in {"order", "host"} =>
        LET m == Observe(hello)
            n == Observe(hello')
        IN  /\ Ja4(m) = Ja4(n)
            /\ LikelyLaunchSource(m) = LikelyLaunchSource(n)
            /\ HrrSniConsistent(m, n) =
                 IF m.ech_present \/ Answer(hello, Ext.server_name) = None THEN None
                 ELSE change' # "host"]_vars

\* No extension a client comes to offer makes it look less like a browser.
OfferNeverDemotes ==
    [][change' = "offer" =>
        Rank[LikelyLaunchSource(Observe(hello))]
            <= Rank[LikelyLaunchSource(Observe(hello'))]]_vars

\* An extension a client comes to offer shows in both fingerprints: nothing but
\* GREASE is filtered, however like GREASE a type may look.
OfferVisible ==
    [][change' = "offer" =>
        /\ Ja3(Observe(hello)) # Ja3(Observe(hello'))
        /\ Ja4(Observe(hello)) # Ja4(Observe(hello'))]_vars

\* The highest version is one that is offered, unless no known one is; JA4 says
\* the same version, unless a codepoint nobody knows is the largest of them.
VersionsAgree ==
    LET meta == Observe(hello)
        codes == [ssl_3_0 |-> "s3", tls_1_0 |-> "10", tls_1_1 |-> "11",
                  tls_1_2 |-> "12", tls_1_3 |-> "13"]
        Unknown == { v \in Entries(meta.supported_versions) :
                       ~IsGrease(v) /\ VersionFromWire(v) = "other" }
    IN  /\ \/ OffersVersion(meta, HighestVersion(meta))
           \/ KnownVersions(meta) = {} /\ HighestVersion(meta) = "tls_1_2"
        /\ \A v \in KnownVersions(meta) : VersionRank(v) <= VersionRank(HighestVersion(meta))
        /\ Ja4Version(meta) =
             IF \E v \in Unknown : v > \h0304 THEN "00"
             ELSE IF Unknown # {} /\ KnownVersions(meta) = {} THEN "00"
             ELSE codes[HighestVersion(meta)]

================================================================================
