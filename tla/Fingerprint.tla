----------------------------- MODULE Fingerprint ------------------------------
(***************************************************************************)
(* crates/aegiuw-core/src/fingerprint.rs: JA3, JA4, the table of known      *)
(* clients and the launch source of the metadata of a hello.                *)
(*                                                                         *)
(* A digest is the text it is taken of, and a text is the base its         *)
(* codepoints are written in and the codepoints: no two texts share one.   *)
(***************************************************************************)
EXTENDS Metadata

--------------------------------------------------------------------------------
(* JA3 *)

\* Mutant: GREASE is left among the groups.
Ja3KeepsGreaseGroups(meta) ==
    <<LegacyVersion, NoGrease(meta.cipher_suites), NoGrease(meta.extension_order),
      OrEmpty(meta.supported_groups), OrEmpty(meta.ec_point_formats)>>

\* Ja3::raw: the digest adds nothing.
Ja3(meta) ==
    <<LegacyVersion, NoGrease(meta.cipher_suites), NoGrease(meta.extension_order),
      NoGrease(OrEmpty(meta.supported_groups)), OrEmpty(meta.ec_point_formats)>>

--------------------------------------------------------------------------------
(* JA4 *)

TwoDigits(n) == IF n < 99 THEN n ELSE 99

Maximum(S) == CHOOSE n \in S : \A k \in S : k <= n

Ja4Version(meta) ==
    LET offered == { v \in Entries(meta.supported_versions) : ~IsGrease(v) }
        highest == IF offered = {} THEN LegacyVersion ELSE Maximum(offered)
    IN  CASE highest = \h0304 -> "13"
          [] highest = \h0303 -> "12"
          [] highest = \h0302 -> "11"
          [] highest = \h0301 -> "10"
          [] highest = \h0300 -> "s3"
          [] OTHER -> "00"

NoAlpn == <<48, 48>>   \* "00"

Alphanumeric == (48..57) \cup (65..90) \cup (97..122)

\* The first and the last letter or digit of the protocol offered first.
Ja4Alpn(meta) ==
    LET protos == OrEmpty(meta.alpn_protocols)
        name == protos[1]
        found == { k \in DOMAIN name : name[k] \in Alphanumeric }
    IN  IF protos = <<>> THEN NoAlpn
        ELSE IF found = {} THEN NoAlpn
        ELSE <<name[CHOOSE k \in found : \A j \in found : k <= j], name[Maximum(found)]>>

Ja4a(meta) == [
    protocol |-> "t",
    version |-> Ja4Version(meta),
    sni |-> IF meta.host # None THEN "d" ELSE "n",
    ciphers |-> TwoDigits(Len(NoGrease(meta.cipher_suites))),
    extensions |-> TwoDigits(Len(NoGrease(meta.extension_order))),
    alpn |-> Ja4Alpn(meta)]

\* join_u16_decimal, hashed; the digest of an empty text is a sentinel.
Decimal(codes) == [base |-> 10, codes |-> codes]

\* Mutant: the list is hashed as it came.
Unsorted(list) == list

\* sort_unstable: the k-th place holds the value with fewer than k below it.
Sorted(list) ==
    LET below(v) == Cardinality({ k \in DOMAIN list : list[k] < v })
        upTo(v) == Cardinality({ k \in DOMAIN list : list[k] <= v })
    IN  [k \in DOMAIN list |->
            CHOOSE v \in { list[j] : j \in DOMAIN list } : below(v) < k /\ k <= upTo(v)]

Ja4b(meta) == Decimal(Sorted(NoGrease(meta.cipher_suites)))

Ja4c(meta) ==
    LET order == meta.extension_order
        hashed == { k \in DOMAIN order :
                      ~IsGrease(order[k]) /\ order[k] \notin {Ext.server_name, Ext.alpn} }
        exts == Sorted(Picked(order, hashed))
        sigs == NoGrease(OrEmpty(meta.signature_algorithms))
    IN  <<Decimal(exts), Decimal(sigs)>>

Ja4(meta) == <<Ja4a(meta), Ja4b(meta), Ja4c(meta)>>

--------------------------------------------------------------------------------
(* Known clients.  The table of JA3 is empty; that of JA4 has one entry, whose *)
(* second part is the digest of these suites of Chrome's, four hexadecimal     *)
(* digits each.                                                                *)

ReferenceCiphers == <<
    \h002f, \h0035, \h009c, \h009d, \h1301, \h1302, \h1303, \hc013, \hc014, \hc02b,
    \hc02c, \hc02f, \hc030, \hcca8, \hcca9>>

KnownJa4 == [
    a |-> [protocol |-> "t", version |-> "13", sni |-> "d", ciphers |-> 15,
           extensions |-> 16, alpn |-> Http2],
    b |-> [base |-> 16, codes |-> ReferenceCiphers],
    client |-> "chrome"]

\* KnownClient, by its kind() labels.
KnownClients == {"chrome", "firefox", "safari", "curl", "go", "other"}

\* The first two parts decide: no hello has the second.
KnownClientFromJa4(ja4) ==
    IF ja4[1] = KnownJa4.a /\ ja4[2] = KnownJa4.b THEN KnownJa4.client ELSE None

--------------------------------------------------------------------------------
(* likely_launch_source *)

\* LaunchSource, by its kind() labels.
LaunchSources == {"browser", "cli", "library", "unknown"}

LaunchOf == [client \in KnownClients |->
    CASE client \in {"chrome", "firefox", "safari"} -> "browser"
      [] client = "curl" -> "cli"
      [] client = "go" -> "library"
      [] client = "other" -> "unknown"]

Worth(n, condition) == IF condition THEN n ELSE 0

BrowserScore(meta) ==
    LET count == Len(NoGrease(meta.extension_order))
    IN  Worth(3, meta.ech_present)
            + Worth(3, HasPostQuantumKeyShare(meta))
            + Worth(1, meta.compress_certificate_present)
            + Worth(2, Offers(meta, "http_3"))
            + Worth(1, Offers(meta, "http_2"))
            + Worth(1, meta.signature_algorithms # None)
            + Worth(1, count >= 12)
            - Worth(2, count <= 5)

\* Mutant: the upper end of the library's band is left out.
LaunchOfScoreWithGap(score) ==
    CASE score >= 5 -> "browser"
      [] score \in 2..3 -> "library"
      [] score <= -1 -> "cli"
      [] OTHER -> "unknown"

LaunchOfScore(score) ==
    CASE score >= 5 -> "browser"
      [] score \in 2..4 -> "library"
      [] score <= -1 -> "cli"
      [] OTHER -> "unknown"

LikelyLaunchSource(meta) ==
    LET known == KnownClientFromJa4(Ja4(meta))
    IN  IF known # None THEN LaunchOf[known] ELSE LaunchOfScore(BrowserScore(meta))

================================================================================
