-------------------------------- MODULE Corpus --------------------------------
(***************************************************************************)
(* The clients whose hellos the tests of crates/aegiuw-core keep beside the *)
(* parser, as the metadata reads them.                                     *)
(***************************************************************************)
EXTENDS Metadata

Extn(type, value) == [type |-> type, value |-> value]
Opaque(type) == Extn(type, "opaque")

Host == "www.example.com"

Tls13Ciphers == <<\h1301, \h1302, \h1303>>
LegacyEcdheCiphers == <<\hc02b, \hc02f, \hc02c, \hc030>>
UsualCiphers == Tls13Ciphers \o LegacyEcdheCiphers

Hello(ciphers, exts) == [ciphers |-> ciphers, exts |-> exts]

\* What every fixture of a client opens with, given its algorithms and groups.
Opening(sigalgs, groups, shares) ==
    <<Extn(Ext.server_name, Host),
      Opaque(\h0017),
      Extn(Ext.supported_versions, <<\h0304, \h0303>>),
      Extn(Ext.signature_algorithms, sigalgs),
      Extn(Ext.supported_groups, groups),
      Extn(Ext.key_share, shares)>>

Web == Extn(Ext.alpn, <<Http2, Http11>>)
Uncompressed == Extn(Ext.ec_point_formats, <<0>>)

Chrome == Hello(<<\h0a0a>> \o UsualCiphers,
    <<Opaque(\h0a0a),
      Extn(Ext.server_name, Host),
      Opaque(\h0017),
      Opaque(Ext.early_data),
      Extn(Ext.supported_versions, <<\h0304, \h0303>>),
      Extn(Ext.signature_algorithms,
           <<\h0403, \h0804, \h0401, \h0503, \h0805, \h0501, \h0806, \h0601>>),
      Extn(Ext.supported_groups, <<\h0a0a, \h11ec, \h001d, \h0017, \h0018>>),
      Extn(Ext.key_share, <<\h11ec, \h001d>>),
      Web,
      Uncompressed,
      Opaque(Ext.compress_certificate),
      Extn(Ext.record_size_limit, 16384),
      Opaque(Ext.encrypted_client_hello),
      Opaque(\hcaca)>>)

Firefox == Hello(UsualCiphers,
    Opening(<<\h0403, \h0503, \h0603, \h0804, \h0805, \h0806, \h0401, \h0501>>,
            <<\h11ec, \h001d, \h0017, \h0018, \h0019, \h0100, \h0101>>,
            <<\h11ec, \h001d>>)
        \o <<Web, Uncompressed, Extn(Ext.record_size_limit, 16384)>>)

Safari == Hello(UsualCiphers,
    Opening(<<\h0403, \h0804, \h0401, \h0503, \h0203>>,
            <<\h001d, \h0017, \h0018>>, <<\h001d, \h0017>>)
        \o <<Web, Uncompressed>>)

Curl == Hello(UsualCiphers,
    Opening(<<\h0403, \h0804, \h0401>>, <<\h001d, \h0017>>, <<\h001d>>))

Go == Hello(UsualCiphers,
    Opening(<<\h0403, \h0804, \h0401, \h0503>>, <<\h001d, \h0017, \h0018>>, <<\h001d>>)
        \o <<Web, Uncompressed>>)

PythonRequests == Hello(UsualCiphers,
    Opening(<<\h0403, \h0804, \h0401, \h0503>>, <<\h001d, \h0017>>, <<\h001d>>))

IosUrlSession == Hello(UsualCiphers,
    Opening(<<\h0403, \h0804, \h0401, \h0503>>, <<\h001d, \h0017, \h0018>>,
            <<\h001d, \h0017>>)
        \o <<Web, Uncompressed>>)

AndroidOkHttp == Hello(UsualCiphers,
    Opening(<<\h0403, \h0804, \h0401, \h0503, \h0805>>,
            <<\h001d, \h0017, \h0018, \h0019>>, <<\h001d>>)
        \o <<Web, Uncompressed>>)

CloudflareEch == Hello(<<\h0a0a>> \o Tls13Ciphers,
    <<Opaque(\h0a0a)>>
        \o [Opening(<<\h0403, \h0804, \h0401>>, <<\h11ec, \h001d, \h0017>>, <<\h11ec, \h001d>>)
            EXCEPT ![1].value = "cloudflare-ech.com"]
        \o <<Web, Uncompressed, Opaque(Ext.encrypted_client_hello)>>)

\* The same opening, without extended_master_secret.
PqChrome == Hello(UsualCiphers,
    <<Extn(Ext.server_name, Host),
      Extn(Ext.supported_versions, <<\h0304, \h0303>>),
      Extn(Ext.signature_algorithms, <<\h0403, \h0804, \h0401>>),
      Extn(Ext.supported_groups, <<\h11ec, \h001d, \h0017>>),
      Extn(Ext.key_share, <<\h11ec, \h001d>>),
      Web>>)

\* chrome_like_meta of the fingerprint tests, which gives key_share no groups.
ChromeLike == Hello(Tls13Ciphers,
    <<Extn(Ext.server_name, "example.com"),
      Extn(Ext.supported_groups, <<\h001d, \h0017, \h0018>>),
      Uncompressed,
      Extn(Ext.signature_algorithms, <<\h0403, \h0804, \h0401>>),
      Extn(Ext.alpn, <<Http2>>),
      Extn(Ext.supported_versions, <<\h0304, \h0303>>),
      Extn(Ext.key_share, None)>>)

Browsers == {Chrome, Firefox, Safari}

Clients == Browsers \cup
    {Curl, Go, PythonRequests, IosUrlSession, AndroidOkHttp, CloudflareEch, PqChrome, ChromeLike}

================================================================================
