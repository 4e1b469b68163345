---------------------------- MODULE MCClientDrift -----------------------------
(***************************************************************************)
(* ClientDrift from the clients of the corpus.                             *)
(***************************************************************************)
EXTENDS ClientDrift, Corpus

ReferenceChrome == Hello(ReferenceCiphers, Safari.exts)

\* A client that offers versions nobody knows, among and instead of known ones.
Odd == { Hello(<<\h1301>>, <<Extn(Ext.supported_versions, list)>>) :
           list \in {<<\h0303, \h7f1c>>, <<\h7f1c>>, <<\h0200, \h0301>>, <<\h0200>>,
                     <<\hfafa>>, <<\h0300, \h0302, \h0301>>} }

MCHellos == Clients \cup Odd \cup {ReferenceChrome, Hello(<<\h1301>>, <<>>)}

MCAdditions == {
    Opaque(Ext.encrypted_client_hello), Opaque(Ext.pre_shared_key), Opaque(\hfe0a),
    Opaque(Ext.compress_certificate), Extn(Ext.alpn, <<Http3Draft \o <<50, 57>>>>),
    Extn(Ext.alpn, <<Http3, Http2>>), Extn(Ext.alpn, <<>>),
    Extn(Ext.key_share, <<\h6399>>), Extn(Ext.signature_algorithms, <<\h0403>>),
    Extn(Ext.server_name, None)}

================================================================================
