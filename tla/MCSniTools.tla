------------------------------ MODULE MCSniTools ------------------------------
(***************************************************************************)
(* SniTools on every corpus of at most MaxLines of these lines, and of more  *)
(* of those that name a host.                                              *)
(***************************************************************************)
EXTENDS SniTools, TLC

CONSTANT MaxLines

MCHostNames == <<"a.example", "b.example", "c.example">>

Sni(host) == [ciphers |-> <<\h1301>>, exts |-> <<[type |-> Ext.server_name, value |-> host]>>]

MCHellos ==
    <<10>> :> Sni("a.example") @@ <<11>> :> Sni("b.example") @@ <<12>> :> Sni("c.example")
    @@ <<1>> :> [Sni("a.example") EXCEPT !.exts =
                    Append(@, [type |-> Ext.encrypted_client_hello, value |-> "opaque"])]
    @@ <<2, 10>> :> [Sni(None) EXCEPT !.exts = <<
                        [type |-> Ext.supported_versions, value |-> <<\h0304, \h0a0a>>],
                        [type |-> Ext.key_share, value |-> <<\h11ec>>]>>]

\* Hosts, one of them in capitals, a decoy, a hello without a host, malformed bytes,
\* an odd number of digits, no digit, a comment behind a blank, and a prefix.
MCLines == {
    <<"0", "a">>, <<" ", "0", ":", "B">>, <<"0", "c">>, <<"0", "1">>, <<"0", "2", ",", "0", "a">>,
    <<"f", "f">>, <<"a">>, <<"z">>, <<" ", "#", "0", "a">>, <<"0", "x", "0">>}

MCNaming == {<<"0", "a">>, <<" ", "0", ":", "B">>, <<"0", "c">>}

MCCorpora ==
    UNION { [1..n -> MCLines] : n \in 0..MaxLines } \cup [1..(MaxLines + 2) -> MCNaming]

MCArguments == {
    <<>>, <<"-h">>, <<"--help">>, <<"--stdin">>, <<"word">>, <<"--file", "word">>,
    <<"--other">>, <<"word", "word">>}

================================================================================
