--------------------------- MODULE HandshakeContract ---------------------------
(***************************************************************************)
(* What reassembly promises its callers: the "multi-record contract" of    *)
(* crates/aegiuw-core/src/sni.rs, stated over the records themselves, with *)
(* no buffer, no cursor and no fast path.                                  *)
(*                                                                         *)
(* The wire is a fixed sequence of Records TLS records.  cut[i] is the     *)
(* number of payload bytes in records 1..i, so record i carries            *)
(* cut[i] - cut[i-1] of them; hs[i] says that its content_type is          *)
(* handshake (22); claim is the u24 body length found in the first four    *)
(* payload bytes.  A caller holds the first `arrived' records (and maybe   *)
(* a part of the next one) and asks for the handshake they carry.          *)
(***************************************************************************)
EXTENDS Integers

CONSTANTS
    Records,            \* records on the wire
    Cuts, Claims,       \* the cuts and claims a wire may have
    MaxHandshakeBytes,  \* MAX_HANDSHAKE_BYTES
    MaxRecordFragment,  \* MAX_RECORD_FRAGMENT
    None                \* Rust's None

HeaderLen == 4  \* type and u24 length

ASSUME SizesAssumption ==
    /\ Records \in Nat
    /\ MaxHandshakeBytes \in Nat
    /\ HeaderLen <= MaxHandshakeBytes
    /\ MaxRecordFragment \in Nat
    /\ MaxRecordFragment <= MaxHandshakeBytes
    /\ None \notin Int

ASSUME WireAssumption ==
    /\ Claims \subseteq Nat
    /\ \A c \in Cuts :
        /\ c \in [0..Records -> Nat]
        /\ c[0] = 0
        /\ \A i, j \in 0..Records : i <= j => c[i] <= c[j]

VARIABLES
    cut, hs, claim,  \* the wire
    arrived,         \* complete records in the caller's slice
    answer           \* length of the handshake the last call returned, or None

wire == <<cut, hs, claim>>

--------------------------------------------------------------------------------
\* fragment_len of record i.
Fragment(i) == cut[i] - cut[i - 1]

\* Mutant: the header is not counted.
BodyOnly == claim

\* The handshake header and the body it claims.
Total == HeaderLen + claim

\* Record k is the one that completes the handshake.
CompletedBy(k) == cut[k - 1] < Total /\ Total <= cut[k]

\* Records 1..k may be concatenated.
Assemblable(k) == \A i \in 1..k : hs[i] /\ Fragment(i) <= MaxRecordFragment

\* The first n records carry a complete handshake that is not too long.
CarriesHandshake(n) ==
    /\ Total <= MaxHandshakeBytes
    /\ \E k \in 1..n : CompletedBy(k) /\ Assemblable(k)

\* What a call on the first n records returns.  Everything up to the end of
\* the completing record has to fit under the cap, not only the handshake.
Promise(n) ==
    IF CarriesHandshake(n) /\ \E k \in 1..n : CompletedBy(k) /\ cut[k] <= MaxHandshakeBytes
    THEN Total
    ELSE None

--------------------------------------------------------------------------------
ContractInit ==
    /\ cut \in Cuts
    /\ hs \in [1..Records -> BOOLEAN]
    /\ claim \in Claims
    /\ arrived \in 0..Records
    /\ answer = None

\* More bytes reach the caller's slice.
MoreArrives ==
    /\ arrived' \in arrived..Records
    /\ UNCHANGED <<wire, answer>>

\* A call returns, whatever earlier calls on shorter slices returned.
Answer ==
    /\ answer' = Promise(arrived)
    /\ UNCHANGED <<wire, arrived>>

ContractNext == MoreArrives \/ Answer

ContractSpec == ContractInit /\ [][ContractNext]_<<wire, arrived, answer>>

================================================================================
