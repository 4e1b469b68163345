------------------------------- MODULE HexLines -------------------------------
(***************************************************************************)
(* crates/aegiuw-sni-inspect/src/lib.rs: hex digits to bytes, and the       *)
(* tally of outcomes.  A line of text is a sequence of characters.          *)
(***************************************************************************)
EXTENDS Integers, Sequences, FiniteSets

CONSTANT HostNames   \* the hosts that occur, in ascending order

Lowercase == <<"0", "1", "2", "3", "4", "5", "6", "7",
               "8", "9", "a", "b", "c", "d", "e", "f">>
Capital == <<"A", "B", "C", "D", "E", "F">>

Hex == { Lowercase[k] : k \in 1..16 } \cup { Capital[k] : k \in 1..6 }

\* hex_nibble, of a digit.
Nibble(c) ==
    CHOOSE v \in 0..15 : Lowercase[v + 1] = c \/ (v >= 10 /\ Capital[v - 9] = c)

Places(text) == { k \in DOMAIN text : text[k] \in Hex }

\* The digits of a text in their order: the n-th has n of them up to its place.
Digits(text) ==
    [n \in 1..Cardinality(Places(text)) |->
        text[CHOOSE k \in Places(text) : Cardinality(Places(text) \cap 1..k) = n]]

\* decode_hex: whatever is no digit is dropped before the digits are paired.
Decodes(text) == Len(Digits(text)) % 2 = 0

Decoded(text) ==
    [k \in 1..(Len(Digits(text)) \div 2) |->
        16 * Nibble(Digits(text)[2 * k - 1]) + Nibble(Digits(text)[2 * k])]

--------------------------------------------------------------------------------
(* OutcomeHistogram *)

Kinds == {"cleartext", "encrypted", "not_found", "malformed"}

EmptyTally ==
    [outcomes |-> [k \in Kinds |-> 0],
     decode_errors |-> 0,
     host_counts |-> [h \in { HostNames[k] : k \in DOMAIN HostNames } |-> 0]]

RecordKind(tally, kind) == [tally EXCEPT !.outcomes[kind] = @ + 1]

RecordHost(tally, host) == [tally EXCEPT !.host_counts[host] = @ + 1]

\* Mutant: a line that is no hex is malformed too.
RecordErrorAsMalformed(tally) ==
    [tally EXCEPT !.decode_errors = @ + 1, !.outcomes["malformed"] = @ + 1]

RecordDecodeError(tally) == [tally EXCEPT !.decode_errors = @ + 1]

TotalParsed(tally) ==
    tally.outcomes["cleartext"] + tally.outcomes["encrypted"]
        + tally.outcomes["not_found"] + tally.outcomes["malformed"]

TotalLines(tally) == TotalParsed(tally) + tally.decode_errors

\* ech_adoption_fraction, as a numerator and a denominator.
EchAdoption(tally) ==
    IF TotalParsed(tally) = 0 THEN <<0, 1>>
    ELSE <<tally.outcomes["encrypted"], TotalParsed(tally)>>

\* Mutant: a host goes before those that are counted as often.
InsertedBefore(sorted, host, counts) ==
    LET k == Cardinality({ j \in DOMAIN sorted : counts[sorted[j]] > counts[host] })
    IN  SubSeq(sorted, 1, k) \o <<host>> \o SubSeq(sorted, k + 1, Len(sorted))

\* The stable sort puts a host behind those that are counted as often.
Inserted(sorted, host, counts) ==
    LET k == Cardinality({ j \in DOMAIN sorted : counts[sorted[j]] >= counts[host] })
    IN  SubSeq(sorted, 1, k) \o <<host>> \o SubSeq(sorted, k + 1, Len(sorted))

\* top_hosts: the map yields the hosts in ascending order.
TopHosts(tally, n) ==
    LET counts == tally.host_counts
        sorted[k \in 0..Len(HostNames)] ==
            IF k = 0 THEN <<>>
            ELSE IF counts[HostNames[k]] = 0 THEN sorted[k - 1]
            ELSE Inserted(sorted[k - 1], HostNames[k], counts)
        all == sorted[Len(HostNames)]
    IN  SubSeq(all, 1, IF n < Len(all) THEN n ELSE Len(all))

================================================================================
