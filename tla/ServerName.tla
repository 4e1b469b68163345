------------------------------ MODULE ServerName ------------------------------
(***************************************************************************)
(* What parse_server_name_extension in crates/aegiuw-core/src/sni.rs asks  *)
(* of the bytes of a host name, and the host helpers of the same file.     *)
(* A host name is a sequence of bytes.                                     *)
(***************************************************************************)
EXTENDS Integers, Sequences

CONSTANTS
    MaxHost,    \* MAX_HOSTNAME_LEN, 253 in the code
    MaxLabel    \* MAX_LABEL_LEN, 63 in the code

ASSUME NameLimits == MaxHost \in Nat /\ MaxLabel \in Nat

Dot == 46
Hyphen == 45
Digit == 48..57
Upper == 65..90
Letter == Upper \cup 97..122

--------------------------------------------------------------------------------
(* Two library predicates. *)

\* The bytes of the character that a byte begins.
CharLen(b) ==
    IF b < 128 THEN 1
    ELSE IF b \in 194..223 THEN 2
    ELSE IF b \in 224..239 THEN 3
    ELSE IF b \in 240..244 THEN 4
    ELSE 0

\* A character of n bytes stands at k, neither overlong, nor a surrogate, nor past
\* the last of Unicode.
CharacterAt(h, k, n) ==
    /\ CharLen(h[k]) = n /\ k + n - 1 <= Len(h)
    /\ \A j \in 1..(n - 1) : h[k + j] \in 128..191
    /\ h[k] = 224 => h[k + 1] >= 160
    /\ h[k] = 237 => h[k + 1] < 160
    /\ h[k] = 240 => h[k + 1] >= 144
    /\ h[k] = 244 => h[k + 1] < 144

\* core::str::from_utf8: every byte is of some character.
IsUtf8(h) ==
    \A k \in DOMAIN h : \E n \in 1..4, j \in 0..3 : j < n /\ j < k /\ CharacterAt(h, k - j, n)

Decimal(d) ==
    /\ Len(d) \in 1..3
    /\ \A k \in DOMAIN d : d[k] \in Digit
    /\ d[1] = 48 => Len(d) = 1
    /\ Len(d) = 3 => 100 * (d[1] - 48) + 10 * (d[2] - 48) + d[3] - 48 <= 255

\* IpAddr::from_str.  Literals of version 6 hold a colon, which no host name
\* may: only the dotted quad is told apart.
IsIpLiteral(h) ==
    \E a, b, c \in DOMAIN h :
        /\ a < b /\ b < c
        /\ h[a] = Dot /\ h[b] = Dot /\ h[c] = Dot
        /\ Decimal(SubSeq(h, 1, a - 1))
        /\ Decimal(SubSeq(h, a + 1, b - 1))
        /\ Decimal(SubSeq(h, b + 1, c - 1))
        /\ Decimal(SubSeq(h, c + 1, Len(h)))

--------------------------------------------------------------------------------
\* strip_suffix('.'): one dot, and no second one.
StripDot(h) ==
    IF h # <<>> /\ h[Len(h)] = Dot THEN SubSeq(h, 1, Len(h) - 1) ELSE h

Dots(h) == { k \in DOMAIN h : h[k] = Dot }

\* Mutant: the label after the last dot is not measured.
LabelsBeforeDotsFit(h) ==
    \A dot \in Dots(h) :
        \E prev \in 0..(dot - 1) :
            /\ prev = 0 \/ prev \in Dots(h)
            /\ Dots(h) \cap (prev + 1)..(dot - 1) = {}
            /\ dot - prev - 1 <= MaxLabel

\* The walk over the dots: a label ends at each, the last at the end.
LabelsFit(h) ==
    \A end \in Dots(h) \cup {Len(h) + 1} :
        \E prev \in 0..(end - 1) :
            /\ prev = 0 \/ prev \in Dots(h)
            /\ Dots(h) \cap (prev + 1)..(end - 1) = {}
            /\ end - prev - 1 <= MaxLabel

IsLdh(h) == \A k \in DOMAIN h : h[k] \in Letter \cup Digit \cup {Hyphen, Dot}

\* What a stripped name has to satisfy to be reported (H1, H2, H3, H5).
Usable(h) ==
    /\ h # <<>>
    /\ Len(h) <= MaxHost
    /\ LabelsFit(h)
    /\ ~IsIpLiteral(h)
    /\ IsLdh(h)

--------------------------------------------------------------------------------
(* The helpers the observers of a host call. *)

Lower(h) == [k \in DOMAIN h |-> IF h[k] \in Upper THEN h[k] + 32 ELSE h[k]]

IdnPrefix == <<120, 110, 45, 45>>   \* xn--

\* is_idn_host: some label starts with the prefix, whatever its case.
IsIdnHost(h) ==
    \E start \in {0} \cup Dots(h) :
        start + 4 <= Len(h) /\ Lower(SubSeq(h, start + 1, start + 4)) = IdnPrefix

--------------------------------------------------------------------------------
(* The same limits, without a walk. *)

Hostname(h) ==
    /\ Len(h) \in 1..MaxHost
    /\ \A a \in 0..(Len(h) - MaxLabel - 1) : \E k \in 1..(MaxLabel + 1) : h[a + k] = Dot
    /\ \A k \in DOMAIN h : h[k] \in Letter \cup Digit \cup {Hyphen, Dot}
    /\ ~IsIpLiteral(h)

================================================================================
