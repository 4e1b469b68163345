---------------------------- MODULE ExtensionBody -----------------------------
(***************************************************************************)
(* The parsers of extension bodies in crates/aegiuw-core/src/sni.rs, one   *)
(* body at a time: lists under a length prefix, a record size limit, and   *)
(* a server name.  The body is any sequence of bytes.                      *)
(***************************************************************************)
EXTENDS Cursor, ServerName, FiniteSets

CONSTANTS
    Bodies,               \* [kind, body] pairs to parse
    MinLimit, MaxLimit    \* 64 and 16385 in the code

\* signature_algorithms and supported_groups share parse_u16_prefixed_u16_list.
PairKinds == {"u16_list", "versions"}
WalkedKinds == PairKinds \cup {"alpn", "key_share"}
ListKinds == WalkedKinds \cup {"points"}
Kinds == ListKinds \cup {"limit", "server_name"}

ASSUME BodiesAssumption == Bodies \subseteq [kind : Kinds, body : Seq(Byte)]

ASSUME LimitsAssumption == MinLimit \in Nat /\ MaxLimit \in Nat

VARIABLES
    kind, body,   \* the parser that is called, and its argument
    cur,          \* the cursor it reads with
    at,           \* "start", "entries", "type", "host", then the answer:
                  \* "some" (Host), "none" (Malformed), "skip"; "idle": no call
    out           \* the entries so far, the formats, the limit or the host

input == <<kind, body>>
vars == <<input, cur, at, out>>

Answered == at \in {"some", "none", "skip"}

--------------------------------------------------------------------------------
Init ==
    /\ \E b \in Bodies : kind = b.kind /\ body = b.body
    /\ cur = CursorOn(body)
    /\ at = "start"
    /\ out = <<>>

\* The parser of kind k is called on the bytes b.
Call(k, b) ==
    /\ kind' = k /\ body' = b
    /\ cur' = CursorOn(b)
    /\ at' = "start"
    /\ out' = <<>>

Refuse == at' = "none" /\ UNCHANGED <<input, cur, out>>

\* Bytes of the length prefix of the list.
WidthOf(k) == IF k \in {"versions", "points"} THEN 1 ELSE 2

Width == WidthOf(kind)

\* The list fits and has a length its parser takes.  An empty list of protocols
\* or of key shares is taken; what follows the list is never looked at.  A list
\* of pairs would be refused for its odd byte by the loop as well.
GoodList ==
    /\ PrefixFits(cur, Width)
    /\ kind \in PairKinds \cup {"points"} => Prefixed(cur, Width) # <<>>
    /\ kind \in PairKinds => Number(cur, Width) % 2 = 0

RejectList ==
    /\ at = "start" /\ kind \in ListKinds
    /\ ~GoodList
    /\ Refuse

ReadList ==
    /\ at = "start" /\ kind \in WalkedKinds
    /\ GoodList
    /\ cur' = CursorOn(Prefixed(cur, Width))
    /\ at' = "entries"
    /\ UNCHANGED <<input, out>>

CopyFormats ==
    /\ at = "start" /\ kind = "points"
    /\ GoodList
    /\ out' = Prefixed(cur, Width)
    /\ at' = "some"
    /\ UNCHANGED <<input, cur>>

--------------------------------------------------------------------------------
Walking == at = "entries" /\ Remaining(cur) > 0

\* Mutant: the key of a share may run over the end of the list.
EntryFitsWithoutKey ==
    CASE kind \in PairKinds -> Fits(cur, 2)
      [] kind = "alpn" -> PrefixFits(cur, 1) /\ Number(cur, 1) > 0
      [] kind = "key_share" -> Fits(cur, 4)

EntryFits ==
    CASE kind \in PairKinds -> Fits(cur, 2)
      [] kind = "alpn" -> PrefixFits(cur, 1) /\ Number(cur, 1) > 0
      [] kind = "key_share" -> Fits(cur, 2) /\ PrefixFits(Skip(cur, 2), 2)

AfterEntry ==
    CASE kind \in PairKinds -> Skip(cur, 2)
      [] kind = "alpn" -> AfterPrefixed(cur, 1)
      [] kind = "key_share" -> AfterPrefixed(Skip(cur, 2), 2)

\* Mutant: the first byte of a codepoint is the low one.
LittleEndianEntry ==
    IF kind = "alpn" THEN Prefixed(cur, 1) ELSE Number(cur, 1) + 256 * Number(Skip(cur, 1), 1)

\* A codepoint, the group of a key share, or a protocol's name.
Entry == IF kind = "alpn" THEN Prefixed(cur, 1) ELSE Number(cur, 2)

\* Mutant: a key share ends with its group.
ReadEntryWithoutKey ==
    /\ Walking /\ EntryFits
    /\ out' = Append(out, Entry)
    /\ cur' = IF kind = "key_share" THEN Skip(cur, 2) ELSE AfterEntry
    /\ UNCHANGED <<input, at>>

ReadEntry ==
    /\ Walking /\ EntryFits
    /\ out' = Append(out, Entry)
    /\ cur' = AfterEntry
    /\ UNCHANGED <<input, at>>

RejectEntry ==
    /\ Walking /\ ~EntryFits
    /\ Refuse

Finish ==
    /\ at = "entries" /\ Remaining(cur) = 0
    /\ at' = "some"
    /\ UNCHANGED <<input, cur, out>>

\* Exactly two bytes, within the bounds.
GoodLimit == Len(body) = 2 /\ Number(cur, 2) \in MinLimit..MaxLimit

ReadLimit ==
    /\ at = "start" /\ kind = "limit"
    /\ GoodLimit
    /\ out' = Number(cur, 2)
    /\ cur' = Skip(cur, 2)
    /\ at' = "some"
    /\ UNCHANGED input

RejectLimit ==
    /\ at = "start" /\ kind = "limit"
    /\ ~GoodLimit
    /\ Refuse

--------------------------------------------------------------------------------
HostName == 0   \* NAME_TYPE_HOST_NAME

\* Three bytes: a name type and the length of a name.
GoodNameList == PrefixFits(cur, 2) /\ Number(cur, 2) >= 3

RejectNameList ==
    /\ at = "start" /\ kind = "server_name"
    /\ ~GoodNameList
    /\ Refuse

ReadNameList ==
    /\ at = "start" /\ kind = "server_name"
    /\ GoodNameList
    /\ cur' = CursorOn(Prefixed(cur, 2))
    /\ at' = "type"
    /\ UNCHANGED <<input, out>>

SkipOtherType ==
    /\ at = "type" /\ Number(cur, 1) # HostName
    /\ at' = "skip"
    /\ UNCHANGED <<input, cur, out>>

\* A host name, at the cursor after its type.
Typed == at = "type" /\ Number(cur, 1) = HostName

RejectHostLength ==
    /\ Typed /\ ~PrefixFits(Skip(cur, 1), 2)
    /\ Refuse

SkipNotUtf8 ==
    /\ Typed /\ PrefixFits(Skip(cur, 1), 2)
    /\ ~IsUtf8(Prefixed(Skip(cur, 1), 2))
    /\ at' = "skip"
    /\ UNCHANGED <<input, cur, out>>

ReadHost ==
    /\ Typed /\ PrefixFits(Skip(cur, 1), 2)
    /\ IsUtf8(Prefixed(Skip(cur, 1), 2))
    /\ out' = StripDot(Prefixed(Skip(cur, 1), 2))
    /\ cur' = AfterPrefixed(Skip(cur, 1), 2)
    /\ at' = "host"
    /\ UNCHANGED input

\* The type of the next entry, the only byte of it that is read.
SecondName == Remaining(cur) > 0 /\ Number(cur, 1) = HostName

RejectHost ==
    /\ at = "host"
    /\ ~Usable(out) \/ SecondName
    /\ Refuse

AcceptHost ==
    /\ at = "host"
    /\ Usable(out) /\ ~SecondName
    /\ at' = "some"
    /\ UNCHANGED <<input, cur, out>>

ReadName ==
    \/ RejectNameList \/ ReadNameList \/ SkipOtherType \/ RejectHostLength
    \/ SkipNotUtf8 \/ ReadHost \/ RejectHost \/ AcceptHost

ParseStep ==
    \/ RejectList \/ ReadList \/ CopyFormats
    \/ ReadEntry \/ RejectEntry \/ Finish
    \/ ReadLimit \/ RejectLimit
    \/ ReadName

Next == ParseStep

Spec == Init /\ [][Next]_vars

--------------------------------------------------------------------------------
(* The meaning of a body, without an order of reading. *)

\* The bytes under the length prefix, if the body has them.
HasList(b, w) == PrefixFits(CursorOn(b), w)
List(b, w) == Prefixed(CursorOn(b), w)

\* Bytes x+1..y of a list are one entry of kind k.
IsEntry(k, list, x, y) ==
    LET c == Skip(CursorOn(list), x)
    IN  CASE k \in PairKinds -> y = x + 2
          [] k = "alpn" -> y > x + 1 /\ y = x + 1 + Number(c, 1)
          [] k = "key_share" -> y >= x + 4 /\ y = x + 4 + Number(Skip(c, 2), 2)

\* Neighbouring cuts.
Adjacent(cuts) == { p \in cuts \X cuts : p[1] < p[2] /\ cuts \cap (p[1] + 1)..(p[2] - 1) = {} }

\* The ways to cut the list of a body of kind k, from end to end, into entries.
Cuts(k, b) ==
    IF ~HasList(b, WidthOf(k)) THEN {}
    ELSE IF k \in PairKinds /\ List(b, WidthOf(k)) = <<>> THEN {}
    ELSE LET list == List(b, WidthOf(k))
         IN  { cuts \in SUBSET (0..Len(list)) :
                 /\ {0, Len(list)} \subseteq cuts
                 /\ \A p \in Adjacent(cuts) : IsEntry(k, list, p[1], p[2]) }

\* The entry that starts at the n-th cut is the n-th of the answer.
Listed(k, list, cuts, entries) ==
    /\ Len(entries) = Cardinality(cuts) - 1
    /\ \A p \in Adjacent(cuts) :
        entries[Cardinality(cuts \cap 0..p[1])] =
            IF k = "alpn" THEN SubSeq(list, p[1] + 2, p[2])
            ELSE Number(Skip(CursorOn(list), p[1]), 2)

\* The first entry of the list of b is a host name of the bytes raw, and no second
\* host name follows it.
NamesHost(b, raw) ==
    /\ HasList(b, 2)
    /\ LET list == List(b, 2)
           n == Len(raw)
       IN  /\ Len(list) >= n + 3
           /\ list[1] = HostName
           /\ 256 * list[2] + list[3] = n
           /\ SubSeq(list, 4, n + 3) = raw
           /\ Len(list) > n + 3 => list[n + 4] # HostName

\* The host that a server_name reports: but for one dot at its end, a host name by
\* the limits, which are measured without a walk.
HostsNamed(b) ==
    { StripDot(raw) : raw \in { r \in { SubSeq(b, 6, n) : n \in 5..Len(b) } :
                                NamesHost(b, r) /\ IsUtf8(r) /\ Hostname(StripDot(r)) } }

--------------------------------------------------------------------------------
TypeOK ==
    /\ [kind |-> kind, body |-> body] \in [kind : Kinds, body : Seq(Byte)]
    /\ cur \in [bytes : Seq(Byte), pos : Nat]
    /\ cur.pos <= Len(cur.bytes)
    /\ at \in {"idle", "start", "entries", "type", "host", "some", "none", "skip"}

\* A list is taken exactly when it falls into entries of its kind from end to
\* end, and the answer is those entries in the order of the wire: an entry that
\* overruns, is cut short or is empty refuses the whole list.
ListIsMeaning ==
    Answered /\ kind \in WalkedKinds =>
        IF Cuts(kind, body) # {}
        THEN /\ at = "some"
             /\ \A cuts \in Cuts(kind, body) : Listed(kind, List(body, Width), cuts, out)
        ELSE at = "none"

\* A list of pairs is answered with every pair, verbatim and in wire order.
PairsVerbatim ==
    kind \in PairKinds /\ at = "some" =>
        /\ HasList(body, Width)
        /\ List(body, Width) # <<>>
        /\ Len(List(body, Width)) = 2 * Len(out)
        /\ \A k \in 1..Len(out) :
            out[k] = 256 * List(body, Width)[2 * k - 1] + List(body, Width)[2 * k]

\* Bytes x+1..y of a host are a label that starts with xn--, in any case.
IdnLabel(h, x, y) ==
    /\ x = 0 \/ h[x] = Dot
    /\ y = Len(h) \/ h[y + 1] = Dot
    /\ y - x >= 4
    /\ h[x + 1] \in {88, 120} /\ h[x + 2] \in {78, 110}
    /\ h[x + 3] = Hyphen /\ h[x + 4] = Hyphen
    /\ \A k \in (x + 1)..y : h[k] # Dot

\* A host is reported exactly when the body names one that is a host name by the
\* limits; and is_idn_host sees every label of it, and nothing that runs over a dot.
HostIsMeaning ==
    Answered /\ kind = "server_name" =>
        /\ at = "some" <=> HostsNamed(body) # {}
        /\ at = "some" =>
            /\ out \in HostsNamed(body)
            /\ IsIdnHost(out) <=> \E x, y \in 0..Len(out) : IdnLabel(out, x, y)

\* The host is the bytes of the wire, neither folded nor normalised (H6), with
\* at most one dot left behind.
HostOnTheWire ==
    kind = "server_name" /\ at = "some" =>
        LET list == List(body, 2)
            n == 256 * list[2] + list[3]
        IN  /\ HasList(body, 2)
            /\ Len(out) = n \/ (Len(out) = n - 1 /\ list[n + 3] = Dot)
            /\ \A k \in 1..Len(out) : out[k] = list[k + 3]

================================================================================
