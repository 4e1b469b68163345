-------------------------- MODULE ExtensionBodyProofs -------------------------
(***************************************************************************)
(* For bodies of any length and any bytes: the cursor never leaves its     *)
(* slice, a list is taken exactly when it falls into entries and is        *)
(* answered with them, and a host is the one that the body names, as the   *)
(* bytes of the wire.                                                      *)
(***************************************************************************)
EXTENDS HelloBuilders, SequenceTheorems, FiniteSetTheorems, TLAPS

\* The cursors that are within their slice.
Cursors == { c \in [bytes : Seq(Byte), pos : Nat] : c.pos <= Len(c.bytes) }

--------------------------------------------------------------------------------
(* struct Cursor. *)

\* A cursor over some bytes starts before all of them.
LEMMA CursorOnIs ==
    ASSUME NEW b \in Seq(Byte)
    PROVE  /\ CursorOn(b) \in Cursors
           /\ CursorOn(b).bytes = b /\ CursorOn(b).pos = 0
<1>1. Len(b) \in Nat
  BY LenProperties
<1>2. QED
  BY <1>1 DEF CursorOn, Cursors

\* Bytes that fit can be skipped ...
LEMMA SkipIs ==
    ASSUME NEW c \in Cursors, NEW n \in Nat, Fits(c, n)
    PROVE  /\ Skip(c, n) \in Cursors
           /\ Skip(c, n).bytes = c.bytes /\ Skip(c, n).pos = c.pos + n
<1>1. Len(c.bytes) \in Nat /\ c.pos \in Nat /\ c.bytes \in Seq(Byte)
  BY LenProperties DEF Cursors
<1>2. c.pos + n <= Len(c.bytes)
  BY <1>1 DEF Fits, Remaining
<1>3. /\ Skip(c, n) \in [bytes : Seq(Byte), pos : Nat]
      /\ Skip(c, n).bytes = c.bytes /\ Skip(c, n).pos = c.pos + n
  BY <1>1 DEF Skip, Cursors
<1>4. QED
  BY <1>2, <1>3 DEF Cursors

\* ... or copied ...
LEMMA SliceIs ==
    ASSUME NEW c \in Cursors, NEW n \in Nat, Fits(c, n)
    PROVE  /\ Slice(c, n) \in Seq(Byte) /\ Len(Slice(c, n)) = n
           /\ \A k \in 1..n : Slice(c, n)[k] = c.bytes[c.pos + k]
<1>1. Len(c.bytes) \in Nat /\ c.pos \in Nat /\ c.bytes \in Seq(Byte)
  BY LenProperties DEF Cursors
<1>2. c.pos + n <= Len(c.bytes)
  BY <1>1 DEF Fits, Remaining
<1> DEFINE from == c.pos + 1
           to == c.pos + n
<1>3. /\ from \in Int /\ to \in Int /\ to - from + 1 = n
      /\ from <= to \/ n = 0
      /\ \A i \in 1..n : from + i - 1 = c.pos + i
      /\ \A i \in from..to : i \in 1..Len(c.bytes)
  BY <1>1, <1>2
<1>4. Slice(c, n) = SubSeq(c.bytes, from, to)
  BY DEF Slice
<1> HIDE DEF from, to
<1>5. \A i \in from..to : c.bytes[i] \in Byte
  BY <1>1, <1>3, ElementOfSeq
<1>6. /\ SubSeq(c.bytes, from, to) \in Seq(Byte)
      /\ Len(SubSeq(c.bytes, from, to)) = IF from <= to THEN to - from + 1 ELSE 0
      /\ \A i \in 1..(to - from + 1) : SubSeq(c.bytes, from, to)[i] = c.bytes[from + i - 1]
  BY <1>3, <1>5, SubSeqProperties
<1>7. QED
  BY <1>3, <1>4, <1>6

\* ... or read as a number, which is not negative.
LEMMA NumberIs ==
    ASSUME NEW c \in Cursors, NEW w \in {1, 2}, Fits(c, w)
    PROVE  /\ Number(c, w) \in Nat
           /\ Number(c, 1) = c.bytes[c.pos + 1] /\ c.bytes[c.pos + 1] \in Byte
           /\ w = 2 => Number(c, 2) = 256 * c.bytes[c.pos + 1] + c.bytes[c.pos + 2]
<1>1. Len(c.bytes) \in Nat /\ c.pos \in Nat /\ c.bytes \in Seq(Byte)
  BY LenProperties DEF Cursors
<1>2. c.pos + w <= Len(c.bytes)
  BY <1>1 DEF Fits, Remaining
<1>3. \A k \in 1..w : c.bytes[c.pos + k] \in Byte
  <2> TAKE k \in 1..w
  <2>1. c.pos + k \in 1..Len(c.bytes)
    BY <1>1, <1>2
  <2>2. QED
    BY <1>1, <2>1, ElementOfSeq
<1>4. /\ Number(c, 1) = c.bytes[c.pos + 1]
      /\ Number(c, 2) = 256 * c.bytes[c.pos + 1] + c.bytes[c.pos + 2]
  BY DEF Number
<1>5. c.bytes[c.pos + 1] \in Byte
  BY <1>3
<1>6. CASE w = 1
  BY <1>4, <1>5, <1>6 DEF Byte
<1>7. CASE w = 2
  <2>1. c.bytes[c.pos + 2] \in Byte
    BY <1>3, <1>7
  <2>2. Number(c, w) = 256 * c.bytes[c.pos + 1] + c.bytes[c.pos + 2]
    BY <1>4, <1>7
  <2>3. \A x, y \in Byte : 256 * x + y \in Nat
    BY DEF Byte
  <2>4. QED
    BY <1>4, <1>5, <2>1, <2>2, <2>3
<1>8. QED
  BY <1>6, <1>7

\* What is under a prefix that fits.
LEMMA PrefixedIs ==
    ASSUME NEW c \in Cursors, NEW w \in {1, 2}, PrefixFits(c, w)
    PROVE  /\ Number(c, w) \in Nat
           /\ Prefixed(c, w) \in Seq(Byte) /\ Len(Prefixed(c, w)) = Number(c, w)
           /\ \A k \in 1..Number(c, w) : Prefixed(c, w)[k] = c.bytes[c.pos + w + k]
           /\ AfterPrefixed(c, w) \in Cursors /\ AfterPrefixed(c, w).bytes = c.bytes
<1>1. Fits(c, w) /\ Number(c, w) \in Nat
  BY NumberIs DEF PrefixFits
<1>2. /\ Skip(c, w) \in Cursors
      /\ Skip(c, w).bytes = c.bytes /\ Skip(c, w).pos = c.pos + w
  BY <1>1, SkipIs
<1>3. c.pos \in Nat /\ Len(c.bytes) \in Nat
  BY LenProperties DEF Cursors
<1>4. Fits(Skip(c, w), Number(c, w))
  BY <1>1, <1>2, <1>3 DEF PrefixFits, Fits, Remaining
<1>5. /\ Prefixed(c, w) \in Seq(Byte) /\ Len(Prefixed(c, w)) = Number(c, w)
      /\ \A k \in 1..Number(c, w) : Prefixed(c, w)[k] = c.bytes[c.pos + w + k]
  BY <1>1, <1>2, <1>4, SliceIs DEF Prefixed
<1>6. w + Number(c, w) \in Nat /\ Fits(c, w + Number(c, w))
  BY <1>1 DEF PrefixFits
<1>7. AfterPrefixed(c, w) \in Cursors /\ AfterPrefixed(c, w).bytes = c.bytes
  BY <1>6, SkipIs DEF AfterPrefixed
<1>8. QED
  BY <1>1, <1>5, <1>7

--------------------------------------------------------------------------------
(* What the parsers hold between two reads. *)

\* The codepoints read so far are the pairs of bytes behind the cursor.
PairsSoFar ==
    /\ HasList(body, Width) /\ List(body, Width) # <<>>
    /\ cur.bytes = List(body, Width)
    /\ out \in Seq(Nat)
    /\ cur.pos = 2 * Len(out)
    /\ \A k \in 1..Len(out) :
        out[k] = 256 * List(body, Width)[2 * k - 1] + List(body, Width)[2 * k]

\* ... of all of the list, once they are answered.
PairInv ==
    kind \in PairKinds /\ at \in {"entries", "some"} =>
        PairsSoFar /\ (at = "some" => cur.pos = Len(cur.bytes))

\* The host that is held is the bytes of the first entry.
HostRead ==
    LET list == List(body, 2)
        n == 256 * list[2] + list[3]
    IN  /\ HasList(body, 2)
        /\ Len(out) = n \/ (Len(out) = n - 1 /\ list[n + 3] = Dot)
        /\ \A k \in 1..Len(out) : out[k] = list[k + 3]

\* What each step of parse_server_name_extension may rely on.
HostInv ==
    /\ at = "type" => HasList(body, 2) /\ cur = CursorOn(List(body, 2))
    /\ at \in {"type", "host"} => kind = "server_name"
    /\ at = "host" \/ (at = "some" /\ kind = "server_name") => HostRead

\* The parsers share one cursor and one answer.
BodyInv ==
    /\ TypeOK
    /\ at = "start" => cur = CursorOn(body) /\ out = <<>>
    /\ at = "entries" => kind \in WalkedKinds
    /\ PairInv
    /\ HostInv

--------------------------------------------------------------------------------
\* Where a parser can be.
States == {"idle", "start", "entries", "type", "host", "some", "none", "skip"}

\* The conjuncts of the type invariant, one by one.
LEMMA TypeParts == TypeOK <=> kind \in Kinds /\ body \in Seq(Byte) /\ cur \in Cursors /\ at \in States
BY DEF TypeOK, Cursors, States

\* The same after a step.
LEMMA TypePartsNext ==
    TypeOK' <=> kind' \in Kinds /\ body' \in Seq(Byte) /\ cur' \in Cursors /\ at' \in States
BY DEF TypeOK, Cursors, States

\* A list has a prefix of one byte or of two.
LEMMA WidthIs == Width \in {1, 2}
BY DEF Width, WidthOf

\* A prefix that fits behind some bytes leaves room for these.
LEMMA SkipFits ==
    ASSUME NEW c \in Cursors, NEW n \in Nat, PrefixFits(Skip(c, n), 2)
    PROVE  Fits(c, n) /\ Skip(c, n) \in Cursors
<1>1. Len(c.bytes) \in Nat /\ c.pos \in Nat
  BY LenProperties DEF Cursors
<1>2. Skip(c, n).bytes = c.bytes /\ Skip(c, n).pos = c.pos + n
  BY DEF Skip, Cursors
<1>3. 2 <= Len(c.bytes) - (c.pos + n)
  BY <1>2 DEF PrefixFits, Fits, Remaining
<1>4. Fits(c, n)
  BY <1>1, <1>3 DEF Fits, Remaining
<1>5. QED
  BY <1>4, SkipIs

\* An entry that fits moves the cursor over itself.
LEMMA EntryIs ==
    ASSUME TypeOK, kind \in WalkedKinds, EntryFits
    PROVE  /\ AfterEntry \in Cursors /\ AfterEntry.bytes = cur.bytes
           /\ kind \in PairKinds =>
                /\ AfterEntry.pos = cur.pos + 2
                /\ Entry = 256 * cur.bytes[cur.pos + 1] + cur.bytes[cur.pos + 2]
                /\ Entry \in Nat
<1>0. cur \in Cursors /\ PairKinds = {"u16_list", "versions"}
  BY TypeParts DEF PairKinds
<1>1. CASE kind \in PairKinds
  <2>1. kind # "alpn" /\ kind # "key_share"
    BY <1>0, <1>1
  <2>2. Fits(cur, 2) /\ AfterEntry = Skip(cur, 2) /\ Entry = Number(cur, 2)
    BY <1>1, <2>1, Zenon DEF EntryFits, AfterEntry, Entry
  <2>3. QED
    BY <1>0, <2>2, SkipIs, NumberIs
<1>2. CASE kind = "alpn"
  <2>1. kind \notin PairKinds /\ "alpn" # "key_share"
    BY <1>0, <1>2
  <2>2. PrefixFits(cur, 1) /\ AfterEntry = AfterPrefixed(cur, 1)
    BY <1>2, <2>1, Zenon DEF EntryFits, AfterEntry
  <2>3. QED
    BY <1>0, <2>1, <2>2, PrefixedIs
<1>3. CASE kind = "key_share"
  <2>1. kind \notin PairKinds /\ "alpn" # "key_share"
    BY <1>0, <1>3
  <2>2. PrefixFits(Skip(cur, 2), 2) /\ AfterEntry = AfterPrefixed(Skip(cur, 2), 2)
    BY <1>3, <2>1, Zenon DEF EntryFits, AfterEntry
  <2>3. Fits(cur, 2) /\ Skip(cur, 2) \in Cursors
    BY <1>0, <2>2, SkipFits
  <2>4. Skip(cur, 2).bytes = cur.bytes
    BY <1>0, <2>3, SkipIs
  <2>5. QED
    BY <2>1, <2>2, <2>3, <2>4, PrefixedIs
<1>4. QED
  BY <1>0, <1>1, <1>2, <1>3 DEF WalkedKinds

--------------------------------------------------------------------------------
\* Before the first read.
LEMMA BodyStart == Init => BodyInv
<1> SUFFICES ASSUME Init PROVE BodyInv
  OBVIOUS
<1>1. kind \in Kinds /\ body \in Seq(Byte)
  BY BodiesAssumption DEF Init
<1>2. cur \in Cursors
  BY <1>1, CursorOnIs DEF Init
<1>3. TypeOK
  BY <1>1, <1>2, TypeParts DEF Init, States
<1>4. QED
  BY <1>3 DEF Init, BodyInv, PairInv, HostInv

\* Every read keeps the cursor in its slice.
LEMMA TypesKept ==
    ASSUME BodyInv, [Next]_vars
    PROVE  TypeOK'
<1>0. /\ TypeOK /\ kind \in Kinds /\ body \in Seq(Byte) /\ cur \in Cursors /\ at \in States
      /\ at = "entries" => kind \in WalkedKinds
  BY TypeParts DEF BodyInv
<1>1. kind' = kind /\ body' = body
  BY DEF Next, ParseStep, ReadName, RejectList, ReadList, CopyFormats, ReadEntry, RejectEntry,
         Finish, ReadLimit, RejectLimit, RejectNameList, ReadNameList, SkipOtherType,
         RejectHostLength, SkipNotUtf8, ReadHost, RejectHost, AcceptHost, Refuse, input, vars
<1>2. at' \in States
  BY <1>0 DEF Next, ParseStep, ReadName, RejectList, ReadList, CopyFormats, ReadEntry, RejectEntry,
         Finish, ReadLimit, RejectLimit, RejectNameList, ReadNameList, SkipOtherType,
         RejectHostLength, SkipNotUtf8, ReadHost, RejectHost, AcceptHost, Refuse, vars, States
<1>3. CASE ReadList \/ ReadNameList
  <2>1. PICK w \in {1, 2} : PrefixFits(cur, w) /\ cur' = CursorOn(Prefixed(cur, w))
    BY <1>3, WidthIs DEF ReadList, GoodList, ReadNameList, GoodNameList
  <2>2. cur' \in Cursors
    BY <1>0, <2>1, PrefixedIs, CursorOnIs
  <2>3. QED
    BY <1>0, <1>1, <1>2, <2>2, TypePartsNext
<1>4. CASE ReadEntry
  <2>1. cur' \in Cursors
    BY <1>0, <1>4, EntryIs DEF ReadEntry, Walking
  <2>2. QED
    BY <1>0, <1>1, <1>2, <2>1, TypePartsNext
<1>5. CASE ReadLimit
  <2>1. at = "start" /\ Len(body) = 2 /\ cur = CursorOn(body) /\ cur' = Skip(cur, 2)
    BY <1>5 DEF ReadLimit, GoodLimit, BodyInv
  <2>2. Fits(cur, 2)
    <3>1. cur.bytes = body /\ cur.pos = 0
      BY <1>0, <2>1, CursorOnIs
    <3>2. Remaining(cur) = 2
      BY <2>1, <3>1 DEF Remaining
    <3>3. QED
      BY <3>2 DEF Fits
  <2>3. cur' \in Cursors
    BY <1>0, <2>1, <2>2, SkipIs
  <2>4. QED
    BY <1>0, <1>1, <1>2, <2>3, TypePartsNext
<1>6. CASE ReadHost
  <2>1. PrefixFits(Skip(cur, 1), 2) /\ cur' = AfterPrefixed(Skip(cur, 1), 2)
    BY <1>6 DEF ReadHost
  <2>2. cur' \in Cursors
    BY <1>0, <2>1, SkipFits, PrefixedIs
  <2>3. QED
    BY <1>0, <1>1, <1>2, <2>2, TypePartsNext
<1>7. CASE cur' = cur
  BY <1>0, <1>1, <1>2, <1>7, TypePartsNext
<1>8. \/ ReadList \/ ReadNameList \/ ReadEntry \/ ReadLimit \/ ReadHost
      \/ cur' = cur
  BY DEF Next, ParseStep, ReadName, RejectList, CopyFormats, RejectEntry,
         Finish, RejectLimit, RejectNameList, SkipOtherType,
         RejectHostLength, SkipNotUtf8, RejectHost, AcceptHost, Refuse, vars
<1>9. QED
  BY <1>3, <1>4, <1>5, <1>6, <1>7, <1>8

\* A codepoint read is one more pair.
LEMMA PairAdded ==
    ASSUME BodyInv, ReadEntry, kind \in PairKinds
    PROVE  PairsSoFar'
<1>1. /\ TypeOK /\ kind \in WalkedKinds /\ EntryFits /\ PairsSoFar
      /\ out' = Append(out, Entry) /\ cur' = AfterEntry
      /\ body' = body /\ kind' = kind
  BY DEF ReadEntry, Walking, BodyInv, PairInv, input
<1>2. /\ cur'.bytes = cur.bytes /\ cur'.pos = cur.pos + 2 /\ Entry \in Nat
      /\ Entry = 256 * cur.bytes[cur.pos + 1] + cur.bytes[cur.pos + 2]
  BY <1>1, EntryIs
<1>3. Width' = Width
  BY <1>1 DEF Width
<1>4. out \in Seq(Nat) /\ Len(out) \in Nat /\ cur.pos = 2 * Len(out) /\ cur.bytes = List(body, Width)
  BY <1>1, LenProperties DEF PairsSoFar
<1>5. /\ out' \in Seq(Nat) /\ Len(out') = Len(out) + 1
      /\ \A k \in 1..Len(out) : out'[k] = out[k]
      /\ out'[Len(out) + 1] = Entry
  BY <1>1, <1>2, <1>4, AppendProperties
<1>6. ASSUME NEW k \in 1..Len(out')
      PROVE  out'[k] = 256 * List(body, Width)[2 * k - 1] + List(body, Width)[2 * k]
  <2>1. CASE k = Len(out) + 1
    <3>1. cur.pos + 1 = 2 * k - 1 /\ cur.pos + 2 = 2 * k
      BY <1>4, <2>1
    <3>2. QED
      BY <1>2, <1>4, <1>5, <2>1, <3>1
  <2>2. CASE k \in 1..Len(out)
    BY <1>1, <1>5, <2>2 DEF PairsSoFar
  <2>3. QED
    BY <1>4, <1>5, <2>1, <2>2
<1>7. cur'.pos = 2 * Len(out')
  BY <1>2, <1>4, <1>5
<1>8. QED
  BY <1>1, <1>2, <1>3, <1>4, <1>5, <1>6, <1>7 DEF PairsSoFar

\* The pairs, kept by every read.
LEMMA PairsKept ==
    ASSUME BodyInv, TypeOK', [Next]_vars
    PROVE  PairInv'
<1>1. SUFFICES ASSUME kind' \in PairKinds, at' \in {"entries", "some"}
               PROVE  PairsSoFar' /\ (at' = "some" => cur'.pos = Len(cur'.bytes))
  BY DEF PairInv
<1>2. kind' = kind /\ body' = body /\ Width' = Width
  BY DEF Next, ParseStep, ReadName, RejectList, ReadList, CopyFormats, ReadEntry, RejectEntry,
         Finish, ReadLimit, RejectLimit, RejectNameList, ReadNameList, SkipOtherType,
         RejectHostLength, SkipNotUtf8, ReadHost, RejectHost, AcceptHost, Refuse, input, vars, Width
<1>3. kind \in PairKinds /\ PairKinds = {"u16_list", "versions"}
  BY <1>1, <1>2 DEF PairKinds
<1>4. CASE ReadList
  <2>1. /\ at = "start" /\ at' = "entries" /\ GoodList
        /\ cur' = CursorOn(Prefixed(cur, Width)) /\ out' = <<>>
    BY <1>4 DEF ReadList, BodyInv
  <2>2. /\ cur = CursorOn(body) /\ cur \in Cursors
        /\ PrefixFits(cur, Width) /\ Prefixed(cur, Width) # <<>>
    BY <1>3, <2>1, TypeParts DEF BodyInv, GoodList
  <2>3. HasList(body, Width) /\ Prefixed(cur, Width) = List(body, Width)
    BY <2>2 DEF HasList, List
  <2>4. List(body, Width) \in Seq(Byte)
    BY <2>2, <2>3, PrefixedIs, WidthIs
  <2>5. cur'.bytes = List(body, Width) /\ cur'.pos = 0
    BY <2>1, <2>3, <2>4, CursorOnIs
  <2>6. out' \in Seq(Nat) /\ Len(out') = 0
    BY <2>1
  <2>7. QED
    BY <1>2, <2>1, <2>2, <2>3, <2>5, <2>6 DEF PairsSoFar
<1>5. CASE ReadEntry
  <2>1. at' = "entries"
    BY <1>5 DEF ReadEntry, Walking
  <2>2. QED
    BY <1>3, <1>5, <2>1, PairAdded
<1>6. CASE Finish
  <2>1. /\ at = "entries" /\ Remaining(cur) = 0 /\ cur' = cur /\ out' = out
        /\ PairsSoFar /\ cur \in Cursors
    BY <1>3, <1>6, TypeParts DEF Finish, BodyInv, PairInv
  <2>2. cur.pos = Len(cur.bytes)
    BY <2>1, LenProperties DEF Remaining, Cursors
  <2>3. QED
    BY <1>2, <2>1, <2>2 DEF PairsSoFar
<1>7. CASE UNCHANGED vars
  <2>1. at' = at /\ cur' = cur /\ out' = out
    BY <1>7 DEF vars
  <2>2. PairsSoFar /\ (at = "some" => cur.pos = Len(cur.bytes))
    BY <1>1, <1>3, <2>1 DEF BodyInv, PairInv
  <2>3. QED
    BY <1>2, <2>1, <2>2 DEF PairsSoFar
<1>8. ~CopyFormats /\ ~ReadLimit /\ ~ReadName
  <2>1. kind \notin {"points", "limit", "server_name"}
    BY <1>3
  <2>2. ~RejectNameList /\ ~ReadNameList
    BY <2>1 DEF RejectNameList, ReadNameList
  <2>3. at \notin {"type", "host"}
    BY <2>1 DEF BodyInv, HostInv
  <2>4. QED
    BY <2>1, <2>2, <2>3 DEF CopyFormats, ReadLimit, ReadName, SkipOtherType, RejectHostLength,
       Typed, SkipNotUtf8, ReadHost, RejectHost, AcceptHost
<1>9. ~RejectList /\ ~RejectEntry /\ ~RejectLimit
  BY <1>1 DEF RejectList, RejectEntry, RejectLimit, Refuse
<1>10. QED
  BY <1>4, <1>5, <1>6, <1>7, <1>8, <1>9 DEF Next, ParseStep

\* The host, as it is read.
LEMMA HostIsRead ==
    ASSUME BodyInv, ReadHost
    PROVE  HostRead'
<1> DEFINE list == List(body, 2)
           n == 256 * list[2] + list[3]
           after == Skip(cur, 1)
           raw == Prefixed(after, 2)
<1>1. /\ cur \in Cursors /\ body' = body /\ out' = StripDot(raw)
      /\ HasList(body, 2) /\ cur = CursorOn(list) /\ PrefixFits(after, 2)
  BY TypeParts DEF ReadHost, Typed, BodyInv, HostInv, input
<1>2. after \in Cursors /\ Fits(cur, 1)
  BY <1>1, SkipFits
<1>3. cur.bytes = list /\ cur.pos = 0
  BY <1>1 DEF CursorOn
<1>4. after.bytes = list /\ after.pos = 1
  BY <1>1, <1>2, <1>3, SkipIs
<1>5. Number(after, 2) = n /\ n \in Nat
  <2>1. Fits(after, 2)
    BY <1>1 DEF PrefixFits
  <2>2. Number(after, 2) = 256 * after.bytes[after.pos + 1] + after.bytes[after.pos + 2]
    BY <1>2, <2>1, NumberIs
  <2>3. after.pos + 1 = 2 /\ after.pos + 2 = 3
    BY <1>4
  <2>4. Number(after, 2) \in Nat
    BY <1>2, <2>1, NumberIs
  <2>5. QED
    BY <1>4, <2>2, <2>3, <2>4
<1>6. /\ raw \in Seq(Byte) /\ Len(raw) = n
      /\ \A k \in 1..n : raw[k] = list[k + 3]
  <2>1. /\ raw \in Seq(Byte) /\ Len(raw) = Number(after, 2)
        /\ \A k \in 1..Number(after, 2) : raw[k] = after.bytes[after.pos + 2 + k]
    BY <1>1, <1>2, PrefixedIs
  <2>2. \A k \in 1..n : after.pos + 2 + k = k + 3
    BY <1>4
  <2>3. QED
    BY <1>4, <1>5, <2>1, <2>2
<1> HIDE DEF list, raw, after, n
<1>7. CASE raw # <<>> /\ raw[Len(raw)] = Dot
  <2>1. n \in Nat \ {0} /\ out' = SubSeq(raw, 1, n - 1)
    BY <1>1, <1>5, <1>6, <1>7, EmptySeq DEF StripDot
  <2>2. 1 \in Int /\ n - 1 \in Int /\ \A k \in 1..(n - 1) : raw[k] \in Byte
    BY <1>6, <2>1, ElementOfSeq
  <2>3. /\ Len(SubSeq(raw, 1, n - 1)) = IF 1 <= n - 1 THEN n - 1 - 1 + 1 ELSE 0
        /\ \A k \in 1..(n - 1 - 1 + 1) : SubSeq(raw, 1, n - 1)[k] = raw[1 + k - 1]
    BY <2>2, SubSeqProperties
  <2>4. Len(out') = n - 1 /\ \A k \in 1..(n - 1) : out'[k] = raw[k]
    BY <2>1, <2>3
  <2>5. list[n + 3] = Dot
    BY <1>6, <1>7, <2>1
  <2>6. \A k \in 1..Len(out') : out'[k] = list[k + 3]
    BY <1>6, <2>1, <2>4
  <2>7. QED
    BY <1>1, <2>4, <2>5, <2>6 DEF HostRead, list, n
<1>8. CASE ~(raw # <<>> /\ raw[Len(raw)] = Dot)
  <2>1. out' = raw
    BY <1>1, <1>8 DEF StripDot
  <2>2. Len(out') = n /\ \A k \in 1..Len(out') : out'[k] = list[k + 3]
    BY <1>6, <2>1
  <2>3. QED
    BY <1>1, <2>2 DEF HostRead, list, n
<1>9. QED
  BY <1>7, <1>8

\* The host, kept until it is answered.
LEMMA HostKept ==
    ASSUME BodyInv, [Next]_vars
    PROVE  HostInv'
<1>1. kind' = kind /\ body' = body
  BY DEF Next, ParseStep, ReadName, RejectList, ReadList, CopyFormats, ReadEntry, RejectEntry,
         Finish, ReadLimit, RejectLimit, RejectNameList, ReadNameList, SkipOtherType,
         RejectHostLength, SkipNotUtf8, ReadHost, RejectHost, AcceptHost, Refuse, input, vars
<1>2. CASE ReadNameList
  <2>1. /\ cur = CursorOn(body) /\ PrefixFits(cur, 2) /\ kind = "server_name"
        /\ cur' = CursorOn(Prefixed(cur, 2)) /\ at' = "type"
    BY <1>2 DEF ReadNameList, GoodNameList, BodyInv
  <2>2. QED
    BY <1>1, <2>1 DEF HostInv, HasList, List
<1>3. CASE ReadHost
  BY <1>1, <1>3, HostIsRead DEF ReadHost, Typed, HostInv, BodyInv
<1>4. CASE AcceptHost \/ UNCHANGED vars
  <2>1. /\ cur' = cur /\ out' = out
        /\ at' = at \/ (at = "host" /\ at' = "some")
    BY <1>4 DEF AcceptHost, vars
  <2>2. HostRead' <=> HostRead
    BY <1>1, <2>1 DEF HostRead
  <2>3. QED
    BY <1>1, <2>1, <2>2 DEF HostInv, BodyInv
<1>5. CASE ReadList \/ ReadEntry
  BY <1>5 DEF ReadList, ReadEntry, Walking, HostInv
<1>6. CASE CopyFormats \/ ReadLimit \/ Finish
  <2>1. at' = "some" /\ kind # "server_name"
    BY <1>6 DEF CopyFormats, ReadLimit, Finish, BodyInv, WalkedKinds, PairKinds
  <2>2. QED
    BY <1>1, <2>1 DEF HostInv
<1>7. CASE \/ RejectList \/ RejectEntry \/ RejectLimit \/ RejectNameList \/ SkipOtherType
           \/ RejectHostLength \/ SkipNotUtf8 \/ RejectHost
  <2>1. at' \in {"none", "skip"}
    BY <1>7 DEF RejectList, RejectEntry, RejectLimit, RejectNameList, SkipOtherType,
       RejectHostLength, SkipNotUtf8, RejectHost, Refuse
  <2>2. QED
    BY <2>1 DEF HostInv
<1>8. QED
  BY <1>2, <1>3, <1>4, <1>5, <1>6, <1>7 DEF Next, ParseStep, ReadName

\* All of it.
LEMMA BodyStep ==
    ASSUME BodyInv, [Next]_vars
    PROVE  BodyInv'
<1>1. TypeOK' /\ PairInv' /\ HostInv'
  BY TypesKept, PairsKept, HostKept
<1>2. at' = "start" => cur' = CursorOn(body') /\ out' = <<>>
  BY DEF BodyInv, Next, ParseStep, ReadName, RejectList, ReadList, CopyFormats, ReadEntry, RejectEntry,
         Finish, ReadLimit, RejectLimit, RejectNameList, ReadNameList, SkipOtherType, Walking,
         RejectHostLength, SkipNotUtf8, ReadHost, RejectHost, AcceptHost, Refuse, input, vars
<1>3. at' = "entries" => kind' \in WalkedKinds
  BY DEF BodyInv, Next, ParseStep, ReadName, RejectList, ReadList, CopyFormats, ReadEntry, RejectEntry,
         Finish, ReadLimit, RejectLimit, RejectNameList, ReadNameList, SkipOtherType, Walking,
         RejectHostLength, SkipNotUtf8, ReadHost, RejectHost, AcceptHost, Refuse, input, vars
<1>4. QED
  BY <1>1, <1>2, <1>3 DEF BodyInv

(* Numbers, and the cuts of a list. *)

\* Of some numbers one is the least: the initial segments of the naturals that end in
\* them are finite, and inclusion of finite sets is well founded.
LEMMA LeastNatural ==
    ASSUME NEW S, S \subseteq Nat, S # {}
    PROVE  \E m \in S : \A k \in S : m <= k
<1> DEFINE Below == { 0..k : k \in S }
<1>1. Below \subseteq FiniteSubsetsOf(Nat)
  <2> SUFFICES ASSUME NEW k \in S PROVE 0..k \in FiniteSubsetsOf(Nat)
    OBVIOUS
  <2>1. k \in Int /\ 0 \in Int /\ 0..k \subseteq Nat
    OBVIOUS
  <2>2. QED
    BY <2>1, FS_Interval DEF FiniteSubsetsOf
<1>2. Below # {}
  OBVIOUS
<1>3. PICK b \in Below : \A c \in Below : ~(<<c, b>> \in StrictSubsetOrdering(Nat))
  <2> HIDE DEF Below
  <2>1. IsWellFoundedOn(StrictSubsetOrdering(Nat), FiniteSubsetsOf(Nat))
    BY FS_StrictSubsetOrderingWellFounded
  <2>2. QED
    BY <1>1, <1>2, <2>1, WFMin
<1>4. PICK m \in S : b = 0..m
  OBVIOUS
<1>5. ASSUME NEW k \in S, k < m
      PROVE  FALSE
  <2>1. 0..k \subseteq 0..m /\ m \in 0..m /\ m \notin 0..k
    BY <1>5
  <2>2. 0..k \in SUBSET Nat /\ 0..m \in SUBSET Nat
    BY <1>5
  <2>3. <<0..k, 0..m>> \in StrictSubsetOrdering(Nat)
    BY <2>1, <2>2 DEF StrictSubsetOrdering
  <2>4. QED
    BY <1>3, <1>4, <2>3
<1>6. QED
  BY <1>5

\* Of some numbers below m one is the greatest.
LEMMA GreatestNatural ==
    ASSUME NEW S, S \subseteq Nat, NEW m \in Nat, S # {}, \A k \in S : k < m
    PROVE  \E g \in S : \A k \in S : k <= g
<1> DEFINE T == { e \in Nat : m - e \in S }
<1>1. T \subseteq Nat /\ T # {}
  <2>1. PICK k \in S : TRUE
    OBVIOUS
  <2>2. k \in Nat /\ m - k \in Nat /\ m - (m - k) = k
    OBVIOUS
  <2>3. m - k \in T
    BY <2>2
  <2>4. QED
    BY <2>3
<1>2. PICK t \in T : \A u \in T : t <= u
  <2> HIDE DEF T
  <2>1. QED
    BY <1>1, LeastNatural
<1>3. m - t \in S /\ t \in Nat
  OBVIOUS
<1>4. ASSUME NEW k \in S
      PROVE  k <= m - t
  <2>1. k \in Nat /\ k < m /\ m - k \in Nat /\ m - (m - k) = k
    OBVIOUS
  <2>2. m - k \in T
    BY <2>1
  <2>3. t <= m - k
    BY <1>2, <2>2
  <2>4. QED
    BY <1>3, <2>1, <2>3
<1>5. QED
  BY <1>3, <1>4

--------------------------------------------------------------------------------
\* The cut that follows x, of cuts that reach y.
LEMMA NextCut ==
    ASSUME NEW C, C \subseteq Nat, NEW x \in Nat, NEW y \in C, x < y
    PROVE  \E r \in C : x < r /\ r <= y /\ \A c \in C : ~(x < c /\ c < r)
<1> DEFINE S == { c \in C : x < c }
<1>1. S \subseteq Nat /\ y \in S
  OBVIOUS
<1>2. PICK r \in S : \A c \in S : r <= c
  <2> HIDE DEF S
  <2>1. QED
    BY <1>1, LeastNatural
<1>3. QED
  BY <1>1, <1>2

\* The cut that precedes y, of cuts from 0.
LEMMA PreviousCut ==
    ASSUME NEW C, C \subseteq Nat, 0 \in C, NEW y \in Nat, 0 < y
    PROVE  \E q \in C : q < y /\ \A c \in C : ~(q < c /\ c < y)
<1> DEFINE S == { c \in C : c < y }
<1>1. S \subseteq Nat /\ 0 \in S /\ \A c \in S : c < y
  OBVIOUS
<1>2. PICK q \in S : \A c \in S : c <= q
  <2> HIDE DEF S
  <2>1. QED
    BY <1>1, GreatestNatural
<1>3. QED
  BY <1>1, <1>2

\* Neighbours, without an interval.
LEMMA AdjacentIs ==
    ASSUME NEW C, C \subseteq Nat, NEW x \in C, NEW y \in C
    PROVE  <<x, y>> \in Adjacent(C) <=> x < y /\ \A c \in C : ~(x < c /\ c < y)
<1>1. x \in Nat /\ y \in Nat
  OBVIOUS
<1>2. C \cap (x + 1)..(y - 1) = {} <=> \A c \in C : ~(x < c /\ c < y)
  BY <1>1
<1>3. QED
  BY <1>2 DEF Adjacent

\* Where an entry starts says where it ends.
LEMMA EntryEnds ==
    ASSUME NEW k \in WalkedKinds, NEW list, NEW x, NEW y, NEW z,
           IsEntry(k, list, x, y), IsEntry(k, list, x, z)
    PROVE  y = z
<1>1. CASE k \in PairKinds
  <2>1. y = x + 2 /\ z = x + 2
    BY <1>1, Zenon DEF IsEntry, PairKinds
  <2>2. QED
    BY <2>1
<1>2. CASE k = "alpn"
  <2>1. k \notin PairKinds
    BY <1>2 DEF PairKinds
  <2>2. /\ y = x + 1 + Number(Skip(CursorOn(list), x), 1)
        /\ z = x + 1 + Number(Skip(CursorOn(list), x), 1)
    BY <1>2, <2>1, Zenon DEF IsEntry
  <2>3. QED
    BY <2>2
<1>3. CASE k = "key_share"
  <2>1. k \notin PairKinds /\ "key_share" # "alpn"
    BY <1>3 DEF PairKinds
  <2>2. /\ y = x + 4 + Number(Skip(Skip(CursorOn(list), x), 2), 2)
        /\ z = x + 4 + Number(Skip(Skip(CursorOn(list), x), 2), 2)
    BY <1>3, <2>1, Zenon DEF IsEntry
  <2>3. QED
    BY <2>2
<1>4. QED
  BY <1>1, <1>2, <1>3 DEF WalkedKinds

\* Cuts of the first p bytes of a list into entries.
Cut(k, list, C, p) ==
    /\ C \subseteq 0..p
    /\ 0 \in C /\ p \in C
    /\ \A x, y \in C : (x < y /\ \A c \in C : ~(x < c /\ c < y)) => IsEntry(k, list, x, y)

\* Up to where both reach, there is one way to cut.
LEMMA CutsDiffer ==
    ASSUME NEW k \in WalkedKinds, NEW list, NEW p \in Nat, NEW q \in Nat,
           NEW C, Cut(k, list, C, p), NEW D, Cut(k, list, D, q),
           NEW m \in C, m \notin D, m <= q,
           \A e \in Nat : e < m => (e \in C <=> e \in D)
    PROVE  FALSE
<1>1. C \subseteq Nat /\ D \subseteq Nat /\ m \in Nat /\ 0 \in C /\ 0 \in D /\ q \in D
  BY DEF Cut
<1>2. 0 < m /\ m < q
  BY <1>1
<1>3. PICK x \in C : x < m /\ \A c \in C : ~(x < c /\ c < m)
  BY <1>1, <1>2, PreviousCut
<1>4. IsEntry(k, list, x, m)
  BY <1>3 DEF Cut
<1>5. x \in D /\ x \in Nat /\ x < q
  BY <1>1, <1>2, <1>3
<1>6. PICK r \in D : x < r /\ r <= q /\ \A c \in D : ~(x < c /\ c < r)
  BY <1>1, <1>5, NextCut
<1>7. IsEntry(k, list, x, r)
  BY <1>5, <1>6 DEF Cut
<1>8. r = m
  BY <1>4, <1>7, EntryEnds
<1>9. QED
  BY <1>6, <1>8

\* By the least cut they would not share.
LEMMA CutsAgree ==
    ASSUME NEW k \in WalkedKinds, NEW list, NEW p \in Nat, NEW q \in Nat, p <= q,
           NEW C, Cut(k, list, C, p), NEW D, Cut(k, list, D, q)
    PROVE  \A e \in 0..p : e \in C <=> e \in D
<1> DEFINE S == { e \in 0..p : ~(e \in C <=> e \in D) }
<1>1. SUFFICES ASSUME S # {} PROVE FALSE
  OBVIOUS
<1>2. S \subseteq Nat
  OBVIOUS
<1>3. PICK m \in S : \A e \in S : m <= e
  <2> HIDE DEF S
  <2>1. QED
    BY <1>1, <1>2, LeastNatural
<1>4. m \in Nat /\ m <= p /\ m <= q /\ ~(m \in C <=> m \in D)
  OBVIOUS
<1>5. ASSUME NEW e \in Nat, e < m
      PROVE  e \in C <=> e \in D
  <2>1. e \in 0..p /\ e \notin S
    BY <1>3, <1>4, <1>5
  <2>2. QED
    BY <2>1
<1> HIDE DEF S
<1>6. CASE m \in C /\ m \notin D
  BY <1>4, <1>5, <1>6, CutsDiffer
<1>7. CASE m \in D /\ m \notin C
  BY <1>4, <1>5, <1>7, CutsDiffer
<1>8. QED
  BY <1>4, <1>6, <1>7

--------------------------------------------------------------------------------
\* A cursor is its bytes and how many are behind it.
LEMMA CursorAt ==
    ASSUME NEW c \in Cursors
    PROVE  Skip(CursorOn(c.bytes), c.pos) = c
BY DEF Cursors, CursorOn, Skip

\* What an entry spans ...
LEMMA EntrySpans ==
    ASSUME NEW k, NEW list, NEW x, NEW y, NEW c, c = Skip(CursorOn(list), x)
    PROVE  /\ k \in PairKinds => (IsEntry(k, list, x, y) <=> y = x + 2)
           /\ IsEntry("alpn", list, x, y) <=> y > x + 1 /\ y = x + 1 + Number(c, 1)
           /\ IsEntry("key_share", list, x, y)
                <=> y >= x + 4 /\ y = x + 4 + Number(Skip(c, 2), 2)
<1>1. /\ "alpn" \notin PairKinds /\ "key_share" \notin PairKinds
      /\ "alpn" # "key_share"
  BY DEF PairKinds
<1>2. k \in PairKinds => (IsEntry(k, list, x, y) <=> y = x + 2)
  BY <1>1, Zenon DEF IsEntry
<1>3. IsEntry("alpn", list, x, y) <=> y > x + 1 /\ y = x + 1 + Number(c, 1)
  BY <1>1, Zenon DEF IsEntry
<1>4. IsEntry("key_share", list, x, y) <=> y >= x + 4 /\ y = x + 4 + Number(Skip(c, 2), 2)
  BY <1>1, Zenon DEF IsEntry
<1>5. QED
  BY <1>2, <1>3, <1>4

\* ... and what a cursor takes of it.
LEMMA EntryTakes ==
    /\ kind \in PairKinds => EntryFits = Fits(cur, 2) /\ AfterEntry = Skip(cur, 2)
    /\ kind = "alpn" => /\ EntryFits = (PrefixFits(cur, 1) /\ Number(cur, 1) > 0)
                        /\ AfterEntry = AfterPrefixed(cur, 1)
    /\ kind = "key_share" => /\ EntryFits = (Fits(cur, 2) /\ PrefixFits(Skip(cur, 2), 2))
                             /\ AfterEntry = AfterPrefixed(Skip(cur, 2), 2)
<1>1. /\ "alpn" \notin PairKinds /\ "key_share" \notin PairKinds
      /\ "alpn" # "key_share"
  BY DEF PairKinds
<1>2. kind \in PairKinds => EntryFits = Fits(cur, 2) /\ AfterEntry = Skip(cur, 2)
  BY <1>1, Zenon DEF EntryFits, AfterEntry
<1>3. kind = "alpn" => /\ EntryFits = (PrefixFits(cur, 1) /\ Number(cur, 1) > 0)
                       /\ AfterEntry = AfterPrefixed(cur, 1)
  BY <1>1, Zenon DEF EntryFits, AfterEntry
<1>4. kind = "key_share" => /\ EntryFits = (Fits(cur, 2) /\ PrefixFits(Skip(cur, 2), 2))
                            /\ AfterEntry = AfterPrefixed(Skip(cur, 2), 2)
  BY <1>1, Zenon DEF EntryFits, AfterEntry
<1>5. QED
  BY <1>2, <1>3, <1>4

\* Where the cursor is after a prefixed field.
LEMMA AfterPrefixedIs ==
    ASSUME NEW c \in Cursors, NEW w \in {1, 2}, PrefixFits(c, w)
    PROVE  AfterPrefixed(c, w).pos = c.pos + w + Number(c, w)
<1>1. Number(c, w) \in Nat /\ w + Number(c, w) \in Nat /\ c.pos \in Nat
  BY NumberIs DEF PrefixFits, Cursors
<1>2. Fits(c, w + Number(c, w))
  BY DEF PrefixFits
<1>3. AfterPrefixed(c, w).pos = c.pos + (w + Number(c, w))
  BY <1>1, <1>2, SkipIs DEF AfterPrefixed
<1>4. QED
  BY <1>1, <1>3

\* An entry that is read is one of the list.
LEMMA EntryReadIs ==
    ASSUME TypeOK, kind \in WalkedKinds, EntryFits
    PROVE  /\ IsEntry(kind, cur.bytes, cur.pos, AfterEntry.pos)
           /\ cur.pos < AfterEntry.pos
<1>0. cur \in Cursors /\ cur.pos \in Nat /\ cur = Skip(CursorOn(cur.bytes), cur.pos)
  BY TypeParts, CursorAt DEF Cursors
<1>1. CASE kind \in PairKinds
  <2>1. AfterEntry.pos = cur.pos + 2
    BY <1>1, EntryIs
  <2>2. QED
    BY <1>0, <1>1, <2>1, EntrySpans
<1>2. CASE kind = "alpn"
  <2>1. PrefixFits(cur, 1) /\ Number(cur, 1) > 0 /\ AfterEntry = AfterPrefixed(cur, 1)
    BY <1>2, EntryTakes
  <2>2. AfterEntry.pos = cur.pos + 1 + Number(cur, 1) /\ Number(cur, 1) \in Nat
    BY <1>0, <2>1, AfterPrefixedIs, PrefixedIs
  <2>3. AfterEntry.pos > cur.pos + 1 /\ cur.pos < AfterEntry.pos
    BY <1>0, <2>1, <2>2
  <2>4. QED
    BY <1>0, <1>2, <2>2, <2>3, EntrySpans
<1>3. CASE kind = "key_share"
  <2> DEFINE c == Skip(cur, 2)
  <2>1. PrefixFits(c, 2) /\ AfterEntry = AfterPrefixed(c, 2)
    BY <1>3, EntryTakes
  <2>2. Fits(cur, 2) /\ c \in Cursors
    BY <1>0, <2>1, SkipFits
  <2>3. c.pos = cur.pos + 2
    BY <1>0, <2>2, SkipIs
  <2>4. AfterEntry.pos = c.pos + 2 + Number(c, 2) /\ Number(c, 2) \in Nat
    BY <2>1, <2>2, AfterPrefixedIs, PrefixedIs
  <2> HIDE DEF c
  <2>5. /\ AfterEntry.pos = cur.pos + 4 + Number(c, 2)
        /\ AfterEntry.pos >= cur.pos + 4 /\ cur.pos < AfterEntry.pos
    BY <1>0, <2>3, <2>4
  <2>6. QED
    BY <1>0, <1>3, <2>5, EntrySpans DEF c
<1>4. QED
  BY <1>1, <1>2, <1>3 DEF WalkedKinds

\* And an entry of the list is read.
LEMMA EntryIsRead ==
    ASSUME TypeOK, kind \in WalkedKinds,
           NEW y \in Nat, y <= Len(cur.bytes), IsEntry(kind, cur.bytes, cur.pos, y)
    PROVE  EntryFits
<1>0. /\ cur \in Cursors /\ cur.pos \in Nat /\ cur = Skip(CursorOn(cur.bytes), cur.pos)
      /\ Len(cur.bytes) \in Nat
  BY TypeParts, CursorAt, LenProperties DEF Cursors
<1>1. CASE kind \in PairKinds
  <2>1. y = cur.pos + 2
    BY <1>0, <1>1, EntrySpans
  <2>2. Fits(cur, 2)
    BY <1>0, <2>1 DEF Fits, Remaining
  <2>3. QED
    BY <1>1, <2>2, EntryTakes
<1>2. CASE kind = "alpn"
  <2>1. y > cur.pos + 1 /\ y = cur.pos + 1 + Number(cur, 1)
    BY <1>0, <1>2, EntrySpans
  <2>2. Fits(cur, 1)
    BY <1>0, <2>1 DEF Fits, Remaining
  <2>3. Number(cur, 1) \in Nat
    BY <1>0, <2>2, NumberIs
  <2>4. Number(cur, 1) > 0 /\ Fits(cur, 1 + Number(cur, 1))
    BY <1>0, <2>1, <2>3 DEF Fits, Remaining
  <2>5. QED
    BY <1>2, <2>2, <2>4, EntryTakes DEF PrefixFits
<1>3. CASE kind = "key_share"
  <2> DEFINE c == Skip(cur, 2)
  <2>1. y >= cur.pos + 4 /\ y = cur.pos + 4 + Number(c, 2)
    BY <1>0, <1>3, EntrySpans
  <2>2. Fits(cur, 2)
    BY <1>0, <2>1 DEF Fits, Remaining
  <2>3. c \in Cursors /\ c.bytes = cur.bytes /\ c.pos = cur.pos + 2
    BY <1>0, <2>2, SkipIs
  <2> HIDE DEF c
  <2>4. Fits(c, 2)
    BY <1>0, <2>1, <2>3 DEF Fits, Remaining
  <2>5. Number(c, 2) \in Nat
    BY <2>3, <2>4, NumberIs
  <2>6. Fits(c, 2 + Number(c, 2))
    BY <1>0, <2>1, <2>3, <2>5 DEF Fits, Remaining
  <2>7. PrefixFits(c, 2)
    BY <2>4, <2>6 DEF PrefixFits
  <2>8. QED
    BY <1>3, <2>2, <2>7, EntryTakes DEF c
<1>4. QED
  BY <1>1, <1>2, <1>3 DEF WalkedKinds

--------------------------------------------------------------------------------
\* What can be in an answer.
EntryValues == Nat \cup Seq(Byte)

\* The entry of kind k between the cuts x and y.
Between(k, list, x, y) ==
    IF k = "alpn" THEN SubSeq(list, x + 2, y) ELSE Number(Skip(CursorOn(list), x), 2)

\* One cut more, at y.
LEMMA AdjacentGrows ==
    ASSUME NEW C, NEW p \in Nat, C \subseteq 0..p, p \in C, NEW y \in Nat, p < y,
           NEW D, \A c : c \in D <=> c \in C \/ c = y
    PROVE  \A q : q \in Adjacent(D) <=> q \in Adjacent(C) \/ q = <<p, y>>
<1>0. C \subseteq Nat /\ D \subseteq Nat /\ \A c \in C : c <= p /\ c < y
  <2>1. \A c \in C : c \in Nat /\ c <= p /\ c < y
    OBVIOUS
  <2>2. \A c \in D : c \in Nat
    BY <2>1
  <2>3. QED
    BY <2>1, <2>2
<1>1. ASSUME NEW u \in D, NEW v \in D
      PROVE  <<u, v>> \in Adjacent(D) <=> <<u, v>> \in Adjacent(C) \/ (u = p /\ v = y)
  <2>0. Adjacent(C) \subseteq C \X C
    BY DEF Adjacent
  <2>1. <<u, v>> \in Adjacent(D) <=> u < v /\ \A c \in D : ~(u < c /\ c < v)
    BY <1>0, AdjacentIs
  <2>2. CASE u \in C /\ v \in C
    <3>1. <<u, v>> \in Adjacent(C) <=> u < v /\ \A c \in C : ~(u < c /\ c < v)
      BY <1>0, <2>2, AdjacentIs
    <3>2. v # y /\ ~(y < v)
      BY <1>0, <2>2
    <3>3. QED
      BY <2>1, <3>1, <3>2
  <2>3. CASE u \in C /\ v = y
    <3>1. <<u, v>> \notin Adjacent(C)
      BY <1>0, <2>0, <2>3
    <3>2. <<u, v>> \in Adjacent(D) <=> u = p
      BY <1>0, <2>1, <2>3
    <3>3. QED
      BY <2>3, <3>1, <3>2
  <2>4. CASE u = y
    <3>1. <<u, v>> \notin Adjacent(C) /\ u # p
      BY <1>0, <2>0, <2>4
    <3>2. ~(u < v)
      BY <1>0, <2>4
    <3>3. QED
      BY <2>1, <3>1, <3>2
  <2>5. QED
    BY <2>2, <2>3, <2>4
<1>2. /\ Adjacent(D) \subseteq D \X D
      /\ Adjacent(C) \subseteq D \X D
      /\ <<p, y>> \in D \X D
  BY DEF Adjacent
<1>3. ASSUME NEW q
      PROVE  q \in Adjacent(D) <=> q \in Adjacent(C) \/ q = <<p, y>>
  <2>1. CASE q \in D \X D
    <3>1. PICK u \in D, v \in D : q = <<u, v>>
      BY <2>1
    <3>2. QED
      BY <1>1, <3>1
  <2>2. CASE q \notin D \X D
    BY <1>2, <2>2
  <2>3. QED
    BY <2>1, <2>2
<1>4. QED
  BY <1>3

\* It makes one more entry.
LEMMA CutGrows ==
    ASSUME NEW k, NEW list, NEW p \in Nat, NEW C, Cut(k, list, C, p),
           NEW y \in Nat, p < y, IsEntry(k, list, p, y)
    PROVE  Cut(k, list, C \cup {y}, y)
<1> DEFINE D == C \cup {y}
<1>1. C \subseteq 0..p /\ 0 \in C /\ p \in C /\ D \subseteq 0..y
      /\ \A c \in C : c \in Nat /\ c <= p /\ c < y
  BY DEF Cut
<1>2. ASSUME NEW u \in D, NEW v \in D, u < v, \A c \in D : ~(u < c /\ c < v)
      PROVE  IsEntry(k, list, u, v)
  <2>1. CASE v \in C
    <3>1. u \in C
      BY <1>1, <1>2, <2>1
    <3>2. QED
      BY <1>2, <2>1, <3>1 DEF Cut
  <2>2. CASE v = y
    <3>1. u = p
      BY <1>1, <1>2, <2>2
    <3>2. QED
      BY <2>2, <3>1
  <2>3. QED
    BY <2>1, <2>2
<1>3. QED
  BY <1>1, <1>2 DEF Cut

\* The cuts up to x, and how many they are.
LEMMA CutsUpTo ==
    ASSUME NEW C, NEW p \in Nat, C \subseteq 0..p
    PROVE  /\ IsFiniteSet(C) /\ Cardinality(C) \in Nat
           /\ \A x \in Nat : /\ IsFiniteSet(C \cap 0..x)
                             /\ Cardinality(C \cap 0..x) \in Nat
                             /\ Cardinality(C \cap 0..x) <= Cardinality(C)
<1>1. IsFiniteSet(0..p)
  BY FS_Interval
<1>2. IsFiniteSet(C) /\ Cardinality(C) \in Nat
  BY <1>1, FS_Subset, FS_CardinalityType
<1>3. ASSUME NEW x \in Nat
      PROVE  /\ IsFiniteSet(C \cap 0..x)
             /\ Cardinality(C \cap 0..x) \in Nat
             /\ Cardinality(C \cap 0..x) <= Cardinality(C)
  <2>1. C \cap 0..x \in SUBSET C
    OBVIOUS
  <2>2. QED
    BY <1>2, <2>1, FS_Subset, FS_CardinalityType
<1>4. QED
  BY <1>2, <1>3

\* The number of an entry: not 0, and no more than the last.
LEMMA EntryNumber ==
    ASSUME NEW C, NEW p \in Nat, C \subseteq 0..p, 0 \in C, NEW a \in Adjacent(C)
    PROVE  /\ a[1] \in Nat /\ a[2] \in Nat /\ a[2] <= p /\ a[1] \in C /\ a[1] < a[2]
           /\ Cardinality(C \cap 0..a[1]) \in 1..(Cardinality(C) - 1)
<1>1. a \in C \X C /\ a[1] < a[2]
  BY DEF Adjacent
<1>2. a[1] \in C /\ a[2] \in C /\ a[1] \in Nat /\ a[2] \in Nat /\ a[2] <= p
  <2>1. a[1] \in C /\ a[2] \in C
    BY <1>1
  <2>2. \A c \in C : c \in Nat /\ c <= p
    OBVIOUS
  <2>3. QED
    BY <2>1, <2>2
<1> DEFINE B == C \cap 0..a[1]
<1>3. B \in SUBSET C /\ a[2] \in C /\ a[2] \notin B /\ 0 \in B
  BY <1>1, <1>2
<1>4. IsFiniteSet(C) /\ Cardinality(C) \in Nat /\ IsFiniteSet(B) /\ Cardinality(B) \in Nat
  BY <1>2, CutsUpTo
<1> HIDE DEF B
<1>5. Cardinality(B) # Cardinality(C) /\ Cardinality(B) <= Cardinality(C)
  BY <1>3, <1>4, FS_Subset
<1>6. Cardinality(B) # 0
  BY <1>3, <1>4, FS_EmptySet
<1>7. Cardinality(B) \in 1..(Cardinality(C) - 1)
  BY <1>4, <1>5, <1>6
<1>8. QED
  BY <1>1, <1>2, <1>7 DEF B

\* And the answer one entry longer.
LEMMA ListedGrows ==
    ASSUME NEW k, NEW list, NEW p \in Nat, NEW C, C \subseteq 0..p, 0 \in C, p \in C,
           NEW y \in Nat, p < y,
           NEW entries \in Seq(EntryValues), Listed(k, list, C, entries),
           NEW e \in EntryValues, e = Between(k, list, p, y)
    PROVE  Listed(k, list, C \cup {y}, Append(entries, e))
<1> DEFINE D == C \cup {y}
           more == Append(entries, e)
<1>0. \A c \in C : c \in Nat /\ c <= p /\ c # y
  OBVIOUS
<1>1. IsFiniteSet(C) /\ Cardinality(C) \in Nat /\ y \notin C
  BY <1>0, CutsUpTo
<1>2. Cardinality(D) = Cardinality(C) + 1
  BY <1>1, FS_AddElement
<1>3. Len(entries) = Cardinality(C) - 1 /\ Len(entries) \in Nat
  BY LenProperties DEF Listed
<1>4. /\ Len(more) = Len(entries) + 1
      /\ \A n \in 1..Len(entries) : more[n] = entries[n]
      /\ more[Len(entries) + 1] = e
  BY AppendProperties
<1>5. \A q : q \in Adjacent(D) <=> q \in Adjacent(C) \/ q = <<p, y>>
  <2>1. \A c : c \in D <=> c \in C \/ c = y
    OBVIOUS
  <2> HIDE DEF D
  <2>2. QED
    BY <2>1, AdjacentGrows
<1>6. ASSUME NEW a \in Adjacent(C)
      PROVE  more[Cardinality(D \cap 0..a[1])] = Between(k, list, a[1], a[2])
  <2>1. /\ a[1] \in Nat /\ a[2] \in Nat /\ a[1] < a[2] /\ a[2] <= p
        /\ Cardinality(C \cap 0..a[1]) \in 1..(Cardinality(C) - 1)
    BY EntryNumber
  <2>2. D \cap 0..a[1] = C \cap 0..a[1]
    BY <2>1
  <2>3. entries[Cardinality(C \cap 0..a[1])] = Between(k, list, a[1], a[2])
    BY Zenon DEF Listed, Between
  <2> HIDE DEF more, D
  <2>4. QED
    BY <1>3, <1>4, <2>1, <2>2, <2>3
<1>7. more[Cardinality(D \cap 0..p)] = Between(k, list, p, y)
  <2>1. D \cap 0..p = C
    <3>1. \A c \in C : c \in 0..p
      OBVIOUS
    <3>2. y \notin 0..p
      OBVIOUS
    <3>3. QED
      BY <3>1, <3>2
  <2>2. Cardinality(C) = Len(entries) + 1
    BY <1>1, <1>3
  <2> HIDE DEF more, D
  <2>3. QED
    BY <1>4, <2>1, <2>2
<1>8. \A a \in Adjacent(D) : more[Cardinality(D \cap 0..a[1])] = Between(k, list, a[1], a[2])
  <2> HIDE DEF more, D
  <2>1. ASSUME NEW a \in Adjacent(D)
        PROVE  more[Cardinality(D \cap 0..a[1])] = Between(k, list, a[1], a[2])
    <3>1. CASE a \in Adjacent(C)
      BY <1>6, <3>1
    <3>2. CASE a = <<p, y>>
      <4>1. a[1] = p /\ a[2] = y
        BY <3>2
      <4>2. QED
        BY <1>7, <4>1
    <3>3. QED
      BY <1>5, <3>1, <3>2
  <2>2. QED
    BY <2>1
<1>9. Len(more) = Cardinality(D) - 1
  BY <1>1, <1>2, <1>3, <1>4
<1>10. QED
  <2> HIDE DEF more, D
  <2>1. Listed(k, list, D, more)
    BY <1>8, <1>9, Zenon DEF Listed, Between
  <2>2. QED
    BY <2>1 DEF more, D

--------------------------------------------------------------------------------
\* The entries read so far are those of the bytes behind the cursor.
ListSoFar ==
    /\ HasList(body, Width)
    /\ kind \in PairKinds => List(body, Width) # <<>>
    /\ cur.bytes = List(body, Width)
    /\ out \in Seq(EntryValues)
    /\ \E C : Cut(kind, cur.bytes, C, cur.pos) /\ Listed(kind, cur.bytes, C, out)

\* A list that is refused cannot be cut, and one that is taken has been cut to its end.
ListInv ==
    /\ kind \in WalkedKinds /\ at \in {"entries", "some"} => ListSoFar
    /\ kind \in WalkedKinds /\ at = "some" => cur.pos = Len(cur.bytes)
    /\ kind \in WalkedKinds /\ at = "none" => Cuts(kind, body) = {}
    /\ at = "skip" => kind = "server_name"

\* Ways to cut a list are cuts of all of its bytes.
LEMMA CutsAre ==
    ASSUME NEW k, NEW b, HasList(b, WidthOf(k)), Len(List(b, WidthOf(k))) \in Nat,
           NEW D
    PROVE  /\ D \in Cuts(k, b) => Cut(k, List(b, WidthOf(k)), D, Len(List(b, WidthOf(k))))
           /\ /\ Cut(k, List(b, WidthOf(k)), D, Len(List(b, WidthOf(k))))
              /\ k \in PairKinds => List(b, WidthOf(k)) # <<>>
              => D \in Cuts(k, b)
<1> DEFINE list == List(b, WidthOf(k))
           p == Len(list)
<1>1. D \in Cuts(k, b) <=>
        /\ k \in PairKinds => list # <<>>
        /\ D \in SUBSET (0..p) /\ {0, p} \subseteq D
        /\ \A a \in Adjacent(D) : IsEntry(k, list, a[1], a[2])
  BY DEF Cuts
<1>2. ASSUME D \subseteq 0..p
      PROVE  (\A a \in Adjacent(D) : IsEntry(k, list, a[1], a[2]))
               <=> \A x, y \in D : (x < y /\ \A c \in D : ~(x < c /\ c < y)) => IsEntry(k, list, x, y)
  <2>1. D \subseteq Nat
    BY <1>2
  <2>2. \A x, y \in D : <<x, y>> \in Adjacent(D) <=> x < y /\ \A c \in D : ~(x < c /\ c < y)
    BY <2>1, AdjacentIs
  <2>3. \A a \in Adjacent(D) : a[1] \in D /\ a[2] \in D /\ a = <<a[1], a[2]>>
    BY DEF Adjacent
  <2> HIDE DEF list
  <2>4. ASSUME \A a \in Adjacent(D) : IsEntry(k, list, a[1], a[2]),
               NEW x \in D, NEW y \in D, x < y, \A c \in D : ~(x < c /\ c < y)
        PROVE  IsEntry(k, list, x, y)
    <3>1. <<x, y>> \in Adjacent(D)
      BY <2>2, <2>4
    <3>2. <<x, y>>[1] = x /\ <<x, y>>[2] = y
      OBVIOUS
    <3>3. QED
      BY <2>4, <3>1, <3>2
  <2>5. ASSUME \A x, y \in D : (x < y /\ \A c \in D : ~(x < c /\ c < y)) => IsEntry(k, list, x, y),
               NEW a \in Adjacent(D)
        PROVE  IsEntry(k, list, a[1], a[2])
    BY <2>2, <2>3, <2>5
  <2>6. QED
    BY <2>4, <2>5
<1>3. Cut(k, list, D, p) <=>
        /\ D \subseteq 0..p /\ 0 \in D /\ p \in D
        /\ \A x, y \in D : (x < y /\ \A c \in D : ~(x < c /\ c < y)) => IsEntry(k, list, x, y)
  BY DEF Cut
<1> HIDE DEF list, p
<1>4. D \in SUBSET (0..p) /\ {0, p} \subseteq D <=> D \subseteq 0..p /\ 0 \in D /\ p \in D
  OBVIOUS
<1>5. Cut(k, list, D, p) /\ (k \in PairKinds => list # <<>>) <=> D \in Cuts(k, b)
  BY <1>1, <1>2, <1>3, <1>4
<1>6. QED
  BY <1>5 DEF list, p

\* The list before its first entry.
LEMMA ListStarts ==
    ASSUME NEW k, NEW list
    PROVE  Cut(k, list, {0}, 0) /\ Listed(k, list, {0}, <<>>)
<1>1. Adjacent({0}) = {}
  BY DEF Adjacent
<1>2. Cardinality({0}) = 1
  BY FS_Singleton
<1>3. Listed(k, list, {0}, <<>>)
  BY <1>1, <1>2 DEF Listed
<1>4. QED
  BY <1>3 DEF Cut

\* An entry, added to the answer.
LEMMA EntryIsBetween ==
    ASSUME TypeOK, kind \in WalkedKinds, EntryFits
    PROVE  /\ Entry \in EntryValues
           /\ Entry = Between(kind, cur.bytes, cur.pos, AfterEntry.pos)
<1>0. cur \in Cursors /\ cur.pos \in Nat /\ cur = Skip(CursorOn(cur.bytes), cur.pos)
  BY TypeParts, CursorAt DEF Cursors
<1>1. CASE kind = "alpn"
  <2>1. PrefixFits(cur, 1) /\ AfterEntry = AfterPrefixed(cur, 1) /\ Entry = Prefixed(cur, 1)
    BY <1>1, EntryTakes DEF Entry
  <2>2. /\ AfterEntry.pos = cur.pos + 1 + Number(cur, 1) /\ Number(cur, 1) \in Nat
        /\ Entry \in Seq(Byte)
    BY <1>0, <2>1, AfterPrefixedIs, PrefixedIs
  <2>3. Skip(cur, 1).bytes = cur.bytes /\ Skip(cur, 1).pos = cur.pos + 1
    BY <1>0, <2>1, SkipIs DEF PrefixFits
  <2>4. Entry = SubSeq(cur.bytes, cur.pos + 1 + 1, cur.pos + 1 + Number(cur, 1))
    BY <2>1, <2>3 DEF Prefixed, Slice
  <2>5. cur.pos + 1 + 1 = cur.pos + 2
    BY <1>0
  <2>6. QED
    BY <1>1, <2>2, <2>4, <2>5 DEF Between, EntryValues
<1>2. CASE kind # "alpn"
  <2>1. Fits(cur, 2)
    <3>1. kind \in PairKinds \/ kind = "key_share"
      BY <1>2 DEF WalkedKinds
    <3>2. QED
      BY <3>1, EntryTakes
  <2>2. Entry = Number(cur, 2) /\ Number(cur, 2) \in Nat
    BY <1>0, <1>2, <2>1, NumberIs DEF Entry
  <2>3. QED
    BY <1>0, <1>2, <2>2 DEF Between, EntryValues
<1>3. QED
  BY <1>1, <1>2

--------------------------------------------------------------------------------
\* The list is bytes, and how many they are.
LEMMA ListIs ==
    ASSUME TypeOK, HasList(body, Width)
    PROVE  List(body, Width) \in Seq(Byte) /\ Len(List(body, Width)) \in Nat
<1>1. CursorOn(body) \in Cursors /\ PrefixFits(CursorOn(body), Width) /\ Width \in {1, 2}
  BY TypeParts, CursorOnIs, WidthIs DEF HasList
<1>2. List(body, Width) \in Seq(Byte)
  BY <1>1, PrefixedIs DEF List
<1>3. QED
  BY <1>2, LenProperties

\* A list of pairs with a byte too many falls into no pairs.
LEMMA OddList ==
    ASSUME NEW k \in PairKinds, NEW list, NEW p \in Nat, NEW D, Cut(k, list, D, p)
    PROVE  p % 2 = 0
<1> DEFINE S == { c \in D : c % 2 # 0 }
<1>1. SUFFICES ASSUME S # {} PROVE FALSE
  BY DEF Cut
<1>2. D \subseteq Nat /\ 0 \in D /\ S \subseteq Nat
  <2>1. D \subseteq 0..p /\ 0 \in D
    BY DEF Cut
  <2>2. \A c \in D : c \in Nat
    BY <2>1
  <2>3. QED
    BY <2>1, <2>2
<1>3. PICK m \in S : \A c \in S : m <= c
  <2> HIDE DEF S
  <2>1. QED
    BY <1>1, <1>2, LeastNatural
<1>4. m \in D /\ m \in Nat /\ m % 2 # 0 /\ 0 < m
  BY <1>2
<1>5. PICK q \in D : q < m /\ \A c \in D : ~(q < c /\ c < m)
  BY <1>2, <1>4, PreviousCut
<1>6. IsEntry(k, list, q, m)
  BY <1>4, <1>5 DEF Cut
<1>7. m = q + 2
  BY <1>6, EntrySpans
<1>8. q \in Nat /\ q % 2 # 0
  BY <1>2, <1>4, <1>7
<1>9. QED
  BY <1>3, <1>4, <1>5, <1>8

\* A list that is refused as a whole falls into no entries.
LEMMA RefusedList ==
    ASSUME BodyInv, at = "start", kind \in WalkedKinds, ~GoodList
    PROVE  Cuts(kind, body) = {}
<1>1. SUFFICES ASSUME NEW D \in Cuts(kind, body) PROVE FALSE
  OBVIOUS
<1>2. TypeOK /\ cur = CursorOn(body) /\ kind # "points" /\ WidthOf(kind) = Width
  BY DEF BodyInv, WalkedKinds, PairKinds, Width
<1>3. HasList(body, Width)
  BY <1>2 DEF Cuts
<1>4. List(body, Width) \in Seq(Byte) /\ Len(List(body, Width)) \in Nat
  BY <1>2, <1>3, ListIs
<1>5. Cut(kind, List(body, Width), D, Len(List(body, Width)))
  BY <1>1, <1>2, <1>3, <1>4, CutsAre
<1>6. PrefixFits(cur, Width) /\ Prefixed(cur, Width) = List(body, Width)
  BY <1>2, <1>3 DEF HasList, List
<1>7. kind \in PairKinds => List(body, Width) # <<>>
  BY <1>2, <1>3 DEF Cuts
<1>8. cur \in Cursors /\ Len(List(body, Width)) = Number(cur, Width)
  BY <1>2, <1>6, TypeParts, WidthIs, PrefixedIs
<1>9. kind \in PairKinds => Number(cur, Width) % 2 = 0
  BY <1>4, <1>5, <1>8, OddList
<1>10. QED
  BY <1>2, <1>6, <1>7, <1>9 DEF GoodList

\* Nor does one with an entry that overruns it.
LEMMA RefusedEntry ==
    ASSUME BodyInv, ListInv, Walking, ~EntryFits
    PROVE  Cuts(kind, body) = {}
<1>1. SUFFICES ASSUME NEW D \in Cuts(kind, body) PROVE FALSE
  OBVIOUS
<1>2. TypeOK /\ kind \in WalkedKinds /\ ListSoFar /\ WidthOf(kind) = Width
  BY DEF BodyInv, ListInv, Walking, Width
<1>3. /\ HasList(body, Width) /\ cur.bytes = List(body, Width)
      /\ cur.pos \in Nat /\ Len(cur.bytes) \in Nat /\ cur.pos < Len(cur.bytes)
  BY <1>2, TypeParts, LenProperties DEF ListSoFar, Walking, Remaining, Cursors
<1>4. Cut(kind, cur.bytes, D, Len(cur.bytes))
  BY <1>1, <1>2, <1>3, CutsAre
<1>5. PICK C : Cut(kind, cur.bytes, C, cur.pos)
  BY <1>2 DEF ListSoFar
<1>6. cur.pos \in C /\ cur.pos \in 0..cur.pos
  BY <1>3, <1>5 DEF Cut
<1>7. cur.pos \in D
  BY <1>2, <1>3, <1>4, <1>5, <1>6, CutsAgree
<1>8. D \subseteq Nat /\ Len(cur.bytes) \in D
  BY <1>4 DEF Cut
<1>9. PICK r \in D : /\ cur.pos < r /\ r <= Len(cur.bytes)
                     /\ \A c \in D : ~(cur.pos < c /\ c < r)
  <2>1. PICK x \in Nat, y \in D : x = cur.pos /\ y = Len(cur.bytes)
    BY <1>3, <1>8
  <2>0. x < y
    BY <1>3, <2>1
  <2>2. \E r \in D : x < r /\ r <= y /\ \A c \in D : ~(x < c /\ c < r)
    BY <1>8, <2>0, NextCut
  <2>3. QED
    BY <2>1, <2>2
<1>10. IsEntry(kind, cur.bytes, cur.pos, r)
  BY <1>4, <1>7, <1>9 DEF Cut
<1>11. r \in Nat
  BY <1>8
<1>12. QED
  BY <1>2, <1>9, <1>10, <1>11, EntryIsRead

\* An entry that is read is one cut more.
LEMMA EntryAdded ==
    ASSUME BodyInv, ListInv, ReadEntry
    PROVE  ListSoFar'
<1>1. /\ TypeOK /\ kind \in WalkedKinds /\ EntryFits /\ ListSoFar
      /\ out' = Append(out, Entry) /\ cur' = AfterEntry
      /\ body' = body /\ kind' = kind /\ Width' = Width
  BY DEF ReadEntry, Walking, BodyInv, ListInv, input, Width
<1>2. /\ cur'.bytes = cur.bytes /\ cur' \in Cursors
      /\ IsEntry(kind, cur.bytes, cur.pos, cur'.pos) /\ cur.pos < cur'.pos
      /\ Entry \in EntryValues /\ Entry = Between(kind, cur.bytes, cur.pos, cur'.pos)
  BY <1>1, EntryIs, EntryReadIs, EntryIsBetween
<1>3. cur.pos \in Nat /\ cur'.pos \in Nat /\ out \in Seq(EntryValues)
  BY <1>1, <1>2, TypeParts DEF Cursors, ListSoFar
<1>4. PICK C : Cut(kind, cur.bytes, C, cur.pos) /\ Listed(kind, cur.bytes, C, out)
  BY <1>1 DEF ListSoFar
<1>5. C \subseteq 0..cur.pos /\ 0 \in C /\ cur.pos \in C
  BY <1>4 DEF Cut
<1>6. PICK D : D = C \cup {cur'.pos}
  OBVIOUS
<1>7. Cut(kind, cur.bytes, C \cup {cur'.pos}, cur'.pos)
  BY <1>2, <1>3, <1>4, CutGrows
<1>8. Listed(kind, cur.bytes, C \cup {cur'.pos}, Append(out, Entry))
  BY <1>2, <1>3, <1>4, <1>5, ListedGrows
<1>9. out' \in Seq(EntryValues)
  BY <1>1, <1>2, <1>3, AppendProperties
<1>10. Cut(kind', cur'.bytes, D, cur'.pos) /\ Listed(kind', cur'.bytes, D, out')
  BY <1>1, <1>2, <1>6, <1>7, <1>8
<1>11. QED
  BY <1>1, <1>2, <1>9, <1>10 DEF ListSoFar

\* The list that is cut to be walked.
LEMMA ListIsRead ==
    ASSUME BodyInv, ReadList
    PROVE  ListSoFar'
<1>1. /\ TypeOK /\ kind \in WalkedKinds /\ GoodList /\ cur = CursorOn(body) /\ out' = <<>>
      /\ cur' = CursorOn(Prefixed(cur, Width)) /\ kind' = kind /\ body' = body /\ Width' = Width
  BY DEF ReadList, BodyInv, input, Width
<1>2. HasList(body, Width) /\ Prefixed(cur, Width) = List(body, Width)
  BY <1>1 DEF GoodList, HasList, List
<1>3. kind \in PairKinds => List(body, Width) # <<>>
  BY <1>1, <1>2 DEF GoodList
<1>4. cur'.bytes = List(body, Width) /\ cur'.pos = 0
  BY <1>1, <1>2 DEF CursorOn
<1>5. Cut(kind', cur'.bytes, {0}, cur'.pos) /\ Listed(kind', cur'.bytes, {0}, out')
  BY <1>1, <1>4, ListStarts
<1>6. out' \in Seq(EntryValues)
  BY <1>1
<1>7. QED
  BY <1>1, <1>2, <1>3, <1>4, <1>5, <1>6 DEF ListSoFar

\* The cuts, kept by every read.
LEMMA ListKept ==
    ASSUME BodyInv, ListInv, [Next]_vars
    PROVE  ListInv'
<1>0. kind' = kind /\ body' = body /\ Width' = Width
  BY DEF Next, ParseStep, ReadName, RejectList, ReadList, CopyFormats, ReadEntry, RejectEntry,
         Finish, ReadLimit, RejectLimit, RejectNameList, ReadNameList, SkipOtherType,
         RejectHostLength, SkipNotUtf8, ReadHost, RejectHost, AcceptHost, Refuse, input, vars, Width
<1>1. CASE ReadList
  BY <1>1, ListIsRead DEF ReadList, ListInv
<1>2. CASE ReadEntry
  BY <1>2, EntryAdded DEF ReadEntry, Walking, ListInv
<1>3. CASE RejectList
  <2>1. at = "start" /\ ~GoodList /\ at' = "none"
    BY <1>3 DEF RejectList, Refuse
  <2>2. QED
    BY <1>0, <2>1, RefusedList DEF ListInv
<1>4. CASE RejectEntry
  <2>1. Walking /\ ~EntryFits /\ at' = "none"
    BY <1>4 DEF RejectEntry, Refuse
  <2>2. QED
    BY <1>0, <2>1, RefusedEntry DEF ListInv
<1>5. CASE Finish
  <2>1. /\ at = "entries" /\ at' = "some" /\ Remaining(cur) = 0
        /\ cur' = cur /\ out' = out /\ cur \in Cursors
    BY <1>5, TypeParts DEF Finish, BodyInv
  <2>2. cur.pos = Len(cur.bytes)
    BY <2>1, LenProperties DEF Remaining, Cursors
  <2>3. ListSoFar' <=> ListSoFar
    BY <1>0, <2>1 DEF ListSoFar
  <2>4. QED
    BY <1>0, <2>1, <2>2, <2>3 DEF ListInv
<1>6. CASE UNCHANGED vars
  <2>1. at' = at /\ cur' = cur /\ out' = out
    BY <1>6 DEF vars
  <2>2. ListSoFar' <=> ListSoFar
    BY <1>0, <2>1 DEF ListSoFar
  <2>3. QED
    BY <1>0, <2>1, <2>2 DEF ListInv
<1>7. CASE CopyFormats \/ ReadLimit \/ RejectLimit \/ ReadName
  <2>1. kind \in {"points", "limit", "server_name"}
    BY <1>7 DEF CopyFormats, ReadLimit, RejectLimit, ReadName, RejectNameList, ReadNameList,
       SkipOtherType, RejectHostLength, Typed, SkipNotUtf8, ReadHost, RejectHost, AcceptHost,
       BodyInv, HostInv
  <2>2. kind \notin WalkedKinds
    BY <2>1 DEF WalkedKinds, PairKinds
  <2>3. at' = "skip" => kind = "server_name"
    BY <1>7 DEF CopyFormats, ReadLimit, RejectLimit, Refuse, ReadName, RejectNameList, ReadNameList,
       SkipOtherType, RejectHostLength, Typed, SkipNotUtf8, ReadHost, RejectHost, AcceptHost,
       BodyInv, HostInv
  <2>4. QED
    BY <1>0, <2>2, <2>3 DEF ListInv
<1>8. QED
  BY <1>1, <1>2, <1>3, <1>4, <1>5, <1>6, <1>7 DEF Next, ParseStep

\* The walk cuts the list the one way it can be cut.
LEMMA ListHasMeaning ==
    ASSUME BodyInv, ListInv
    PROVE  ListIsMeaning
<1> SUFFICES ASSUME Answered, kind \in WalkedKinds
             PROVE  IF Cuts(kind, body) # {}
                    THEN /\ at = "some"
                         /\ \A cuts \in Cuts(kind, body) : Listed(kind, List(body, Width), cuts, out)
                    ELSE at = "none"
  BY DEF ListIsMeaning
<1>1. TypeOK /\ kind # "server_name" /\ WidthOf(kind) = Width
  BY DEF BodyInv, WalkedKinds, PairKinds, Width
<1>2. CASE at = "some"
  <2>1. /\ ListSoFar /\ cur.pos = Len(cur.bytes) /\ cur.bytes = List(body, Width)
        /\ HasList(body, Width)
        /\ kind \in PairKinds => List(body, Width) # <<>>
    BY <1>2 DEF ListInv, ListSoFar
  <2>2. Len(cur.bytes) \in Nat
    BY <1>1, <2>1, ListIs
  <2>3. PICK C : Cut(kind, cur.bytes, C, Len(cur.bytes)) /\ Listed(kind, cur.bytes, C, out)
    BY <2>1 DEF ListSoFar
  <2>4. C \in Cuts(kind, body)
    BY <1>1, <2>1, <2>2, <2>3, CutsAre
  <2>5. ASSUME NEW D \in Cuts(kind, body)
        PROVE  D = C
    <3>1. Cut(kind, cur.bytes, D, Len(cur.bytes))
      BY <1>1, <2>1, <2>2, <2>5, CutsAre
    <3>2. \A e \in 0..Len(cur.bytes) : e \in C <=> e \in D
      BY <2>2, <2>3, <3>1, CutsAgree
    <3>3. C \subseteq 0..Len(cur.bytes) /\ D \subseteq 0..Len(cur.bytes)
      BY <2>3, <3>1 DEF Cut
    <3>4. QED
      BY <3>2, <3>3
  <2>6. QED
    BY <1>2, <2>1, <2>3, <2>4, <2>5
<1>3. CASE at = "none"
  BY <1>3 DEF ListInv
<1>4. QED
  BY <1>1, <1>2, <1>3 DEF Answered, ListInv

--------------------------------------------------------------------------------
(* The limits of a host name, with and without a walk. *)

\* Every label is within its limit, or nowhere is the limit overrun without a dot.
LEMMA LabelsAreRuns ==
    ASSUME NEW h \in Seq(Byte)
    PROVE  LabelsFit(h) <=>
             \A a \in 0..(Len(h) - MaxLabel - 1) : \E k \in 1..(MaxLabel + 1) : h[a + k] = Dot
<1> DEFINE Runs == \A a \in 0..(Len(h) - MaxLabel - 1) : \E k \in 1..(MaxLabel + 1) : h[a + k] = Dot
           LabelStarts == {0} \cup Dots(h)
           Ends == Dots(h) \cup {Len(h) + 1}
<1>1. /\ Len(h) \in Nat /\ DOMAIN h = 1..Len(h) /\ MaxLabel \in Nat
  BY NameLimits, LenProperties
<1>2. /\ \A c : c \in Dots(h) <=> c \in 1..Len(h) /\ h[c] = Dot
      /\ Dots(h) \subseteq Nat /\ LabelStarts \subseteq Nat /\ Ends \subseteq Nat
  BY <1>1 DEF Dots
<1>3. LabelsFit(h) <=> \A end \in Ends : \E prev \in LabelStarts :
        /\ prev < end /\ (\A c \in Dots(h) : ~(prev < c /\ c < end))
        /\ end - prev - 1 <= MaxLabel
  <2>1. ASSUME NEW end \in Ends, NEW prev \in Nat
        PROVE  Dots(h) \cap (prev + 1)..(end - 1) = {}
                 <=> \A c \in Dots(h) : ~(prev < c /\ c < end)
    BY <1>2
  <2>2. ASSUME NEW end \in Ends
        PROVE  \A prev : prev \in 0..(end - 1) /\ (prev = 0 \/ prev \in Dots(h))
                            <=> prev \in LabelStarts /\ prev < end
    <3>1. end \in Nat /\ end > 0
      BY <1>1, <1>2
    <3>2. QED
      BY <1>2, <3>1
  <2> HIDE DEF LabelStarts, Ends
  <2>3. LabelsFit(h) <=> \A end \in Ends :
          \E prev \in 0..(end - 1) :
            /\ prev = 0 \/ prev \in Dots(h)
            /\ Dots(h) \cap (prev + 1)..(end - 1) = {}
            /\ end - prev - 1 <= MaxLabel
    BY Zenon DEF LabelsFit, Ends
  <2>4. QED
    BY <1>2, <2>1, <2>2, <2>3
<1>4. ASSUME LabelsFit(h), NEW a \in 0..(Len(h) - MaxLabel - 1),
             \A k \in 1..(MaxLabel + 1) : h[a + k] # Dot
      PROVE  FALSE
  <2>1. a \in Nat /\ Len(h) + 1 \in Ends /\ a < Len(h) + 1
    BY <1>1
  <2> HIDE DEF LabelStarts, Ends
  <2>2. PICK end \in Ends : a < end /\ \A c \in Ends : ~(a < c /\ c < end)
    BY <1>2, <2>1, NextCut
  <2>3. PICK prev \in LabelStarts : /\ prev < end /\ (\A c \in Dots(h) : ~(prev < c /\ c < end))
                               /\ end - prev - 1 <= MaxLabel
    BY <1>3, <1>4
  <2>4. end > a + MaxLabel + 1
    <3>1. CASE end = Len(h) + 1
      BY <1>1, <3>1
    <3>2. CASE end \in Dots(h)
      <4>1. end \in Nat /\ end - a \in Nat /\ h[a + (end - a)] = Dot /\ end - a >= 1
        BY <1>2, <2>1, <2>2, <3>2
      <4>2. end - a \notin 1..(MaxLabel + 1)
        BY <1>4, <4>1
      <4>3. QED
        BY <1>1, <2>1, <4>1, <4>2
    <3>3. QED
      BY <3>1, <3>2 DEF Ends
  <2>5. prev > a /\ prev # 0
    BY <1>1, <1>2, <2>1, <2>3, <2>4
  <2>6. prev \in Ends
    BY <2>5 DEF LabelStarts, Ends
  <2>7. QED
    BY <2>2, <2>3, <2>5, <2>6
<1>5. ASSUME Runs, NEW end \in Ends
      PROVE  \E prev \in LabelStarts :
               /\ prev < end /\ (\A c \in Dots(h) : ~(prev < c /\ c < end))
               /\ end - prev - 1 <= MaxLabel
  <2>1. end \in Nat /\ 0 < end /\ end <= Len(h) + 1 /\ 0 \in LabelStarts
    BY <1>1, <1>2
  <2>2. PICK prev \in LabelStarts : prev < end /\ \A c \in LabelStarts : ~(prev < c /\ c < end)
    <3> HIDE DEF LabelStarts
    <3>1. QED
      BY <1>2, <2>1, PreviousCut
  <2>3. ASSUME end - prev - 1 > MaxLabel
        PROVE  FALSE
    <3>1. prev \in 0..(Len(h) - MaxLabel - 1)
      BY <1>1, <1>2, <2>1, <2>3
    <3>2. PICK k \in 1..(MaxLabel + 1) : h[prev + k] = Dot
      BY <1>5, <3>1
    <3>3. prev < prev + k /\ prev + k < end /\ prev + k \in 1..Len(h)
      BY <1>1, <1>2, <2>1, <2>3, <3>1
    <3>4. prev + k \in LabelStarts
      BY <1>2, <3>2, <3>3
    <3>5. QED
      BY <2>2, <3>3, <3>4
  <2>4. end - prev - 1 \in Int
    BY <1>2, <2>1
  <2>5. end - prev - 1 <= MaxLabel
    BY <1>1, <2>3, <2>4
  <2>6. \A c \in Dots(h) : ~(prev < c /\ c < end)
    BY <2>2
  <2> HIDE DEF LabelStarts
  <2>7. QED
    BY <2>2, <2>5, <2>6
<1>6. QED
  <2> HIDE DEF LabelStarts, Ends
  <2>1. Runs => LabelsFit(h)
    BY <1>3, <1>5
  <2>2. LabelsFit(h) => Runs
    BY <1>4
  <2>3. QED
    BY <2>1, <2>2

\* A stripped name that passes the walk is a host name by the limits.
LEMMA UsableIsHostname ==
    ASSUME NEW h \in Seq(Byte)
    PROVE  Usable(h) <=> Hostname(h)
<1>1. Len(h) \in Nat /\ MaxHost \in Nat /\ (h = <<>> <=> Len(h) = 0)
  BY NameLimits, LenProperties, EmptySeq
<1>2. Len(h) \in 1..MaxHost <=> h # <<>> /\ Len(h) <= MaxHost
  BY <1>1
<1>3. QED
  BY <1>2, LabelsAreRuns DEF Usable, Hostname, IsLdh

\* The prefix, before a character of either case.
LEMMA PrefixIs ==
    ASSUME NEW h \in Seq(Byte), NEW x \in Nat, x + 4 <= Len(h)
    PROVE  Lower(SubSeq(h, x + 1, x + 4)) = IdnPrefix
             <=> /\ h[x + 1] \in {88, 120} /\ h[x + 2] \in {78, 110}
                 /\ h[x + 3] = Hyphen /\ h[x + 4] = Hyphen
<1> DEFINE s == SubSeq(h, x + 1, x + 4)
           low(c) == IF c \in Upper THEN c + 32 ELSE c
<1>1. Len(h) \in Nat /\ \A k \in 1..Len(h) : h[k] \in Byte
  BY LenProperties, ElementOfSeq
<1>2. Len(s) = 4 /\ s \in Seq(Byte) /\ \A k \in 1..4 : s[k] = h[x + k]
  <2>1. /\ x + 1 \in Int /\ x + 4 \in Int /\ \A k \in (x + 1)..(x + 4) : h[k] \in Byte
    BY <1>1
  <2>2. /\ s \in Seq(Byte)
        /\ Len(s) = IF x + 1 <= x + 4 THEN x + 4 - (x + 1) + 1 ELSE 0
        /\ \A k \in 1..(x + 4 - (x + 1) + 1) : s[k] = h[x + 1 + k - 1]
    BY <2>1, SubSeqProperties
  <2>3. x + 4 - (x + 1) + 1 = 4 /\ x + 1 <= x + 4 /\ \A k \in 1..4 : x + 1 + k - 1 = x + k
    OBVIOUS
  <2> HIDE DEF s
  <2>4. QED
    BY <2>2, <2>3
<1>3. /\ s[1] = h[x + 1] /\ s[2] = h[x + 2] /\ s[3] = h[x + 3] /\ s[4] = h[x + 4]
      /\ DOMAIN s = 1..4
  <2> HIDE DEF s
  <2>1. QED
    BY <1>2, LenProperties
<1>4. h[x + 1] \in Byte /\ h[x + 2] \in Byte /\ h[x + 3] \in Byte /\ h[x + 4] \in Byte
  BY <1>1
<1> HIDE DEF s
<1>5. Lower(s) = [k \in 1..4 |-> low(s[k])]
  BY <1>3 DEF Lower
<1>6. Lower(s) = IdnPrefix <=>
        low(s[1]) = 120 /\ low(s[2]) = 110 /\ low(s[3]) = 45 /\ low(s[4]) = 45
  <2> HIDE DEF low
  <2>1. IdnPrefix = [k \in 1..4 |-> CASE k = 1 -> 120 [] k = 2 -> 110 [] k = 3 -> 45 [] k = 4 -> 45]
    BY DEF IdnPrefix
  <2>2. QED
    BY <1>5, <2>1
<1>7. \A c \in Byte : /\ low(c) = 120 <=> c \in {88, 120}
                      /\ low(c) = 110 <=> c \in {78, 110}
                      /\ low(c) = 45 <=> c = Hyphen
  BY DEF Byte, Upper, Hyphen
<1>8. QED
  <2> HIDE DEF low
  <2>1. Lower(s) = IdnPrefix
             <=> /\ h[x + 1] \in {88, 120} /\ h[x + 2] \in {78, 110}
                 /\ h[x + 3] = Hyphen /\ h[x + 4] = Hyphen
    BY <1>3, <1>4, <1>6, <1>7
  <2>2. QED
    BY <2>1 DEF s

\* is_idn_host sees every label, and nothing that runs over a dot.
LEMMA IdnIsLabel ==
    ASSUME NEW h \in Seq(Byte)
    PROVE  IsIdnHost(h) <=> \E x, y \in 0..Len(h) : IdnLabel(h, x, y)
<1> DEFINE Ends == Dots(h) \cup {Len(h) + 1}
<1>1. Len(h) \in Nat /\ DOMAIN h = 1..Len(h)
  BY LenProperties
<1>2. /\ \A c : c \in Dots(h) <=> c \in 1..Len(h) /\ h[c] = Dot
      /\ Dots(h) \subseteq Nat /\ Ends \subseteq Nat
  BY <1>1 DEF Dots
<1>3. ASSUME IsIdnHost(h)
      PROVE  \E x, y \in 0..Len(h) : IdnLabel(h, x, y)
  <2>1. PICK x \in {0} \cup Dots(h) :
            x + 4 <= Len(h) /\ Lower(SubSeq(h, x + 1, x + 4)) = IdnPrefix
    BY <1>3 DEF IsIdnHost
  <2>2. x \in Nat /\ x < Len(h) + 1 /\ Len(h) + 1 \in Ends
    BY <1>1, <1>2, <2>1
  <2>3. PICK end \in Ends : x < end /\ \A c \in Ends : ~(x < c /\ c < end)
    <3> HIDE DEF Ends
    <3>1. QED
      BY <1>2, <2>2, NextCut
  <2>4. /\ h[x + 1] \in {88, 120} /\ h[x + 2] \in {78, 110}
        /\ h[x + 3] = Hyphen /\ h[x + 4] = Hyphen
    BY <2>1, <2>2, PrefixIs
  <2>5. end \in Nat /\ end <= Len(h) + 1
    BY <1>1, <1>2
  <2>6. end \notin {x + 1, x + 2, x + 3, x + 4}
    <3>1. \A c \in {x + 1, x + 2, x + 3, x + 4} : h[c] # Dot /\ c <= Len(h)
      BY <1>1, <2>1, <2>2, <2>4 DEF Dot, Hyphen
    <3>2. \A c \in {x + 1, x + 2, x + 3, x + 4} : c \notin Dots(h) /\ c # Len(h) + 1
      BY <1>1, <1>2, <2>2, <3>1
    <3>3. QED
      BY <3>2
  <2>7. end - 1 \in 0..Len(h) /\ (end - 1) - x >= 4 /\ x \in 0..Len(h)
    BY <1>1, <2>2, <2>3, <2>5, <2>6
  <2>8. \A k \in (x + 1)..(end - 1) : h[k] # Dot
    <3>1. TAKE k \in (x + 1)..(end - 1)
    <3>2. x < k /\ k < end /\ k \in 1..Len(h)
      BY <2>2, <2>5, <2>7
    <3>3. QED
      BY <1>2, <2>3, <3>2
  <2>9. end - 1 = Len(h) \/ h[end - 1 + 1] = Dot
    BY <1>1, <1>2, <2>5
  <2>10. IdnLabel(h, x, end - 1)
    BY <1>2, <2>1, <2>4, <2>7, <2>8, <2>9 DEF IdnLabel
  <2>11. QED
    BY <2>7, <2>10
<1>4. ASSUME NEW x \in 0..Len(h), NEW y \in 0..Len(h), IdnLabel(h, x, y)
      PROVE  IsIdnHost(h)
  <2>0. x \in Nat /\ y \in Nat /\ x <= Len(h) /\ y <= Len(h)
    BY <1>1
  <2>1. x \in Nat /\ x + 4 <= Len(h) /\ x \in {0} \cup Dots(h)
    <3>1. (x = 0 \/ h[x] = Dot) /\ y - x >= 4
      BY <1>4 DEF IdnLabel
    <3>2. x + 4 <= Len(h)
      BY <1>1, <2>0, <3>1
    <3>3. x = 0 \/ x \in Dots(h)
      BY <1>1, <1>2, <2>0, <3>1
    <3>4. QED
      BY <2>0, <3>2, <3>3
  <2>2. Lower(SubSeq(h, x + 1, x + 4)) = IdnPrefix
    BY <1>4, <2>1, PrefixIs DEF IdnLabel
  <2>3. QED
    BY <2>1, <2>2 DEF IsIdnHost
<1>5. QED
  BY <1>3, <1>4

--------------------------------------------------------------------------------
(* The host that a server_name names. *)

\* The length that the first entry claims.
Claimed(b) == 256 * List(b, 2)[2] + List(b, 2)[3]

\* The bytes of the first entry, where its length is to be believed.
NameBytes(b) == SubSeq(List(b, 2), 4, Claimed(b) + 3)

\* The first entry is a host name and within the list.
FirstIsHost(b) ==
    /\ HasList(b, 2)
    /\ Len(List(b, 2)) >= 3
    /\ List(b, 2)[1] = HostName
    /\ Claimed(b) + 3 <= Len(List(b, 2))

\* Another host name follows it.
SecondIsHost(b) ==
    Len(List(b, 2)) > Claimed(b) + 3 /\ List(b, 2)[Claimed(b) + 4] = HostName

\* The bytes of a list.
LEMMA NameListIs ==
    ASSUME NEW b \in Seq(Byte), HasList(b, 2)
    PROVE  /\ List(b, 2) \in Seq(Byte) /\ Len(List(b, 2)) \in Nat
           /\ Len(List(b, 2)) = Number(CursorOn(b), 2)
           /\ Len(List(b, 2)) + 2 <= Len(b) /\ Len(b) \in Nat
           /\ \A k \in 1..Len(List(b, 2)) : List(b, 2)[k] = b[k + 2] /\ List(b, 2)[k] \in Byte
<1> DEFINE list == List(b, 2)
           c == CursorOn(b)
<1>1. c \in Cursors /\ c.bytes = b /\ c.pos = 0 /\ PrefixFits(c, 2) /\ list = Prefixed(c, 2)
  BY CursorOnIs DEF HasList, List
<1>2. Len(b) \in Nat
  BY LenProperties
<1> HIDE DEF list, c
<1>3. /\ Number(c, 2) \in Nat /\ list \in Seq(Byte) /\ Len(list) = Number(c, 2)
      /\ \A k \in 1..Number(c, 2) : list[k] = c.bytes[c.pos + 2 + k]
  BY <1>1, PrefixedIs
<1>4. 2 + Number(c, 2) <= Len(b)
  BY <1>1, <1>2, <1>3 DEF PrefixFits, Fits, Remaining
<1>5. \A k \in 1..Len(list) : list[k] = b[k + 2] /\ list[k] \in Byte
  <2>1. \A k \in 1..Len(list) : 0 + 2 + k = k + 2
    BY <1>3
  <2>2. QED
    BY <1>1, <1>3, <2>1, ElementOfSeq
<1>6. QED
  BY <1>2, <1>3, <1>4, <1>5 DEF list, c

\* Some bytes that follow one another.
LEMMA BytesFrom ==
    ASSUME NEW s, NEW n \in Nat, NEW from \in Nat, NEW to \in Nat, to + 1 = from + n,
           \A k \in from..to : s[k] \in Byte
    PROVE  /\ SubSeq(s, from, to) \in Seq(Byte) /\ Len(SubSeq(s, from, to)) = n
           /\ \A k \in 1..n : SubSeq(s, from, to)[k] = s[from + k - 1]
<1>1. from \in Int /\ to \in Int /\ to - from + 1 = n /\ (from <= to \/ n = 0)
  OBVIOUS
<1>2. /\ SubSeq(s, from, to) \in Seq(Byte)
      /\ Len(SubSeq(s, from, to)) = IF from <= to THEN to - from + 1 ELSE 0
      /\ \A k \in 1..(to - from + 1) : SubSeq(s, from, to)[k] = s[from + k - 1]
  BY <1>1, SubSeqProperties
<1>3. QED
  BY <1>1, <1>2

\* The claim is a number, and the name as long as it says.
LEMMA RawIs ==
    ASSUME NEW b \in Seq(Byte), FirstIsHost(b)
    PROVE  /\ Claimed(b) \in Nat
           /\ NameBytes(b) \in Seq(Byte) /\ Len(NameBytes(b)) = Claimed(b)
           /\ \A k \in 1..Claimed(b) : NameBytes(b)[k] = List(b, 2)[k + 3]
<1> DEFINE list == List(b, 2)
           n == Claimed(b)
<1>1. list \in Seq(Byte) /\ Len(list) \in Nat /\ \A k \in 1..Len(list) : list[k] \in Byte
  BY NameListIs DEF FirstIsHost
<1>2. Len(list) >= 3 /\ n + 3 <= Len(list) /\ n = 256 * list[2] + list[3]
  BY DEF FirstIsHost, Claimed
<1>3. list[2] \in Byte /\ list[3] \in Byte
  BY <1>1, <1>2
<1> HIDE DEF list, n
<1>4. n \in Nat
  <2>1. \A x, y \in Byte : 256 * x + y \in Nat
    BY DEF Byte
  <2>2. QED
    BY <1>2, <1>3, <2>1
<1>5. PICK from \in Nat, to \in Nat : from = 4 /\ to = n + 3
  BY <1>4
<1>6. to + 1 = from + n /\ \A k \in from..to : list[k] \in Byte
  BY <1>1, <1>2, <1>4, <1>5
<1>7. /\ SubSeq(list, from, to) \in Seq(Byte) /\ Len(SubSeq(list, from, to)) = n
      /\ \A k \in 1..n : SubSeq(list, from, to)[k] = list[from + k - 1]
  BY <1>4, <1>6, BytesFrom
<1>8. \A k \in 1..n : from + k - 1 = k + 3
  BY <1>4, <1>5
<1>9. NameBytes(b) = SubSeq(list, from, to)
  BY <1>5 DEF list, n, NameBytes
<1>10. /\ NameBytes(b) \in Seq(Byte) /\ Len(NameBytes(b)) = n
       /\ \A k \in 1..n : NameBytes(b)[k] = list[k + 3]
  BY <1>7, <1>8, <1>9
<1>11. QED
  BY <1>4, <1>10 DEF list, n

\* A body names its first entry.
LEMMA NamesHostIs ==
    ASSUME NEW b \in Seq(Byte), NEW r \in Seq(Byte)
    PROVE  NamesHost(b, r) <=> FirstIsHost(b) /\ ~SecondIsHost(b) /\ r = NameBytes(b)
<1> DEFINE list == List(b, 2)
<1>1. Len(r) \in Nat
  BY LenProperties
<1>2. NamesHost(b, r) <=>
        /\ HasList(b, 2)
        /\ Len(list) >= Len(r) + 3 /\ list[1] = HostName
        /\ Claimed(b) = Len(r)
        /\ SubSeq(list, 4, Len(r) + 3) = r
        /\ Len(list) > Len(r) + 3 => list[Len(r) + 4] # HostName
  BY DEF NamesHost, Claimed
<1>3. ASSUME NamesHost(b, r)
      PROVE  FirstIsHost(b) /\ ~SecondIsHost(b) /\ r = NameBytes(b)
  <2>1. Len(list) \in Nat
    BY <1>2, <1>3, NameListIs
  <2> HIDE DEF list
  <2>2. Len(list) >= 3
    BY <1>1, <1>2, <1>3, <2>1
  <2>3. QED
    BY <1>1, <1>2, <1>3, <2>1, <2>2 DEF FirstIsHost, SecondIsHost, NameBytes, list
<1>4. ASSUME FirstIsHost(b), ~SecondIsHost(b), r = NameBytes(b)
      PROVE  NamesHost(b, r)
  <2>1. Len(r) = Claimed(b)
    BY <1>4, RawIs
  <2>2. QED
    BY <1>1, <1>2, <1>4, <2>1 DEF FirstIsHost, SecondIsHost, NameBytes
<1>5. QED
  BY <1>3, <1>4

\* Its bytes are bytes of the body.
LEMMA RawIsInBody ==
    ASSUME NEW b \in Seq(Byte), FirstIsHost(b)
    PROVE  \E n \in 5..Len(b) : NameBytes(b) = SubSeq(b, 6, n)
<1> DEFINE list == List(b, 2)
           n == Claimed(b)
<1>1. /\ n \in Nat /\ NameBytes(b) \in Seq(Byte) /\ Len(NameBytes(b)) = n
      /\ \A k \in 1..n : NameBytes(b)[k] = list[k + 3]
  BY RawIs
<1>2. /\ Len(list) \in Nat /\ Len(list) + 2 <= Len(b) /\ Len(b) \in Nat
      /\ \A k \in 1..Len(list) : list[k] = b[k + 2]
      /\ n + 3 <= Len(list)
  BY NameListIs DEF FirstIsHost
<1> HIDE DEF list, n
<1>3. n + 5 \in 5..Len(b)
  BY <1>1, <1>2
<1>4. PICK from \in Nat, to \in Nat : from = 6 /\ to = n + 5
  BY <1>1
<1>5. to + 1 = from + n /\ \A k \in from..to : b[k] \in Byte
  <2>1. \A k \in from..to : k \in 1..Len(b)
    BY <1>1, <1>3, <1>4
  <2>2. QED
    BY <1>1, <1>4, <2>1, ElementOfSeq
<1>6. /\ SubSeq(b, from, to) \in Seq(Byte) /\ Len(SubSeq(b, from, to)) = n
      /\ \A k \in 1..n : SubSeq(b, from, to)[k] = b[from + k - 1]
  BY <1>1, <1>5, BytesFrom
<1>7. \A k \in 1..n : k + 3 \in 1..Len(list) /\ from + k - 1 = (k + 3) + 2
  BY <1>1, <1>2, <1>4
<1>8. NameBytes(b) = SubSeq(b, from, to)
  <2>1. \A k \in 1..n : NameBytes(b)[k] = SubSeq(b, from, to)[k]
    BY <1>1, <1>2, <1>6, <1>7
  <2>2. QED
    BY <1>1, <1>6, <2>1, SeqEqual
<1>9. QED
  BY <1>3, <1>4, <1>8

\* The hosts named are one or none.
LEMMA HostsNamedIs ==
    ASSUME NEW b \in Seq(Byte), NEW h
    PROVE  h \in HostsNamed(b) <=>
             /\ FirstIsHost(b) /\ ~SecondIsHost(b)
             /\ IsUtf8(NameBytes(b)) /\ Hostname(StripDot(NameBytes(b)))
             /\ h = StripDot(NameBytes(b))
<1>1. Len(b) \in Nat /\ \A k \in 1..Len(b) : b[k] \in Byte
  BY LenProperties, ElementOfSeq
<1>2. \A n \in 5..Len(b) : SubSeq(b, 6, n) \in Seq(Byte)
  <2> TAKE n \in 5..Len(b)
  <2>1. 6 \in Int /\ n \in Int /\ \A k \in 6..n : b[k] \in Byte
    BY <1>1
  <2>2. QED
    BY <2>1, SubSeqProperties
<1>3. h \in HostsNamed(b) <=>
        \E r \in { SubSeq(b, 6, n) : n \in 5..Len(b) } :
            h = StripDot(r) /\ NamesHost(b, r) /\ IsUtf8(r) /\ Hostname(StripDot(r))
  BY Zenon DEF HostsNamed
<1>4. ASSUME h \in HostsNamed(b)
      PROVE  /\ FirstIsHost(b) /\ ~SecondIsHost(b)
             /\ IsUtf8(NameBytes(b)) /\ Hostname(StripDot(NameBytes(b)))
             /\ h = StripDot(NameBytes(b))
  <2>1. PICK r \in { SubSeq(b, 6, n) : n \in 5..Len(b) } :
            h = StripDot(r) /\ NamesHost(b, r) /\ IsUtf8(r) /\ Hostname(StripDot(r))
    BY <1>3, <1>4
  <2>2. r \in Seq(Byte)
    BY <1>2
  <2>3. QED
    BY <2>1, <2>2, NamesHostIs
<1>5. ASSUME FirstIsHost(b), ~SecondIsHost(b), IsUtf8(NameBytes(b)), Hostname(StripDot(NameBytes(b))),
             h = StripDot(NameBytes(b))
      PROVE  h \in HostsNamed(b)
  <2>1. NameBytes(b) \in Seq(Byte)
    BY <1>5, RawIs
  <2>2. NamesHost(b, NameBytes(b))
    BY <1>5, <2>1, NamesHostIs
  <2>3. NameBytes(b) \in { SubSeq(b, 6, n) : n \in 5..Len(b) }
    BY <1>5, RawIsInBody
  <2>4. QED
    BY <1>3, <1>5, <2>2, <2>3
<1>6. QED
  BY <1>4, <1>5

\* Without its dot a name is still bytes.
LEMMA StripIs ==
    ASSUME NEW r \in Seq(Byte)
    PROVE  StripDot(r) \in Seq(Byte)
<1>1. Len(r) \in Nat /\ \A k \in 1..Len(r) : r[k] \in Byte
  BY LenProperties, ElementOfSeq
<1>2. 1 \in Int /\ Len(r) - 1 \in Int /\ \A k \in 1..(Len(r) - 1) : r[k] \in Byte
  BY <1>1
<1>3. SubSeq(r, 1, Len(r) - 1) \in Seq(Byte)
  BY <1>2, SubSeqProperties
<1>4. QED
  BY <1>3 DEF StripDot

--------------------------------------------------------------------------------
(* What the parser of a server_name holds between two reads. *)

\* The host that is held is the one that the body may name.
NameHeld ==
    /\ FirstIsHost(body) /\ IsUtf8(NameBytes(body))
    /\ out = StripDot(NameBytes(body))
    /\ cur.bytes = List(body, 2) /\ cur.pos = Claimed(body) + 3

\* A name that is refused or skipped is no host.
NameInv ==
    kind = "server_name" =>
        /\ at = "type" => Len(List(body, 2)) >= 3
        /\ at \in {"host", "some"} => NameHeld
        /\ at = "some" => Usable(out) /\ ~SecondName
        /\ at \in {"none", "skip"} => HostsNamed(body) = {}

\* The first byte of a list is the number that is read there.
LEMMA TypeIs ==
    ASSUME BodyInv, NameInv, at = "type"
    PROVE  /\ HasList(body, 2) /\ Len(List(body, 2)) >= 3
           /\ cur \in Cursors /\ body \in Seq(Byte)
           /\ cur.bytes = List(body, 2) /\ cur.pos = 0
           /\ Number(cur, 1) = List(body, 2)[1]
<1>1. /\ HasList(body, 2) /\ cur = CursorOn(List(body, 2)) /\ kind = "server_name"
      /\ cur \in Cursors /\ body \in Seq(Byte)
  BY TypeParts DEF BodyInv, HostInv
<1>2. Len(List(body, 2)) >= 3
  BY <1>1 DEF NameInv
<1>3. cur.bytes = List(body, 2) /\ cur.pos = 0
  BY <1>1 DEF CursorOn
<1>4. Number(cur, 1) = List(body, 2)[1]
  BY <1>3 DEF Number
<1>5. QED
  BY <1>1, <1>2, <1>3, <1>4

\* Behind the type of a host name are its length and its bytes.
LEMMA NameIsRead ==
    ASSUME BodyInv, NameInv, Typed
    PROVE  /\ PrefixFits(Skip(cur, 1), 2) <=> FirstIsHost(body)
           /\ PrefixFits(Skip(cur, 1), 2) =>
                /\ Prefixed(Skip(cur, 1), 2) = NameBytes(body)
                /\ AfterPrefixed(Skip(cur, 1), 2).bytes = List(body, 2)
                /\ AfterPrefixed(Skip(cur, 1), 2).pos = Claimed(body) + 3
<1> DEFINE list == List(body, 2)
           n == Claimed(body)
           after == Skip(cur, 1)
<1>1. /\ HasList(body, 2) /\ Len(list) >= 3 /\ Len(list) \in Nat
      /\ cur \in Cursors /\ body \in Seq(Byte)
      /\ cur.bytes = list /\ cur.pos = 0 /\ list[1] = HostName
  BY TypeIs, NameListIs DEF Typed
<1>2. /\ n = 256 * list[2] + list[3]
      /\ FirstIsHost(body) <=> n + 3 <= Len(list)
  BY <1>1 DEF Claimed, FirstIsHost
<1>3. NameBytes(body) = SubSeq(list, 4, n + 3)
  BY DEF NameBytes
<1> HIDE DEF list, n, after
<1>4. after \in Cursors /\ after.bytes = list /\ after.pos = 1
  <2>1. Fits(cur, 1)
    BY <1>1 DEF Fits, Remaining
  <2>2. QED
    BY <1>1, <2>1, SkipIs DEF after
<1>5. Number(after, 2) = n /\ n \in Nat /\ Fits(after, 2)
  <2>1. Fits(after, 2)
    BY <1>1, <1>4 DEF Fits, Remaining
  <2>2. /\ Number(after, 2) = 256 * after.bytes[after.pos + 1] + after.bytes[after.pos + 2]
        /\ Number(after, 2) \in Nat
    BY <1>4, <2>1, NumberIs
  <2>3. after.pos + 1 = 2 /\ after.pos + 2 = 3
    BY <1>4
  <2>4. QED
    BY <1>2, <1>4, <2>1, <2>2, <2>3
<1>6. PrefixFits(after, 2) <=> n + 3 <= Len(list)
  <2>1. PrefixFits(after, 2) <=> Fits(after, 2 + n)
    BY <1>5 DEF PrefixFits
  <2>2. Remaining(after) = Len(list) - 1
    BY <1>4 DEF Remaining
  <2>3. QED
    BY <1>1, <1>5, <2>1, <2>2 DEF Fits
<1>7. ASSUME PrefixFits(after, 2)
      PROVE  /\ Prefixed(after, 2) = NameBytes(body)
             /\ AfterPrefixed(after, 2).bytes = list
             /\ AfterPrefixed(after, 2).pos = n + 3
  <2>1. /\ Prefixed(after, 2) \in Seq(Byte) /\ Len(Prefixed(after, 2)) = n
        /\ \A k \in 1..n : Prefixed(after, 2)[k] = list[after.pos + 2 + k]
        /\ AfterPrefixed(after, 2).bytes = list
    BY <1>4, <1>5, <1>7, PrefixedIs
  <2>2. AfterPrefixed(after, 2).pos = after.pos + 2 + n
    BY <1>4, <1>5, <1>7, AfterPrefixedIs
  <2>3. AfterPrefixed(after, 2).pos = n + 3 /\ \A k \in 1..n : after.pos + 2 + k = k + 3
    BY <1>4, <1>5, <2>2
  <2>4. FirstIsHost(body)
    BY <1>2, <1>6, <1>7
  <2>5. /\ NameBytes(body) \in Seq(Byte) /\ Len(NameBytes(body)) = n
        /\ \A k \in 1..n : NameBytes(body)[k] = list[k + 3]
    BY <1>1, <2>4, RawIs DEF n, list
  <2>6. \A k \in 1..n : Prefixed(after, 2)[k] = NameBytes(body)[k]
    BY <2>1, <2>3, <2>5
  <2>7. Prefixed(after, 2) = NameBytes(body)
    BY <1>5, <2>1, <2>5, <2>6, SeqEqual
  <2>8. QED
    BY <2>1, <2>3, <2>7
<1>8. QED
  BY <1>2, <1>6, <1>7 DEF list, n, after

\* The type of a second entry is where the first one ends.
LEMMA SecondIs ==
    ASSUME BodyInv, NameHeld
    PROVE  SecondName <=> SecondIsHost(body)
<1>1. /\ body \in Seq(Byte) /\ FirstIsHost(body)
      /\ cur.bytes = List(body, 2) /\ cur.pos = Claimed(body) + 3
  BY TypeParts DEF BodyInv, NameHeld
<1>2. Claimed(body) \in Nat /\ Len(List(body, 2)) \in Nat
  BY <1>1, RawIs, NameListIs DEF FirstIsHost
<1>3. Remaining(cur) > 0 <=> Len(List(body, 2)) > Claimed(body) + 3
  BY <1>1, <1>2 DEF Remaining
<1>4. Number(cur, 1) = List(body, 2)[Claimed(body) + 4]
  <2>1. cur.pos + 1 = Claimed(body) + 4
    BY <1>1, <1>2
  <2>2. QED
    BY <1>1, <2>1 DEF Number
<1>5. QED
  BY <1>3, <1>4 DEF SecondName, SecondIsHost

\* Without a first host name that can be read, a body names no host.
LEMMA NoneNamed ==
    ASSUME NEW b \in Seq(Byte), ~FirstIsHost(b) \/ SecondIsHost(b) \/ ~IsUtf8(NameBytes(b))
    PROVE  HostsNamed(b) = {}
<1>1. \A h : h \notin HostsNamed(b)
  BY HostsNamedIs
<1>2. QED
  BY <1>1

\* The list of names, kept by every read of it.
LEMMA NameKept ==
    ASSUME BodyInv, NameInv, [Next]_vars
    PROVE  NameInv'
<1>0. kind' = kind /\ body' = body /\ body \in Seq(Byte) /\ cur \in Cursors
  BY TypeParts DEF BodyInv, Next, ParseStep, ReadName, RejectList, ReadList, CopyFormats, ReadEntry,
         RejectEntry, Finish, ReadLimit, RejectLimit, RejectNameList, ReadNameList, SkipOtherType,
         RejectHostLength, SkipNotUtf8, ReadHost, RejectHost, AcceptHost, Refuse, input, vars
<1>1. SUFFICES ASSUME kind = "server_name"
               PROVE  /\ at' = "type" => Len(List(body, 2)) >= 3
                      /\ at' \in {"host", "some"} => NameHeld'
                      /\ at' = "some" => Usable(out') /\ ~SecondName'
                      /\ at' \in {"none", "skip"} => HostsNamed(body) = {}
  BY <1>0 DEF NameInv
<1>2. CASE RejectNameList
  <2>1. cur = CursorOn(body) /\ ~GoodNameList /\ at' = "none"
    BY <1>2 DEF RejectNameList, Refuse, BodyInv
  <2>2. ~FirstIsHost(body)
    <3>1. SUFFICES ASSUME HasList(body, 2), Len(List(body, 2)) >= 3 PROVE FALSE
      BY DEF FirstIsHost
    <3>2. Len(List(body, 2)) = Number(cur, 2) /\ PrefixFits(cur, 2)
      BY <1>0, <2>1, <3>1, NameListIs DEF HasList
    <3>3. QED
      BY <2>1, <3>1, <3>2 DEF GoodNameList
  <2>3. QED
    BY <1>0, <2>1, <2>2, NoneNamed
<1>3. CASE ReadNameList
  <2>1. cur = CursorOn(body) /\ PrefixFits(cur, 2) /\ Number(cur, 2) >= 3 /\ at' = "type"
    BY <1>3 DEF ReadNameList, GoodNameList, BodyInv
  <2>2. HasList(body, 2)
    BY <2>1 DEF HasList
  <2>3. QED
    BY <1>0, <2>1, <2>2, NameListIs
<1>4. CASE SkipOtherType
  <2>1. at = "type" /\ Number(cur, 1) # HostName /\ at' = "skip"
    BY <1>4 DEF SkipOtherType
  <2>2. ~FirstIsHost(body)
    BY <2>1, TypeIs DEF FirstIsHost
  <2>3. QED
    BY <1>0, <2>1, <2>2, NoneNamed
<1>5. CASE RejectHostLength
  <2>1. Typed /\ ~PrefixFits(Skip(cur, 1), 2) /\ at' = "none"
    BY <1>5 DEF RejectHostLength, Refuse
  <2>2. QED
    BY <1>0, <2>1, NameIsRead, NoneNamed
<1>6. CASE SkipNotUtf8
  <2>1. /\ Typed /\ PrefixFits(Skip(cur, 1), 2) /\ ~IsUtf8(Prefixed(Skip(cur, 1), 2))
        /\ at' = "skip"
    BY <1>6 DEF SkipNotUtf8
  <2>2. QED
    BY <1>0, <2>1, NameIsRead, NoneNamed
<1>7. CASE ReadHost
  <2>1. /\ Typed /\ PrefixFits(Skip(cur, 1), 2) /\ IsUtf8(Prefixed(Skip(cur, 1), 2))
        /\ out' = StripDot(Prefixed(Skip(cur, 1), 2))
        /\ cur' = AfterPrefixed(Skip(cur, 1), 2) /\ at' = "host"
    BY <1>7 DEF ReadHost
  <2>2. NameHeld'
    BY <1>0, <2>1, NameIsRead DEF NameHeld
  <2>3. QED
    BY <2>1, <2>2
<1>8. CASE RejectHost
  <2>1. /\ at = "host" /\ (~Usable(out) \/ SecondName) /\ at' = "none"
        /\ NameHeld
    BY <1>1, <1>8 DEF RejectHost, Refuse, NameInv
  <2>2. NameBytes(body) \in Seq(Byte) /\ out = StripDot(NameBytes(body))
    BY <1>0, <2>1, RawIs DEF NameHeld
  <2>3. Usable(out) <=> Hostname(out)
    BY <2>2, StripIs, UsableIsHostname
  <2>4. \A h : h \notin HostsNamed(body)
    BY <1>0, <2>1, <2>2, <2>3, HostsNamedIs, SecondIs
  <2>5. QED
    BY <2>1, <2>4
<1>9. CASE AcceptHost \/ UNCHANGED vars
  <2>1. /\ cur' = cur /\ out' = out
        /\ at' = at \/ (at = "host" /\ at' = "some" /\ Usable(out) /\ ~SecondName)
    BY <1>9 DEF AcceptHost, vars
  <2>2. (NameHeld' <=> NameHeld) /\ (SecondName' <=> SecondName)
    BY <1>0, <2>1 DEF NameHeld, SecondName
  <2>3. QED
    BY <1>1, <2>1, <2>2 DEF NameInv
<1>10. ~(\/ RejectList \/ ReadList \/ CopyFormats \/ ReadEntry \/ RejectEntry \/ Finish
         \/ ReadLimit \/ RejectLimit)
  <2>1. kind \notin ListKinds /\ kind # "limit" /\ kind # "points" /\ kind \notin WalkedKinds
    BY <1>1 DEF ListKinds, WalkedKinds, PairKinds
  <2>2. QED
    BY <2>1 DEF RejectList, ReadList, CopyFormats, ReadEntry, RejectEntry, Finish,
       ReadLimit, RejectLimit, Walking, BodyInv
<1>11. QED
  BY <1>2, <1>3, <1>4, <1>5, <1>6, <1>7, <1>8, <1>9, <1>10 DEF Next, ParseStep, ReadName

\* An answer is what the body means.
LEMMA NameHasMeaning ==
    ASSUME BodyInv, NameInv
    PROVE  HostIsMeaning
<1>1. SUFFICES ASSUME Answered, kind = "server_name"
               PROVE  /\ at = "some" <=> HostsNamed(body) # {}
                      /\ at = "some" =>
                          /\ out \in HostsNamed(body)
                          /\ IsIdnHost(out) <=> \E x, y \in 0..Len(out) : IdnLabel(out, x, y)
  BY DEF HostIsMeaning
<1>2. body \in Seq(Byte)
  BY TypeParts DEF BodyInv
<1>3. CASE at = "some"
  <2>1. NameHeld /\ Usable(out) /\ ~SecondName
    BY <1>1, <1>3 DEF NameInv
  <2>2. FirstIsHost(body) /\ IsUtf8(NameBytes(body)) /\ out = StripDot(NameBytes(body))
    BY <2>1 DEF NameHeld
  <2>3. out \in Seq(Byte)
    BY <1>2, <2>2, RawIs, StripIs
  <2>4. Hostname(out) /\ ~SecondIsHost(body)
    BY <2>1, <2>3, UsableIsHostname, SecondIs
  <2>5. out \in HostsNamed(body)
    BY <1>2, <2>2, <2>4, HostsNamedIs
  <2>6. IsIdnHost(out) <=> \E x, y \in 0..Len(out) : IdnLabel(out, x, y)
    BY <2>3, IdnIsLabel
  <2>7. QED
    BY <1>3, <2>5, <2>6
<1>4. CASE at \in {"none", "skip"}
  BY <1>1, <1>4 DEF NameInv
<1>5. QED
  BY <1>1, <1>3, <1>4 DEF Answered

--------------------------------------------------------------------------------
\* And whenever parse_extensions calls a parser: this is where its next one starts.
LEMMA CallStarts ==
    ASSUME NEW k \in Kinds, NEW b \in Seq(Byte), Call(k, b)
    PROVE  BodyInv' /\ ListInv' /\ NameInv'
<1>1. /\ kind' = k /\ body' = b /\ cur' = CursorOn(b) /\ at' = "start" /\ out' = <<>>
  BY DEF Call
<1>2. TypeOK'
  BY <1>1, CursorOnIs, TypePartsNext DEF States
<1>3. QED
  BY <1>1, <1>2 DEF BodyInv, PairInv, HostInv, ListInv, NameInv

\* The pairs read, all of them, are the pairs of the list.
LEMMA PairsHaveMeaning == BodyInv => PairsVerbatim
<1> SUFFICES ASSUME BodyInv, kind \in PairKinds, at = "some" PROVE PairsVerbatim
  BY DEF PairsVerbatim
<1>1. PairsSoFar /\ cur.pos = Len(cur.bytes)
  BY DEF BodyInv, PairInv
<1>2. QED
  BY <1>1 DEF PairsSoFar, PairsVerbatim

--------------------------------------------------------------------------------
\* In every state of every parser of a body.
THEOREM BodyInvariant == Spec => []BodyInv
<1>1. BodyInv /\ [Next]_vars => BodyInv'
  BY BodyStep
<1>2. QED
  BY <1>1, BodyStart, PTL DEF Spec

\* No parser reads outside its slice: the cursor stays within the bytes.
THEOREM CursorInBounds == Spec => []TypeOK
<1>1. BodyInv => TypeOK
  BY DEF BodyInv
<1>2. QED
  BY <1>1, BodyInvariant, PTL

\* A list of codepoints is answered with every pair, verbatim and in wire order.
THEOREM PairsAreVerbatim == Spec => []PairsVerbatim
BY PairsHaveMeaning, BodyInvariant, PTL

\* A host is reported as the bytes of the wire (H6), but for one dot at its end.
THEOREM HostIsOnTheWire == Spec => []HostOnTheWire
<1>1. BodyInv => HostOnTheWire
  BY DEF BodyInv, HostInv, HostRead, HostOnTheWire
<1>2. QED
  BY <1>1, BodyInvariant, PTL

\* A list is taken exactly when it falls into entries from end to end, and answered
\* with those entries in wire order.
THEOREM ListsHaveMeaning == Spec => []ListIsMeaning
<1>1. Init => ListInv
  BY DEF Init, ListInv
<1>2. BodyInv /\ ListInv /\ [Next]_vars => ListInv'
  BY ListKept
<1>3. BodyInv /\ ListInv => ListIsMeaning
  BY ListHasMeaning
<1>4. QED
  BY <1>1, <1>2, <1>3, BodyInvariant, PTL DEF Spec

\* A host is reported exactly when the body names one that is a host name by the
\* limits, and is_idn_host sees every label of it.
THEOREM HostsHaveMeaning == Spec => []HostIsMeaning
<1>1. Init => NameInv
  BY DEF Init, NameInv
<1>2. BodyInv /\ NameInv /\ [Next]_vars => NameInv'
  BY NameKept
<1>3. BodyInv /\ NameInv => HostIsMeaning
  BY NameHasMeaning
<1>4. QED
  BY <1>1, <1>2, <1>3, BodyInvariant, PTL DEF Spec

--------------------------------------------------------------------------------
(* The extensions of a block. *)

\* A cursor at byte k of a block and the block itself agree on the extension there.
LEMMA ExtensionIs ==
    ASSUME NEW c \in Cursors
    PROVE  /\ ExtensionFits(c.bytes, c.pos) <=> Fits(c, 4) /\ PrefixFits(Skip(c, 2), 2)
           /\ Fits(c, 4) => Number(c, 2) = TypeAt(c.bytes, c.pos) /\ Number(c, 2) \in Nat
           /\ ExtensionFits(c.bytes, c.pos) =>
                /\ AfterPrefixed(Skip(c, 2), 2) \in Cursors
                /\ AfterPrefixed(Skip(c, 2), 2).bytes = c.bytes
                /\ AfterPrefixed(Skip(c, 2), 2).pos = NextStart(c.bytes, c.pos)
                /\ NextStart(c.bytes, c.pos) \in (c.pos + 4)..Len(c.bytes)
                /\ Prefixed(Skip(c, 2), 2) = DataAt(c.bytes, c.pos)
                /\ DataAt(c.bytes, c.pos) \in Seq(Byte)
<1>1. Len(c.bytes) \in Nat /\ c.pos \in Nat /\ c.bytes \in Seq(Byte)
  BY LenProperties DEF Cursors
<1>2. ExtensionFits(c.bytes, c.pos) <=> Fits(c, 4) /\ PrefixFits(Skip(c, 2), 2)
  BY CursorAt DEF ExtensionFits
<1>3. ASSUME Fits(c, 4)
      PROVE  /\ Number(c, 2) = TypeAt(c.bytes, c.pos) /\ Number(c, 2) \in Nat
             /\ Fits(c, 2)
  <2>1. Fits(c, 2)
    BY <1>1, <1>3 DEF Fits, Remaining
  <2>2. QED
    BY <2>1, NumberIs DEF TypeAt
<1>4. ASSUME Fits(c, 4), PrefixFits(Skip(c, 2), 2)
      PROVE  /\ AfterPrefixed(Skip(c, 2), 2) \in Cursors
             /\ AfterPrefixed(Skip(c, 2), 2).bytes = c.bytes
             /\ AfterPrefixed(Skip(c, 2), 2).pos = NextStart(c.bytes, c.pos)
             /\ NextStart(c.bytes, c.pos) \in (c.pos + 4)..Len(c.bytes)
             /\ Prefixed(Skip(c, 2), 2) = DataAt(c.bytes, c.pos)
             /\ DataAt(c.bytes, c.pos) \in Seq(Byte)
  <2> DEFINE l == Skip(c, 2)
             n == Number(l, 2)
             after == AfterPrefixed(l, 2)
             next == NextStart(c.bytes, c.pos)
  <2>1. l \in Cursors /\ l.bytes = c.bytes /\ l.pos = c.pos + 2 /\ PrefixFits(l, 2)
    BY <1>3, <1>4, SkipIs
  <2> HIDE DEF l
  <2>2. /\ n \in Nat /\ after \in Cursors /\ after.bytes = c.bytes /\ after.pos = l.pos + 2 + n
        /\ Prefixed(l, 2) \in Seq(Byte) /\ Len(Prefixed(l, 2)) = n
        /\ \A k \in 1..n : Prefixed(l, 2)[k] = l.bytes[l.pos + 2 + k]
    BY <2>1, PrefixedIs, AfterPrefixedIs
  <2>3. n = 256 * c.bytes[c.pos + 3] + c.bytes[c.pos + 4]
    <3>1. Fits(l, 2) /\ l.pos + 1 = c.pos + 3 /\ l.pos + 2 = c.pos + 4
      BY <1>1, <2>1 DEF PrefixFits
    <3>2. Number(l, 2) = 256 * l.bytes[l.pos + 1] + l.bytes[l.pos + 2]
      BY <2>1, <3>1, NumberIs
    <3>3. QED
      BY <2>1, <3>1, <3>2
  <2>4. next = c.pos + 4 + n
    <3>1. Fits(l, 2) /\ c.bytes[c.pos + 3] \in Byte /\ c.bytes[c.pos + 4] \in Byte
      <4>1. Fits(l, 2) /\ c.pos + 3 \in 1..Len(c.bytes) /\ c.pos + 4 \in 1..Len(c.bytes)
        BY <1>1, <1>4, <2>1 DEF PrefixFits, Fits, Remaining
      <4>2. QED
        BY <1>1, <4>1, ElementOfSeq
    <3>2. \A p, x, y \in Nat : p + 4 + 256 * x + y = p + 4 + (256 * x + y)
      OBVIOUS
    <3>3. \A x \in Byte : x \in Nat
      BY DEF Byte
    <3>4. PICK x \in Nat, y \in Nat : x = c.bytes[c.pos + 3] /\ y = c.bytes[c.pos + 4]
      BY <3>1, <3>3
    <3>5. next = c.pos + 4 + 256 * x + y
      BY <3>4 DEF NextStart
    <3>6. n = 256 * x + y
      BY <2>3, <3>4
    <3>7. QED
      BY <1>1, <3>2, <3>5, <3>6
  <2> HIDE DEF n, after, next
  <2>5. after.pos = next /\ next \in (c.pos + 4)..Len(c.bytes)
    <3>1. after.pos <= Len(c.bytes) /\ after.pos = next
      BY <1>1, <2>1, <2>2, <2>4 DEF Cursors
    <3>2. QED
      BY <1>1, <2>2, <2>4, <3>1
  <2>6. DataAt(c.bytes, c.pos) = SubSeq(c.bytes, c.pos + 5, c.pos + 4 + n)
    BY <2>4 DEF DataAt, next
  <2>7. Prefixed(l, 2) = SubSeq(c.bytes, c.pos + 5, c.pos + 4 + n)
    <3>1. /\ Prefixed(l, 2) = SubSeq(Skip(l, 2).bytes, Skip(l, 2).pos + 1, Skip(l, 2).pos + n)
      BY DEF Prefixed, Slice, n
    <3>2. Fits(l, 2)
      BY <2>1 DEF PrefixFits
    <3>3. Skip(l, 2).bytes = c.bytes /\ Skip(l, 2).pos = c.pos + 4
      BY <1>1, <2>1, <3>2, SkipIs
    <3>4. Skip(l, 2).pos + 1 = c.pos + 5
      BY <1>1, <3>3
    <3>5. QED
      BY <3>1, <3>3, <3>4
  <2>8. QED
    BY <2>2, <2>5, <2>6, <2>7 DEF l, after, next
<1>5. QED
  BY <1>2, <1>3, <1>4

\* So the next extension stands further on, within the block.
LEMMA NextStartIs ==
    ASSUME NEW bytes \in Seq(Byte), NEW k \in 0..Len(bytes), ExtensionFits(bytes, k)
    PROVE  NextStart(bytes, k) \in Nat /\ k < NextStart(bytes, k) /\ NextStart(bytes, k) <= Len(bytes)
<1>1. Len(bytes) \in Nat
  BY LenProperties
<1> DEFINE c == [bytes |-> bytes, pos |-> k]
<1>2. c \in Cursors /\ c.bytes = bytes /\ c.pos = k
  BY <1>1 DEF Cursors
<1> HIDE DEF c
<1>3. NextStart(bytes, k) \in (k + 4)..Len(bytes)
  BY <1>2, ExtensionIs
<1>4. QED
  BY <1>1, <1>3

\* The starts from byte k on, by those from further on, of the function f.
Step(bytes, f, k) ==
    IF ExtensionFits(bytes, k) THEN <<k>> \o f[NextStart(bytes, k)] ELSE <<k>>

\* What Starts calls.
From(bytes) == CHOOSE f : f = [k \in 0..Len(bytes) |-> Step(bytes, f, k)]

\* Starts is that function's value for the first byte.
LEMMA StartsAreFrom == ASSUME NEW bytes PROVE Starts(bytes) = From(bytes)[0]
<1>1. Starts(bytes) =
        (CHOOSE f : f = [k \in 0..Len(bytes) |->
            IF ExtensionFits(bytes, k) THEN <<k>> \o f[NextStart(bytes, k)] ELSE <<k>>])[0]
  BY Zenon DEF Starts
<1>2. QED
  BY <1>1, Zenon DEF From, Step

\* There is such a function, as every extension ends further on.
LEMMA FromIs ==
    ASSUME NEW bytes \in Seq(Byte)
    PROVE  From(bytes) = [k \in 0..Len(bytes) |-> Step(bytes, From(bytes), k)]
<1> DEFINE N == Len(bytes)
           Is(j, f) == f = [k \in j..N |-> Step(bytes, f, k)]
           known == { j \in 0..(N + 1) : \E f : Is(j, f) }
<1>1. N \in Nat
  BY LenProperties
<1>2. N + 1 \in known
  <2>1. (N + 1)..N = {}
    BY <1>1
  <2>2. Is(N + 1, [k \in (N + 1)..N |-> 0])
    BY <2>1
  <2>3. QED
    BY <1>1, <2>2
<1>3. PICK j \in known : \A k \in known : j <= k
  <2>1. known \subseteq Nat /\ known # {}
    BY <1>1, <1>2
  <2> HIDE DEF known
  <2>2. QED
    BY <2>1, LeastNatural
<1>4. PICK f : Is(j, f)
  BY <1>3
<1>5. ASSUME j # 0
      PROVE  FALSE
  <2> DEFINE g == [k \in (j - 1)..N |-> IF k = j - 1 THEN Step(bytes, f, k) ELSE f[k]]
  <2>1. j \in 1..(N + 1) /\ j - 1 \in 0..(N + 1) /\ j - 1 \in Nat
    BY <1>1, <1>3, <1>5
  <2>2. DOMAIN g = (j - 1)..N /\ \A k \in j..N : g[k] = f[k]
    BY <1>1, <2>1
  <2>3. ASSUME NEW k \in (j - 1)..N
        PROVE  g[k] = Step(bytes, g, k)
    <3>1. k \in 0..Len(bytes)
      BY <1>1, <2>1
    <3>2. ExtensionFits(bytes, k) => NextStart(bytes, k) \in j..N
      BY <1>1, <2>1, <3>1, NextStartIs
    <3>3. ExtensionFits(bytes, k) => g[NextStart(bytes, k)] = f[NextStart(bytes, k)]
      BY <2>2, <3>2
    <3>4. Step(bytes, g, k) = Step(bytes, f, k)
      <4> HIDE DEF g
      <4>1. QED
        BY <3>3, Zenon DEF Step
    <3>5. CASE k = j - 1
      BY <3>4, <3>5
    <3>6. CASE k \in j..N
      <4>1. f[k] = Step(bytes, f, k)
        BY <1>4, <3>6
      <4>2. QED
        BY <2>2, <3>4, <3>6, <4>1
    <3>7. QED
      BY <1>1, <2>1, <3>5, <3>6
  <2>4. g = [k \in (j - 1)..N |-> g[k]]
    OBVIOUS
  <2> HIDE DEF g
  <2>5. Is(j - 1, g)
    BY <2>3, <2>4
  <2>6. j - 1 \in known
    BY <2>1, <2>5
  <2>7. QED
    BY <1>3, <2>1, <2>6
<1>6. f = [k \in 0..N |-> Step(bytes, f, k)]
  BY <1>4, <1>5
<1>7. QED
  BY <1>6, Zenon DEF From

\* s is where the extensions from byte k on start.
StartsOn(bytes, k, s) ==
    /\ s \in Seq(0..Len(bytes)) /\ Len(s) \in Nat \ {0} /\ s[1] = k
    /\ \A n \in 1..(Len(s) - 1) :
        ExtensionFits(bytes, s[n]) /\ s[n + 1] = NextStart(bytes, s[n])
    /\ ~ExtensionFits(bytes, s[Len(s)])

\* With an extension at k, the starts are k and those from where it ends.
LEMMA StartsAdded ==
    ASSUME NEW bytes \in Seq(Byte), NEW k \in 0..Len(bytes), ExtensionFits(bytes, k),
           NEW s, StartsOn(bytes, NextStart(bytes, k), s)
    PROVE  StartsOn(bytes, k, <<k>> \o s)
<1> DEFINE t == <<k>> \o s
<1>1. /\ <<k>> \in Seq(0..Len(bytes)) /\ Len(<<k>>) = 1 /\ <<k>>[1] = k
      /\ s \in Seq(0..Len(bytes)) /\ Len(s) \in Nat \ {0} /\ s[1] = NextStart(bytes, k)
  BY DEF StartsOn
<1>2. /\ t \in Seq(0..Len(bytes)) /\ Len(t) = Len(s) + 1
      /\ \A n \in 1..(1 + Len(s)) : t[n] = IF n <= 1 THEN <<k>>[n] ELSE s[n - 1]
  BY <1>1, ConcatProperties
<1> HIDE DEF t
<1>3. t[1] = k /\ \A n \in 1..Len(s) : t[n + 1] = s[n]
  <2>1. t[1] = k
    BY <1>1, <1>2
  <2>2. ASSUME NEW n \in 1..Len(s)
        PROVE  t[n + 1] = s[n]
    <3>1. n + 1 \in 1..(1 + Len(s)) /\ ~(n + 1 <= 1) /\ (n + 1) - 1 = n
      BY <1>1
    <3>2. QED
      BY <1>2, <3>1
  <2>3. QED
    BY <2>1, <2>2
<1>4. ASSUME NEW n \in 1..(Len(t) - 1)
      PROVE  ExtensionFits(bytes, t[n]) /\ t[n + 1] = NextStart(bytes, t[n])
  <2>1. CASE n = 1
    <3>1. t[n] = k /\ t[n + 1] = s[1]
      BY <1>1, <1>3, <2>1
    <3>2. QED
      BY <1>1, <3>1
  <2>2. CASE n # 1
    <3>1. n - 1 \in 1..(Len(s) - 1) /\ n - 1 \in 1..Len(s) /\ n \in 1..Len(s) /\ (n - 1) + 1 = n
      BY <1>1, <1>2, <2>2
    <3>2. t[n] = s[n - 1] /\ t[n + 1] = s[n]
      BY <1>3, <3>1
    <3>3. ExtensionFits(bytes, s[n - 1]) /\ s[n] = NextStart(bytes, s[n - 1])
      BY <3>1 DEF StartsOn
    <3>4. QED
      BY <3>2, <3>3
  <2>3. QED
    BY <2>1, <2>2
<1>5. ~ExtensionFits(bytes, t[Len(t)])
  <2>1. Len(s) \in 1..Len(s) /\ t[Len(t)] = t[Len(s) + 1]
    BY <1>1, <1>2
  <2>2. t[Len(t)] = s[Len(s)]
    BY <1>3, <2>1
  <2>3. QED
    BY <2>2 DEF StartsOn
<1>6. QED
  BY <1>1, <1>2, <1>3, <1>4, <1>5 DEF StartsOn, t

\* The starts of a block, from its first byte on.
LEMMA StartsAre ==
    ASSUME NEW bytes \in Seq(Byte)
    PROVE  StartsOn(bytes, 0, Starts(bytes))
<1> DEFINE N == Len(bytes)
           f == From(bytes)
           known == { j \in 0..(N + 1) : \A k \in j..N : StartsOn(bytes, k, f[k]) }
<1>1. N \in Nat
  BY LenProperties
<1>2. f = [k \in 0..N |-> Step(bytes, f, k)]
  BY FromIs
<1> HIDE DEF f
<1>3. N + 1 \in known
  <2>1. (N + 1)..N = {}
    BY <1>1
  <2>2. QED
    BY <1>1, <2>1
<1>4. PICK j \in known : \A k \in known : j <= k
  <2>1. known \subseteq Nat /\ known # {}
    BY <1>1, <1>3
  <2> HIDE DEF known
  <2>2. QED
    BY <2>1, LeastNatural
<1>5. ASSUME j # 0
      PROVE  FALSE
  <2>1. j \in 1..(N + 1) /\ j - 1 \in 0..N /\ j - 1 \in 0..(N + 1) /\ j - 1 \in Nat
    BY <1>1, <1>4, <1>5
  <2> DEFINE k == j - 1
  <2>2. f[k] = Step(bytes, f, k)
    BY <1>2, <2>1
  <2>3. ASSUME ExtensionFits(bytes, k)
        PROVE  StartsOn(bytes, k, f[k])
    <3>1. NextStart(bytes, k) \in j..N
      BY <1>1, <2>1, <2>3, NextStartIs
    <3>2. StartsOn(bytes, NextStart(bytes, k), f[NextStart(bytes, k)])
      BY <1>4, <3>1
    <3>3. f[k] = <<k>> \o f[NextStart(bytes, k)]
      BY <2>2, <2>3 DEF Step
    <3> HIDE DEF k
    <3>4. QED
      BY <2>1, <2>3, <3>2, <3>3, StartsAdded DEF k
  <2>4. ASSUME ~ExtensionFits(bytes, k)
        PROVE  StartsOn(bytes, k, f[k])
    <3>1. f[k] = <<k>>
      BY <2>2, <2>4 DEF Step
    <3>2. <<k>> \in Seq(0..N) /\ Len(<<k>>) = 1 /\ <<k>>[1] = k
      BY <2>1
    <3> HIDE DEF k
    <3>3. StartsOn(bytes, k, <<k>>)
      BY <2>4, <3>2 DEF StartsOn
    <3>4. QED
      BY <3>1, <3>3
  <2>5. \A i \in (j - 1)..N : StartsOn(bytes, i, f[i])
    <3>1. \A i \in (j - 1)..N : i = k \/ i \in j..N
      BY <1>1, <2>1
    <3>2. StartsOn(bytes, k, f[k])
      BY <2>3, <2>4
    <3> HIDE DEF k
    <3>3. QED
      BY <1>4, <3>1, <3>2
  <2>6. j - 1 \in known
    BY <2>1, <2>5
  <2>7. QED
    BY <1>4, <2>1, <2>6
<1>6. 0 \in 0..N
  BY <1>1
<1>7. QED
  BY <1>4, <1>5, <1>6, StartsAreFrom DEF f

--------------------------------------------------------------------------------
(* The answer of a parser, and the verdict on the body. *)

\* Format lists, limits and names: what is taken, refused or skipped, and why.
AnswerInv ==
    /\ kind = "points" /\ at = "some" => HasList(body, 1) /\ List(body, 1) # <<>>
    /\ kind = "points" /\ at = "none" => ~(HasList(body, 1) /\ List(body, 1) # <<>>)
    /\ kind = "limit" /\ at = "some" =>
        Len(body) = 2 /\ 256 * body[1] + body[2] \in MinLimit..MaxLimit
    /\ kind = "limit" /\ at = "none" =>
        ~(Len(body) = 2 /\ 256 * body[1] + body[2] \in MinLimit..MaxLimit)
    /\ kind = "server_name" /\ at = "skip" => NamesOther(body)
    /\ kind = "server_name" /\ at = "none" => ~NamesOther(body)
    /\ kind \in {"points", "limit"} => at \notin {"entries", "type", "host", "skip"}

\* What is read of a name that is of another type or is no text.
LEMMA NamesOtherIs ==
    ASSUME NEW b
    PROVE  NamesOther(b) <=>
             /\ HasList(b, 2) /\ Len(List(b, 2)) >= 3
             /\ \/ List(b, 2)[1] # HostName
                \/ Claimed(b) + 3 <= Len(List(b, 2)) /\ ~IsUtf8(NameBytes(b))
BY Zenon DEF NamesOther, Claimed, NameBytes

\* The number at the start of a body is that of its first two bytes.
LEMMA LimitIs == ASSUME NEW b PROVE Number(CursorOn(b), 2) = 256 * b[1] + b[2]
BY DEF Number, CursorOn

\* The answers, kept by every read.
LEMMA AnswerKept ==
    ASSUME BodyInv, NameInv, AnswerInv, [Next]_vars
    PROVE  AnswerInv'
<1>0. kind' = kind /\ body' = body /\ body \in Seq(Byte) /\ cur \in Cursors
  BY TypeParts DEF BodyInv, Next, ParseStep, ReadName, RejectList, ReadList, CopyFormats, ReadEntry,
         RejectEntry, Finish, ReadLimit, RejectLimit, RejectNameList, ReadNameList, SkipOtherType,
         RejectHostLength, SkipNotUtf8, ReadHost, RejectHost, AcceptHost, Refuse, input, vars
<1>1. CASE kind = "points"
  <2>1. /\ kind \notin WalkedKinds /\ kind \in ListKinds /\ kind # "limit"
        /\ kind # "server_name" /\ Width = 1
    BY <1>1 DEF ListKinds, WalkedKinds, PairKinds, Width, WidthOf
  <2>2. \/ at' = at
        \/ at = "start" /\ at' = "some" /\ GoodList
        \/ at = "start" /\ at' = "none" /\ ~GoodList
    BY <1>1, <2>1 DEF BodyInv, HostInv, Next, ParseStep, ReadName, RejectList, ReadList, CopyFormats,
         ReadEntry, RejectEntry, Finish, ReadLimit, RejectLimit, RejectNameList, ReadNameList,
         SkipOtherType, RejectHostLength, SkipNotUtf8, ReadHost, RejectHost, AcceptHost, Refuse,
         Typed, Walking, input, vars
  <2>3. at = "start" => (GoodList <=> HasList(body, 1) /\ List(body, 1) # <<>>)
    BY <1>1, <2>1 DEF GoodList, HasList, List, BodyInv, PairKinds
  <2>4. at' \notin {"entries", "type", "host", "skip"}
    BY <1>1, <2>2 DEF AnswerInv
  <2>5. QED
    BY <1>0, <1>1, <2>2, <2>3, <2>4 DEF AnswerInv
<1>2. CASE kind = "limit"
  <2>1. kind \notin WalkedKinds /\ kind \notin ListKinds /\ kind # "server_name" /\ kind # "points"
    BY <1>2 DEF ListKinds, WalkedKinds, PairKinds
  <2>2. \/ at' = at
        \/ at = "start" /\ at' = "some" /\ GoodLimit
        \/ at = "start" /\ at' = "none" /\ ~GoodLimit
    BY <1>2, <2>1 DEF BodyInv, HostInv, Next, ParseStep, ReadName, RejectList, ReadList, CopyFormats,
         ReadEntry, RejectEntry, Finish, ReadLimit, RejectLimit, RejectNameList, ReadNameList,
         SkipOtherType, RejectHostLength, SkipNotUtf8, ReadHost, RejectHost, AcceptHost, Refuse,
         Typed, Walking, input, vars
  <2>3. at = "start" =>
          (GoodLimit <=> Len(body) = 2 /\ 256 * body[1] + body[2] \in MinLimit..MaxLimit)
    BY LimitIs DEF GoodLimit, BodyInv
  <2>4. at' \notin {"entries", "type", "host", "skip"}
    BY <1>2, <2>2 DEF AnswerInv
  <2>5. QED
    BY <1>0, <1>2, <2>2, <2>3, <2>4 DEF AnswerInv
<1>3. CASE kind = "server_name"
  <2>0. SUFFICES (at' = "skip" => NamesOther(body)) /\ (at' = "none" => ~NamesOther(body))
    BY <1>0, <1>3 DEF AnswerInv
  <2>1. CASE RejectNameList
    <3>1. cur = CursorOn(body) /\ ~GoodNameList /\ at' = "none"
      BY <2>1 DEF RejectNameList, Refuse, BodyInv
    <3>2. ~(HasList(body, 2) /\ Len(List(body, 2)) >= 3)
      BY <1>0, <3>1, NameListIs DEF GoodNameList, HasList
    <3>3. QED
      BY <3>1, <3>2, NamesOtherIs
  <2>2. CASE SkipOtherType
    <3>1. at = "type" /\ Number(cur, 1) # HostName /\ at' = "skip"
      BY <2>2 DEF SkipOtherType
    <3>2. QED
      BY <3>1, TypeIs, NamesOtherIs
  <2>3. CASE RejectHostLength \/ SkipNotUtf8
    <3>1. Typed /\ at = "type" /\ Number(cur, 1) = HostName
      BY <2>3 DEF RejectHostLength, SkipNotUtf8, Typed
    <3>2. HasList(body, 2) /\ Len(List(body, 2)) >= 3 /\ List(body, 2)[1] = HostName
      BY <3>1, TypeIs
    <3>3. PrefixFits(Skip(cur, 1), 2) <=> Claimed(body) + 3 <= Len(List(body, 2))
      BY <3>1, <3>2, NameIsRead DEF FirstIsHost
    <3>4. CASE RejectHostLength
      BY <3>2, <3>3, <3>4, NamesOtherIs DEF RejectHostLength, Refuse
    <3>5. CASE SkipNotUtf8
      <4>1. PrefixFits(Skip(cur, 1), 2) /\ ~IsUtf8(Prefixed(Skip(cur, 1), 2)) /\ at' = "skip"
        BY <3>5 DEF SkipNotUtf8
      <4>2. Prefixed(Skip(cur, 1), 2) = NameBytes(body)
        BY <3>1, <4>1, NameIsRead
      <4>3. QED
        BY <3>2, <3>3, <4>1, <4>2, NamesOtherIs
    <3>6. QED
      BY <2>3, <3>4, <3>5
  <2>4. CASE RejectHost
    <3>1. at = "host" /\ at' = "none" /\ NameHeld
      BY <1>3, <2>4 DEF RejectHost, Refuse, NameInv
    <3>2. QED
      BY <3>1, NamesOtherIs DEF NameHeld, FirstIsHost
  <2>5. CASE ReadNameList \/ ReadHost \/ AcceptHost \/ UNCHANGED vars
    BY <1>0, <1>3, <2>5 DEF ReadNameList, ReadHost, AcceptHost, vars, AnswerInv
  <2>6. ~(\/ RejectList \/ ReadList \/ CopyFormats \/ ReadEntry \/ RejectEntry \/ Finish
          \/ ReadLimit \/ RejectLimit)
    <3>1. kind \notin ListKinds /\ kind # "limit" /\ kind # "points" /\ kind \notin WalkedKinds
      BY <1>3 DEF ListKinds, WalkedKinds, PairKinds
    <3>2. QED
      BY <3>1 DEF RejectList, ReadList, CopyFormats, ReadEntry, RejectEntry, Finish,
         ReadLimit, RejectLimit, Walking, BodyInv
  <2>7. QED
    BY <2>1, <2>2, <2>3, <2>4, <2>5, <2>6 DEF Next, ParseStep, ReadName
<1>4. CASE kind \notin {"points", "limit", "server_name"}
  BY <1>0, <1>4 DEF AnswerInv
<1>5. QED
  BY <1>1, <1>2, <1>3, <1>4

\* The answer that a parser gives is the verdict on its body.
LEMMA AnswerIsVerdict ==
    ASSUME BodyInv, ListInv, NameInv, AnswerInv, kind # None
    PROVE  /\ at = "some" /\ kind # "server_name" => Verdict(kind, body) = "ok"
           /\ at = "some" /\ kind = "server_name" =>
                Verdict(kind, body) = Opaque(out) /\ out \in HostsNamed(body)
           /\ at = "none" => Verdict(kind, body) = "bad"
           /\ at = "skip" => Verdict(kind, body) = "skip" /\ kind = "server_name"
<1>1. ListIsMeaning /\ HostIsMeaning /\ kind \in Kinds /\ body \in Seq(Byte)
  BY ListHasMeaning, NameHasMeaning, TypeParts DEF BodyInv
<1>2. CASE kind \in WalkedKinds
  <2>1. kind \notin {"points", "limit", "server_name"}
    BY <1>2 DEF WalkedKinds, PairKinds
  <2>2. Verdict(kind, body) = IF Cuts(kind, body) # {} THEN "ok" ELSE "bad"
    BY <1>2, <2>1, Zenon DEF Verdict, Taken
  <2>3. (at = "some" => Cuts(kind, body) # {}) /\ (at = "none" => Cuts(kind, body) = {})
    BY <1>1, <1>2 DEF ListIsMeaning, Answered
  <2>4. at # "skip"
    BY <1>2, <2>1 DEF ListInv
  <2>5. QED
    BY <2>1, <2>2, <2>3, <2>4
<1>3. CASE kind = "points"
  <2>1. kind \notin WalkedKinds
    BY <1>3 DEF WalkedKinds, PairKinds
  <2>2. Verdict(kind, body) = IF HasList(body, 1) /\ List(body, 1) # <<>> THEN "ok" ELSE "bad"
    BY <1>3, <2>1, Zenon DEF Verdict, Taken
  <2>3. QED
    BY <1>3, <2>2 DEF AnswerInv
<1>4. CASE kind = "limit"
  <2>1. kind \notin WalkedKinds
    BY <1>4 DEF WalkedKinds, PairKinds
  <2>2. Verdict(kind, body) =
          IF Len(body) = 2 /\ 256 * body[1] + body[2] \in MinLimit..MaxLimit THEN "ok" ELSE "bad"
    BY <1>4, <2>1, Zenon DEF Verdict, Taken
  <2>3. QED
    BY <1>4, <2>2 DEF AnswerInv
<1>5. CASE kind = "server_name"
  <2>1. kind \notin WalkedKinds
    BY <1>5 DEF WalkedKinds, PairKinds
  <2>2. Verdict(kind, body) =
          IF HostsNamed(body) # {} THEN Opaque(CHOOSE h \in HostsNamed(body) : TRUE)
          ELSE IF NamesOther(body) THEN "skip" ELSE "bad"
    BY <1>5, <2>1, Zenon DEF Verdict
  <2>3. ASSUME at = "some"
        PROVE  Verdict(kind, body) = Opaque(out) /\ out \in HostsNamed(body)
    <3>1. out \in HostsNamed(body)
      BY <1>1, <1>5, <2>3 DEF HostIsMeaning, Answered
    <3>2. \A h \in HostsNamed(body) : h = out
      BY <1>1, <3>1, HostsNamedIs
    <3>3. (CHOOSE h \in HostsNamed(body) : TRUE) = out
      BY <3>1, <3>2
    <3>4. QED
      BY <2>2, <3>1, <3>3
  <2>4. at \in {"none", "skip"} => HostsNamed(body) = {}
    BY <1>5 DEF NameInv
  <2>5. (at = "none" => ~NamesOther(body)) /\ (at = "skip" => NamesOther(body))
    BY <1>5 DEF AnswerInv
  <2>6. QED
    BY <1>5, <2>2, <2>3, <2>4, <2>5
<1>6. QED
  BY <1>1, <1>2, <1>3, <1>4, <1>5 DEF Kinds, ListKinds

\* The code points of the types, as the numbers they are.
LEMMA ExtIs ==
    /\ Ext.server_name = 0 /\ Ext.supported_groups = 10 /\ Ext.ec_point_formats = 11
    /\ Ext.signature_algorithms = 13 /\ Ext.alpn = 16 /\ Ext.record_size_limit = 28
    /\ Ext.pre_shared_key = 41 /\ Ext.supported_versions = 43 /\ Ext.key_share = 51
    /\ Ext.encrypted_client_hello = 65037
BY DEF Ext

\* The fields that the parsers' answers go to.
ListFields == {
    "alpn_protocols", "supported_versions", "key_share_groups", "record_size_limit",
    "signature_algorithms", "supported_groups", "ec_point_formats"}

\* The parser of a type, and the field of its answer.
LEMMA ParserIs ==
    ASSUME NEW t, Parser(t) # None
    PROVE  /\ Parser(t) \in Kinds
           /\ t # Ext.encrypted_client_hello /\ t # Ext.pre_shared_key
           /\ Parser(t) = "server_name" <=> t = Ext.server_name
           /\ Parser(t) # "server_name" => Field(t) \in ListFields
<1>1. CASE t = Ext.server_name
  <2>1. Parser(t) = "server_name"
    BY <1>1, ExtIs DEF Parser
  <2>2. QED
    BY <1>1, <2>1, ExtIs DEF Kinds
<1>2. CASE t = Ext.alpn
  <2>1. Parser(t) = "alpn" /\ Field(t) = "alpn_protocols"
    BY <1>2, ExtIs DEF Parser, Field
  <2>2. QED
    BY <1>2, <2>1, ExtIs DEF Kinds, ListKinds, WalkedKinds, PairKinds, ListFields
<1>3. CASE t = Ext.supported_versions
  <2>1. Parser(t) = "versions" /\ Field(t) = "supported_versions"
    BY <1>3, ExtIs DEF Parser, Field
  <2>2. QED
    BY <1>3, <2>1, ExtIs DEF Kinds, ListKinds, WalkedKinds, PairKinds, ListFields
<1>4. CASE t = Ext.key_share
  <2>1. Parser(t) = "key_share" /\ Field(t) = "key_share_groups"
    BY <1>4, ExtIs DEF Parser, Field
  <2>2. QED
    BY <1>4, <2>1, ExtIs DEF Kinds, ListKinds, WalkedKinds, PairKinds, ListFields
<1>5. CASE t = Ext.record_size_limit
  <2>1. Parser(t) = "limit" /\ Field(t) = "record_size_limit"
    BY <1>5, ExtIs DEF Parser, Field
  <2>2. QED
    BY <1>5, <2>1, ExtIs DEF Kinds, ListKinds, WalkedKinds, PairKinds, ListFields
<1>6. CASE t = Ext.signature_algorithms
  <2>1. Parser(t) = "u16_list" /\ Field(t) = "signature_algorithms"
    BY <1>6, ExtIs DEF Parser, Field
  <2>2. QED
    BY <1>6, <2>1, ExtIs DEF Kinds, ListKinds, WalkedKinds, PairKinds, ListFields
<1>7. CASE t = Ext.supported_groups
  <2>1. Parser(t) = "u16_list" /\ Field(t) = "supported_groups"
    BY <1>7, ExtIs DEF Parser, Field
  <2>2. QED
    BY <1>7, <2>1, ExtIs DEF Kinds, ListKinds, WalkedKinds, PairKinds, ListFields
<1>8. CASE t = Ext.ec_point_formats
  <2>1. Parser(t) = "points" /\ Field(t) = "ec_point_formats"
    BY <1>8, ExtIs DEF Parser, Field
  <2>2. QED
    BY <1>8, <2>1, ExtIs DEF Kinds, ListKinds, WalkedKinds, PairKinds, ListFields
<1>9. ASSUME t # Ext.server_name, t # Ext.alpn, t # Ext.supported_versions, t # Ext.key_share,
             t # Ext.record_size_limit, t # Ext.ec_point_formats,
             t \notin {Ext.signature_algorithms, Ext.supported_groups}
      PROVE  FALSE
  BY <1>9, Zenon DEF Parser
<1>10. QED
  BY <1>1, <1>2, <1>3, <1>4, <1>5, <1>6, <1>7, <1>8, <1>9

--------------------------------------------------------------------------------
(* What parse_handshake_message_full holds between two extensions. *)

MetaFields == {
    "host", "ech_present", "alpn_protocols", "supported_versions", "key_share_groups",
    "psk_present", "early_data_present", "compress_certificate_present", "record_size_limit",
    "signature_algorithms", "supported_groups", "ec_point_formats", "extension_order",
    "cipher_suites"}

\* The metadata is one record all along.
MetaInv ==
    /\ DOMAIN meta = MetaFields
    /\ meta.extension_order \in Seq(Nat)
    /\ meta.psk_present \in BOOLEAN /\ meta.ech_present \in BOOLEAN
    /\ pc # "accepted" => meta.host = None

\* The cursor over the block stands where the next extension starts, and the types
\* behind it are those of the extensions before.
BlockInv ==
    LET starts == Starts(Block(message))
        order == meta.extension_order
    IN  pc \in {"walk", "body"} =>
            /\ block \in [bytes : {Block(message)}, pos : Nat]
            /\ Len(order) < Len(starts) /\ block.pos = starts[Len(order) + 1]
            /\ \A k \in 1..Len(order) : order[k] = TypeAt(Block(message), starts[k])

\* The parser that runs is that of the last extension behind, on its body.
CallInv ==
    LET order == meta.extension_order
    IN  pc = "body" =>
            /\ order # <<>>
            /\ kind = Parser(Called) /\ kind # None
            /\ body = DataAt(Block(message), Starts(Block(message))[Len(order)])
            /\ \A k \in 1..(Len(order) - 1) : order[k] # Called
            /\ ~meta.psk_present
            /\ at # "idle"

HelloInv ==
    /\ message \in Messages
    /\ pc \in {"start", "walk", "body", "accepted", "rejected"}
    /\ pc = "start" => /\ meta = NoExtensions(<<>>) /\ sni_host = None
    /\ MetaInv /\ BlockInv /\ CallInv

\* The fields before the block are within the message, and so is the block.
LEMMA BlockIs ==
    ASSUME NEW m \in Messages
    PROVE  Block(m) \in Seq(Byte)
<1>0. m \in Seq(Byte)
  BY MessagesAssumption
<1>1. CASE ~GoodHello(m)
  BY <1>1 DEF Block
<1>2. CASE GoodHello(m)
  <2>1. CursorOn(m) \in Cursors /\ Fits(CursorOn(m), 4)
    BY <1>0, <1>2, CursorOnIs DEF GoodHello, GoodHeader
  <2>2. AfterHeader(m) \in Cursors /\ Fits(AfterHeader(m), 34)
    BY <1>2, <2>1, SkipIs DEF GoodHello, AfterHeader
  <2>3. SessionId(m) \in Cursors /\ PrefixFits(SessionId(m), 1)
    BY <1>2, <2>2, SkipIs DEF GoodHello, SessionId
  <2>4. Suites(m) \in Cursors /\ PrefixFits(Suites(m), 2)
    BY <1>2, <2>3, PrefixedIs DEF GoodHello, Suites
  <2>5. Compression(m) \in Cursors /\ PrefixFits(Compression(m), 1)
    BY <1>2, <2>4, PrefixedIs DEF GoodHello, Compression
  <2>6. Extensions(m) \in Cursors /\ PrefixFits(Extensions(m), 2)
    BY <1>2, <2>5, PrefixedIs DEF GoodHello, Extensions
  <2>7. QED
    BY <1>2, <2>6, PrefixedIs DEF Block
<1>3. QED
  BY <1>1, <1>2

\* The metadata before the first extension.
LEMMA NoExtensionsIs ==
    ASSUME NEW suites
    PROVE  /\ DOMAIN NoExtensions(suites) = MetaFields
           /\ NoExtensions(suites).extension_order = <<>>
           /\ NoExtensions(suites).psk_present = FALSE
           /\ NoExtensions(suites).ech_present = FALSE
           /\ NoExtensions(suites).host = None
<1> DEFINE hello == [ciphers |-> suites, exts |-> <<>>]
<1>1. hello.exts = <<>> /\ DOMAIN hello.exts = {}
  OBVIOUS
<1> HIDE DEF hello
<1>2. \A type : Has(hello, type) = FALSE
  BY <1>1 DEF Has
<1>3. VisibleHost(hello) = None
  BY <1>2 DEF VisibleHost, Answer
<1>4. [k \in DOMAIN hello.exts |-> hello.exts[k].type] = <<>>
  BY <1>1
<1>5. NoExtensions(suites) = Observe(hello)
  BY DEF NoExtensions, hello
<1>6. DOMAIN Observe(hello) = MetaFields
  BY DEF Observe, MetaFields
<1>7. /\ Observe(hello).extension_order = <<>>
      /\ Observe(hello).psk_present = FALSE /\ Observe(hello).ech_present = FALSE
      /\ Observe(hello).host = None
  BY <1>2, <1>3, <1>4 DEF Observe
<1>8. QED
  BY <1>5, <1>6, <1>7

\* What the walk stands at: the n-th extension, or what is left after the last.
LEMMA WalkStandsAt ==
    ASSUME HelloInv, pc = "walk",
           NEW bytes, bytes = Block(message), NEW s, s = Starts(bytes),
           NEW n, n = Len(meta.extension_order) + 1
    PROVE  /\ bytes \in Seq(Byte) /\ StartsOn(bytes, 0, s) /\ n \in 1..Len(s)
           /\ block \in Cursors /\ block.bytes = bytes /\ block.pos = s[n]
           /\ InLoop <=> Fits(block, 4)
           /\ Fits(block, 4) /\ DataFits <=> n < Len(s)
           /\ Fits(block, 4) => Type = TypeAt(bytes, s[n]) /\ Type \in Nat
           /\ n < Len(s) =>
                /\ Data = DataAt(bytes, s[n]) /\ Data \in Seq(Byte)
                /\ AfterPrefixed(Skip(block, 2), 2) \in [bytes : {bytes}, pos : Nat]
                /\ AfterPrefixed(Skip(block, 2), 2).pos = s[n + 1]
<1>1. bytes \in Seq(Byte) /\ StartsOn(bytes, 0, s)
  BY BlockIs, StartsAre DEF HelloInv
<1>2. /\ s \in Seq(0..Len(bytes)) /\ Len(s) \in Nat \ {0} /\ Len(bytes) \in Nat
      /\ \A k \in 1..(Len(s) - 1) :
          ExtensionFits(bytes, s[k]) /\ s[k + 1] = NextStart(bytes, s[k])
      /\ ~ExtensionFits(bytes, s[Len(s)])
  BY <1>1, LenProperties DEF StartsOn
<1>3. /\ block \in [bytes : {bytes}, pos : Nat]
      /\ n - 1 < Len(s) /\ n \in Nat \ {0} /\ block.pos = s[n]
  <2>1. Len(meta.extension_order) \in Nat
    BY LenProperties DEF HelloInv, MetaInv
  <2>2. /\ block \in [bytes : {bytes}, pos : Nat]
        /\ Len(meta.extension_order) < Len(s) /\ block.pos = s[n]
    BY DEF HelloInv, BlockInv
  <2>3. QED
    BY <2>1, <2>2
<1>4. n \in 1..Len(s) /\ s[n] \in 0..Len(bytes)
  <2>1. n \in 1..Len(s)
    BY <1>2, <1>3
  <2>2. QED
    BY <1>2, <2>1, ElementOfSeq
<1>5. block \in Cursors /\ block.bytes = bytes /\ block.pos = s[n]
  BY <1>1, <1>2, <1>3, <1>4 DEF Cursors
<1>6. InLoop <=> Fits(block, 4)
  BY <1>2, <1>4, <1>5 DEF InLoop, Fits, Remaining
<1>7. Fits(block, 4) /\ DataFits <=> ExtensionFits(bytes, s[n])
  BY <1>5, ExtensionIs DEF DataFits
<1>8. ExtensionFits(bytes, s[n]) <=> n < Len(s)
  <2>1. n = Len(s) \/ n \in 1..(Len(s) - 1)
    BY <1>2, <1>4
  <2>2. QED
    BY <1>2, <1>4, <2>1
<1>9. Fits(block, 4) => Type = TypeAt(bytes, s[n]) /\ Type \in Nat
  BY <1>5, ExtensionIs DEF Type
<1>10. ASSUME n < Len(s)
       PROVE  /\ Data = DataAt(bytes, s[n]) /\ Data \in Seq(Byte)
              /\ AfterPrefixed(Skip(block, 2), 2) \in [bytes : {bytes}, pos : Nat]
              /\ AfterPrefixed(Skip(block, 2), 2).pos = s[n + 1]
  <2>1. /\ AfterPrefixed(Skip(block, 2), 2) \in Cursors
        /\ AfterPrefixed(Skip(block, 2), 2).bytes = bytes
        /\ AfterPrefixed(Skip(block, 2), 2).pos = NextStart(bytes, s[n])
        /\ Prefixed(Skip(block, 2), 2) = DataAt(bytes, s[n]) /\ DataAt(bytes, s[n]) \in Seq(Byte)
    BY <1>5, <1>8, <1>10, ExtensionIs
  <2>2. n \in 1..(Len(s) - 1)
    BY <1>2, <1>4, <1>10
  <2>3. s[n + 1] = NextStart(bytes, s[n])
    BY <1>2, <2>2
  <2>4. QED
    BY <2>1, <2>3 DEF Data, Cursors
<1>11. QED
  BY <1>1, <1>4, <1>5, <1>6, <1>7, <1>8, <1>9, <1>10

\* The invariants of the walk and of the parsers it calls.
BytesInv == HelloInv /\ BodyInv /\ ListInv /\ NameInv /\ AnswerInv

\* Initially.
LEMMA BytesStart == ASSUME NEW m \in Messages, StartOn(m) PROVE BytesInv
<1>1. /\ message = m /\ pc = "start" /\ meta = NoExtensions(<<>>) /\ sni_host = None
      /\ kind = "limit" /\ body = <<>> /\ cur = CursorOn(<<>>) /\ at = "idle" /\ out = <<>>
  BY DEF StartOn, NoCall
<1>2. MetaInv
  BY <1>1, NoExtensionsIs, EmptySeq DEF MetaInv
<1>3. HelloInv
  BY <1>1, <1>2 DEF HelloInv, BlockInv, CallInv
<1>4. <<>> \in Seq(Byte) /\ kind \in Kinds /\ kind \notin WalkedKinds /\ kind \notin PairKinds
  BY <1>1 DEF Kinds, WalkedKinds, PairKinds
<1>5. TypeOK
  BY <1>1, <1>4, CursorOnIs, TypeParts DEF States
<1>6. BodyInv /\ ListInv /\ NameInv /\ AnswerInv
  BY <1>1, <1>4, <1>5 DEF BodyInv, PairInv, HostInv, ListInv, NameInv, AnswerInv
<1>7. QED
  BY <1>3, <1>6 DEF BytesInv

\* A new extension is recorded, and its flags.
LEMMA MetaGrows ==
    ASSUME MetaInv, NewExtension(Type), Type \in Nat, pc = "walk"
    PROVE  /\ DOMAIN meta' = MetaFields
           /\ meta'.extension_order = Append(meta.extension_order, Type)
           /\ meta'.extension_order \in Seq(Nat)
           /\ meta'.psk_present = (Type = Ext.pre_shared_key)
           /\ meta'.ech_present = (meta.ech_present \/ Type = Ext.encrypted_client_hello)
           /\ meta'.host = None /\ meta.host = None /\ message' = message /\ sni_host' = sni_host
<1>1. /\ DOMAIN meta = MetaFields /\ meta.extension_order \in Seq(Nat) /\ meta.host = None
  BY DEF MetaInv
<1>2. /\ meta' = [meta EXCEPT
           !.extension_order = Append(@, Type),
           !.psk_present = (Type = Ext.pre_shared_key),
           !.ech_present = @ \/ Type = Ext.encrypted_client_hello,
           !.early_data_present = @ \/ Type = Ext.early_data,
           !.compress_certificate_present = @ \/ Type = Ext.compress_certificate]
      /\ message' = message /\ sni_host' = sni_host
  BY DEF NewExtension
<1>3. {"extension_order", "psk_present", "ech_present", "early_data_present",
       "compress_certificate_present", "host"} \subseteq DOMAIN meta
  BY <1>1 DEF MetaFields
<1>4. /\ DOMAIN meta' = MetaFields
      /\ meta'.extension_order = Append(meta.extension_order, Type)
      /\ meta'.psk_present = (Type = Ext.pre_shared_key)
      /\ meta'.ech_present = (meta.ech_present \/ Type = Ext.encrypted_client_hello)
      /\ meta'.host = meta.host
  BY <1>1, <1>2, <1>3
<1>5. Append(meta.extension_order, Type) \in Seq(Nat)
  BY <1>1
<1>6. QED
  BY <1>1, <1>2, <1>4, <1>5

\* An extension of a new type: what the walk holds afterwards.
LEMMA WalkAdvances ==
    ASSUME HelloInv, NewExtension(Type), pc' \in {"walk", "body"}
    PROVE  /\ MetaInv' /\ BlockInv' /\ message' = message
           /\ meta'.extension_order = Append(meta.extension_order, Type)
           /\ Data = DataAt(Block(message),
                            Starts(Block(message))[Len(meta.extension_order) + 1])
           /\ Data \in Seq(Byte)
<1> DEFINE bytes == Block(message)
           s == Starts(bytes)
           order == meta.extension_order
           n == Len(order) + 1
<1>0. pc = "walk" /\ InLoop /\ DataFits /\ MetaInv /\ order \in Seq(Nat) /\ Len(order) \in Nat
  BY LenProperties DEF NewExtension, InLoop, HelloInv, MetaInv
<1>1. /\ StartsOn(bytes, 0, s) /\ n \in 1..Len(s)
      /\ n < Len(s) /\ Type = TypeAt(bytes, s[n]) /\ Type \in Nat
      /\ Data = DataAt(bytes, s[n]) /\ Data \in Seq(Byte)
      /\ AfterPrefixed(Skip(block, 2), 2) \in [bytes : {bytes}, pos : Nat]
      /\ AfterPrefixed(Skip(block, 2), 2).pos = s[n + 1]
  <2> HIDE DEF bytes, s, n
  <2>1. /\ bytes = Block(message) /\ s = Starts(bytes)
        /\ n = Len(meta.extension_order) + 1
    BY DEF bytes, s, n
  <2>2. QED
    BY <1>0, <2>1, WalkStandsAt
<1>2. /\ DOMAIN meta' = MetaFields
      /\ meta'.extension_order = Append(order, Type)
      /\ meta'.extension_order \in Seq(Nat)
      /\ meta'.psk_present = (Type = Ext.pre_shared_key)
      /\ meta'.ech_present = (meta.ech_present \/ Type = Ext.encrypted_client_hello)
      /\ meta'.host = None /\ message' = message
  BY <1>0, <1>1, MetaGrows
<1>3. MetaInv'
  BY <1>2 DEF MetaInv
<1>4. /\ Len(Append(order, Type)) = n /\ Append(order, Type)[n] = Type
      /\ \A k \in 1..Len(order) : Append(order, Type)[k] = order[k]
  BY <1>0, <1>1
<1>5. block' = AfterPrefixed(Skip(block, 2), 2)
  BY DEF NewExtension
<1>6. \A k \in 1..n : Append(order, Type)[k] = TypeAt(bytes, s[k])
  <2>1. \A k \in 1..Len(order) : order[k] = TypeAt(bytes, s[k])
    BY <1>0 DEF HelloInv, BlockInv
  <2>2. \A k \in 1..n : k = n \/ k \in 1..Len(order)
    BY <1>0
  <2> HIDE DEF bytes, s, order, n
  <2>3. QED
    BY <1>1, <1>4, <2>1, <2>2
<1>7. BlockInv'
  <2>1. Len(meta'.extension_order) = n
    BY <1>2, <1>4
  <2> HIDE DEF n
  <2>2. QED
    BY <1>1, <1>2, <1>4, <1>5, <1>6, <2>1 DEF BlockInv
<1>8. QED
  BY <1>1, <1>2, <1>3, <1>7

\* With the cursor, the metadata and the call as they were, the walk holds what it held.
LEMMA WalkHolds ==
    ASSUME HelloInv, UNCHANGED <<message, block>>, UNCHANGED meta,
           \/ pc' = pc /\ UNCHANGED sni_host
           \/ pc = "body" /\ pc' = "walk"
           \/ pc # "accepted" /\ pc' = "rejected",
           pc' = "body" => UNCHANGED <<kind, body>> /\ at' # "idle"
    PROVE  HelloInv'
<1>1. MetaInv' /\ BlockInv'
  BY DEF HelloInv, MetaInv, BlockInv
<1>2. CallInv'
  BY DEF HelloInv, CallInv, Called
<1>3. QED
  BY <1>1, <1>2 DEF HelloInv

\* Parsing a body is a step of the parsers, and never takes one back to idleness.
LEMMA BodyStays ==
    ASSUME ParseStep
    PROVE  Next /\ kind' = kind /\ body' = body /\ at' # "idle"
BY DEF Next, ParseStep, ReadName, RejectList, ReadList, CopyFormats, ReadEntry,
       RejectEntry, Finish, ReadLimit, RejectLimit, RejectNameList, ReadNameList, SkipOtherType,
       RejectHostLength, SkipNotUtf8, ReadHost, RejectHost, AcceptHost, Refuse, input,
       Walking, Typed

\* The walk, kept by every step.
LEMMA HelloKept ==
    ASSUME BytesInv, [HelloNext]_helloVars
    PROVE  HelloInv'
<1>0. HelloInv /\ MetaInv /\ BlockInv /\ CallInv
  BY DEF BytesInv, HelloInv
<1>1. CASE RejectHello
  BY <1>0, <1>1, WalkHolds DEF RejectHello, walkvars
<1>2. CASE ReadHello
  <2> DEFINE suites == Codepoints(Prefixed(Suites(message), 2))
             bytes == Block(message)
             s == Starts(bytes)
  <2>1. /\ pc' = "walk" /\ message' = message /\ GoodHello(message)
        /\ block' = CursorOn(Prefixed(Extensions(message), 2))
        /\ meta' = NoExtensions(suites)
    BY <1>2 DEF ReadHello
  <2> HIDE DEF suites
  <2>2. /\ DOMAIN meta' = MetaFields /\ meta'.extension_order = <<>>
        /\ meta'.psk_present = FALSE /\ meta'.ech_present = FALSE /\ meta'.host = None
    BY <2>1, NoExtensionsIs
  <2>3. MetaInv'
    BY <2>2, EmptySeq DEF MetaInv
  <2>4. block' = CursorOn(bytes)
    BY <2>1 DEF Block
  <2>5. StartsOn(bytes, 0, s)
    BY <1>0, BlockIs, StartsAre DEF HelloInv
  <2>6. BlockInv'
    <3>1. Len(<<>>) = 0 /\ 0 < Len(s) /\ s[1] = 0
      BY <2>5 DEF StartsOn
    <3>2. block' \in [bytes : {bytes}, pos : Nat] /\ block'.pos = 0
      BY <2>4 DEF CursorOn
    <3>3. QED
      BY <2>1, <2>2, <3>1, <3>2 DEF BlockInv
  <2>7. QED
    BY <1>0, <2>1, <2>3, <2>6 DEF HelloInv, CallInv
<1>3. CASE RejectExtension
  BY <1>0, <1>3, WalkHolds DEF RejectExtension, InLoop, walkvars
<1>4. CASE TakeFlag
  <2>1. NewExtension(Type) /\ pc' = "walk"
    BY <1>4 DEF TakeFlag, NewExtension, InLoop
  <2>2. MetaInv' /\ BlockInv' /\ message' = message
    BY <1>0, <2>1, WalkAdvances
  <2>3. QED
    BY <1>0, <2>1, <2>2 DEF HelloInv, CallInv
<1>5. CASE CallParser
  <2> DEFINE order == meta.extension_order
             type == Type
  <2>1. /\ NewExtension(Type) /\ Parser(Type) # None /\ pc' = "body" /\ ~Known
        /\ kind' = Parser(Type) /\ body' = Data /\ at' = "start"
    BY <1>5 DEF CallParser, Call, NewExtension
  <2>2. /\ MetaInv' /\ BlockInv' /\ message' = message
        /\ meta'.extension_order = Append(order, type)
        /\ Data = DataAt(Block(message), Starts(Block(message))[Len(order) + 1])
    BY <1>0, <2>1, WalkAdvances
  <2>3. /\ order \in Seq(Nat) /\ Len(order) \in Nat /\ DOMAIN order = 1..Len(order)
        /\ type \in Nat
    <3>1. order \in Seq(Nat)
      BY <1>0 DEF MetaInv
    <3>2. pc = "walk" /\ InLoop
      BY <2>1 DEF NewExtension, InLoop
    <3>3. Type \in Nat
      BY <1>0, <3>2, WalkStandsAt
    <3>4. QED
      BY <3>1, <3>3, LenProperties
  <2>4. \A k \in 1..Len(order) : order[k] # type
    BY <2>1, <2>3 DEF Known
  <2>5. meta'.psk_present = FALSE
    <3>1. meta'.psk_present = (Type = Ext.pre_shared_key)
      <4>1. pc = "walk"
        BY <2>1 DEF NewExtension, InLoop
      <4>2. QED
        BY <1>0, <2>1, <2>3, <4>1, MetaGrows
    <3>2. Type # Ext.pre_shared_key
      BY <2>1, ParserIs
    <3>3. QED
      BY <3>1, <3>2
  <2> HIDE DEF order, type
  <2>6. /\ Append(order, type) # <<>> /\ Len(Append(order, type)) = Len(order) + 1
        /\ Append(order, type)[Len(order) + 1] = type
        /\ \A k \in 1..Len(order) : Append(order, type)[k] = order[k]
        /\ Len(Append(order, type)) - 1 = Len(order)
    BY <2>3
  <2>7. Called' = type
    BY <2>2, <2>6 DEF Called
  <2>8. CallInv'
    <3>1. \A k \in 1..Len(order) : meta'.extension_order[k] # Called'
      BY <2>2, <2>4, <2>6, <2>7
    <3>2. kind' = Parser(Called') /\ kind' # None
      BY <2>1, <2>7 DEF type
    <3>3. body' = DataAt(Block(message'), Starts(Block(message'))[Len(meta'.extension_order)])
      BY <2>1, <2>2, <2>6
    <3>4. QED
      BY <2>1, <2>2, <2>5, <2>6, <3>1, <3>2, <3>3 DEF CallInv
  <2>9. QED
    BY <1>0, <2>1, <2>2, <2>8 DEF HelloInv
<1>6. CASE ParseBody
  BY <1>0, <1>6, WalkHolds, BodyStays DEF ParseBody, walkvars
<1>7. CASE TakeHost
  <2>1. pc = "body" /\ pc' = "walk" /\ UNCHANGED <<message, block>> /\ UNCHANGED meta
    BY <1>7 DEF TakeHost
  <2>2. QED
    BY <1>0, <2>1, WalkHolds
<1>8. CASE TakeList
  <2>1. /\ pc = "body" /\ pc' = "walk" /\ message' = message /\ block' = block
        /\ meta' = [meta EXCEPT ![Field(Called)] = out] /\ kind # "server_name"
    BY <1>8 DEF TakeList
  <2>2. Field(Called) \in ListFields
    BY <1>0, <2>1, ParserIs DEF CallInv
  <2>3. /\ DOMAIN meta' = MetaFields
        /\ meta'.extension_order = meta.extension_order /\ meta'.host = meta.host
        /\ meta'.psk_present = meta.psk_present /\ meta'.ech_present = meta.ech_present
    <3> DEFINE f == Field(Called)
    <3>1. /\ f # "extension_order" /\ f # "host" /\ f # "psk_present" /\ f # "ech_present"
      BY <2>2 DEF ListFields
    <3>2. DOMAIN meta = MetaFields /\ meta' = [meta EXCEPT ![f] = out]
      BY <1>0, <2>1 DEF MetaInv
    <3> HIDE DEF f
    <3>3. DOMAIN meta' = MetaFields
      BY <3>2
    <3>4. {"extension_order", "host", "psk_present", "ech_present"} \subseteq DOMAIN meta
      BY <3>2 DEF MetaFields
    <3>5. QED
      BY <3>1, <3>2, <3>3, <3>4
  <2>4. MetaInv' /\ BlockInv'
    BY <1>0, <2>1, <2>3 DEF MetaInv, BlockInv
  <2>5. QED
    BY <1>0, <2>1, <2>4 DEF HelloInv, CallInv
<1>9. CASE SkipName \/ RejectBody
  BY <1>0, <1>9, WalkHolds DEF SkipName, RejectBody, walkvars
<1>10. CASE FinishHello
  <2>1. /\ pc = "walk" /\ pc' = "accepted" /\ message' = message
        /\ meta' = [meta EXCEPT !.host = IF meta.ech_present THEN None ELSE sni_host]
    BY <1>10 DEF FinishHello
  <2>2. /\ DOMAIN meta' = MetaFields
        /\ meta'.extension_order = meta.extension_order
        /\ meta'.psk_present = meta.psk_present /\ meta'.ech_present = meta.ech_present
    BY <1>0, <2>1 DEF MetaInv, MetaFields
  <2>3. MetaInv' /\ BlockInv' /\ CallInv'
    BY <1>0, <2>1, <2>2 DEF MetaInv, BlockInv, CallInv
  <2>4. QED
    BY <1>0, <2>1, <2>3 DEF HelloInv
<1>11. CASE UNCHANGED helloVars
  BY <1>0, <1>11 DEF helloVars, walkvars, call, HelloInv, MetaInv, BlockInv, CallInv, Called
<1>12. QED
  BY <1>1, <1>2, <1>3, <1>4, <1>5, <1>6, <1>7, <1>8, <1>9, <1>10, <1>11 DEF HelloNext

\* The parsers that are called, kept by every step.
LEMMA CallsKept ==
    ASSUME BytesInv, [HelloNext]_helloVars
    PROVE  BodyInv' /\ ListInv' /\ NameInv' /\ AnswerInv'
<1>1. CASE CallParser
  <2>1. /\ NewExtension(Type) /\ Parser(Type) # None /\ Call(Parser(Type), Data) /\ pc' = "body"
    BY <1>1 DEF CallParser
  <2>2. Parser(Type) \in Kinds /\ Data \in Seq(Byte)
    BY <2>1, ParserIs, WalkAdvances DEF BytesInv
  <2>3. at' = "start"
    BY <2>1 DEF Call
  <2>4. QED
    BY <2>1, <2>2, <2>3, CallStarts DEF AnswerInv
<1>2. CASE ParseBody
  <2>1. [Next]_vars
    BY <1>2, BodyStays DEF ParseBody
  <2>2. QED
    BY <2>1, BodyStep, ListKept, NameKept, AnswerKept DEF BytesInv
<1>3. CASE UNCHANGED call
  <2>1. [Next]_vars
    BY <1>3 DEF call, vars, input
  <2>2. QED
    BY <2>1, BodyStep, ListKept, NameKept, AnswerKept DEF BytesInv
<1>4. QED
  BY <1>1, <1>2, <1>3 DEF HelloNext, RejectHello, ReadHello, RejectExtension, TakeFlag, TakeHost,
     TakeList, SkipName, RejectBody, FinishHello, helloVars

\* The walk over the bytes and the parsers it calls, in every state.
THEOREM BytesInvariant == HelloSpec => []BytesInv
<1>1. (\E m \in Messages : StartOn(m)) => BytesInv
  BY BytesStart
<1>2. BytesInv /\ [HelloNext]_helloVars => BytesInv'
  BY HelloKept, CallsKept DEF BytesInv
<1>3. QED
  BY <1>1, <1>2, PTL DEF HelloSpec

--------------------------------------------------------------------------------
(* The bytes as the walk of ClientHello sees them. *)

\* No host is written as none.
LEMMA NoneIsNone == Opaque(None) = None
BY Zenon DEF Opaque

\* A message is let through by what stands before its block exactly if it is good.
LEMMA PreludeIs ==
    ASSUME NEW m \in Seq(Byte)
    PROVE  PreludeOf(m) \in {"bad", "ok"} /\ (PreludeOf(m) = "ok" <=> GoodHello(m))
BY DEF PreludeOf

\* What is left of a block after its last extension.
TailOf(bytes, s) ==
    LET left == Len(bytes) - s[Len(s)]
    IN  IF left = 0 THEN "nothing" ELSE IF left < 4 THEN "stub" ELSE "overrun"

\* The extensions of a message, one by one.
LEMMA ContentIs ==
    ASSUME NEW m \in Messages, NEW bytes, bytes = Block(m), NEW s, s = Starts(bytes),
           NEW e, e = Content[m].exts
    PROVE  /\ Content[m].prelude = PreludeOf(m) /\ Content[m].tail = TailOf(bytes, s)
           /\ bytes \in Seq(Byte) /\ StartsOn(bytes, 0, s)
           /\ DOMAIN e = 1..(Len(s) - 1) /\ Len(e) = Len(s) - 1 /\ Len(e) \in Nat
           /\ \A n \in 1..Len(e) :
                /\ e[n].type = TypeAt(bytes, s[n])
                /\ e[n].body = Verdict(Parser(TypeAt(bytes, s[n])), DataAt(bytes, s[n]))
<1>1. bytes \in Seq(Byte) /\ StartsOn(bytes, 0, s)
  BY BlockIs, StartsAre
<1>2. Len(s) \in Nat \ {0}
  BY <1>1 DEF StartsOn
<1>3. Content[m] = ContentOf(m)
  BY DEF Content
<1>4. ContentOf(m) = [prelude |-> PreludeOf(m),
                      exts |-> [n \in 1..(Len(s) - 1) |-> ExtensionAt(bytes, s[n])],
                      tail |-> TailOf(bytes, s)]
  BY Zenon DEF ContentOf, TailOf
<1>5. /\ Content[m].prelude = PreludeOf(m) /\ Content[m].tail = TailOf(bytes, s)
      /\ e = [n \in 1..(Len(s) - 1) |-> ExtensionAt(bytes, s[n])]
  BY <1>3, <1>4
<1>6. DOMAIN e = 1..(Len(s) - 1) /\ Len(e) = Len(s) - 1 /\ Len(e) \in Nat
  BY <1>2, <1>5
<1>7. \A n \in 1..Len(e) : e[n] = ExtensionAt(bytes, s[n])
  BY <1>5, <1>6
<1>8. ASSUME NEW n \in 1..Len(e)
      PROVE  /\ e[n].type = TypeAt(bytes, s[n])
             /\ e[n].body = Verdict(Parser(TypeAt(bytes, s[n])), DataAt(bytes, s[n]))
  <2>1. e[n] = ExtensionAt(bytes, s[n])
    BY <1>7
  <2>2. \A k : /\ ExtensionAt(bytes, k).type = TypeAt(bytes, k)
               /\ ExtensionAt(bytes, k).body = Verdict(Parser(TypeAt(bytes, k)), DataAt(bytes, k))
    BY DEF ExtensionAt
  <2>3. QED
    BY <2>1, <2>2
<1>9. QED
  BY <1>1, <1>5, <1>6, <1>8

\* What is behind, between two extensions and during one.
LEMMA BehindIs ==
    ASSUME HelloInv
    PROVE  /\ pc # "body" => Behind = meta.extension_order
           /\ Behind \in Seq(Nat) /\ Len(Behind) \in Nat /\ DOMAIN Behind = 1..Len(Behind)
           /\ pc = "body" =>
                /\ Len(meta.extension_order) = Len(Behind) + 1
                /\ meta.extension_order = Append(Behind, Called)
                /\ Called = meta.extension_order[Len(Behind) + 1]
                /\ \A k \in 1..Len(Behind) : Behind[k] # Called
<1> DEFINE order == meta.extension_order
           n == Len(order) - 1
<1>1. order \in Seq(Nat) /\ Len(order) \in Nat /\ DOMAIN order = 1..Len(order)
  BY LenProperties DEF HelloInv, MetaInv
<1>2. CASE pc # "body"
  BY <1>1, <1>2 DEF Behind
<1>3. CASE pc = "body"
  <2>1. order # <<>> /\ \A k \in 1..(Len(order) - 1) : order[k] # Called
    BY <1>3 DEF HelloInv, CallInv
  <2>2. n \in Nat /\ Len(order) = n + 1 /\ n + 1 \in 1..Len(order)
    BY <1>1, <2>1
  <2>3. Behind = SubSeq(order, 1, n)
    BY <1>3 DEF Behind
  <2>4. 1 \in Int /\ n \in Int /\ \A k \in 1..n : order[k] \in Nat
    BY <1>1, <2>2, ElementOfSeq
  <2> HIDE DEF n
  <2>5. /\ Behind \in Seq(Nat) /\ Len(Behind) = (IF 1 <= n THEN n - 1 + 1 ELSE 0)
        /\ \A k \in 1..(n - 1 + 1) : Behind[k] = order[1 + k - 1]
    BY <2>3, <2>4, SubSeqProperties
  <2>6. Len(Behind) = n /\ DOMAIN Behind = 1..n /\ \A k \in 1..n : Behind[k] = order[k]
    BY <2>2, <2>5, LenProperties
  <2>7. Called = order[n + 1]
    BY <2>2 DEF Called
  <2>8. Called \in Nat
    BY <1>1, <2>2, <2>7, ElementOfSeq
  <2>9. order = Append(Behind, Called)
    <3> DEFINE t == Append(Behind, Called)
    <3>1. t \in Seq(Nat) /\ Len(t) = n + 1
      BY <2>5, <2>6, <2>8
    <3>2. \A k \in 1..(n + 1) : t[k] = order[k]
      BY <2>2, <2>5, <2>6, <2>7
    <3> HIDE DEF t
    <3>3. t = order
      BY <1>1, <2>2, <3>1, <3>2, SeqEqual
    <3>4. QED
      BY <3>3 DEF t
  <2>10. \A k \in 1..n : Behind[k] # Called
    BY <2>1, <2>2, <2>6 DEF n
  <2>11. QED
    BY <1>3, <2>2, <2>5, <2>6, <2>7, <2>9, <2>10
<1>4. QED
  BY <1>2, <1>3

\* The walk over the bytes and the walk over the extensions stand at the same one.
LEMMA WalksAgree ==
    ASSUME HelloInv, pc = "walk", NEW e, e = Content[message].exts,
           NEW n, n = Len(meta.extension_order) + 1
    PROVE  /\ n \in Nat \ {0} /\ Len(e) \in Nat /\ n <= Len(e) + 1
           /\ InLoop <=> n <= Len(e) \/ Content[message].tail = "overrun"
           /\ InLoop /\ DataFits <=> n <= Len(e)
           /\ InLoop /\ n <= Len(e) =>
                /\ e[n].type = Type /\ Type \in Nat
                /\ e[n].body = Verdict(Parser(Type), Data)
<1> DEFINE bytes == Block(message)
           s == Starts(bytes)
<1>1. message \in Messages
  BY DEF HelloInv
<1>2. /\ Content[message].tail = TailOf(bytes, s)
      /\ bytes \in Seq(Byte) /\ StartsOn(bytes, 0, s)
      /\ Len(e) = Len(s) - 1 /\ Len(e) \in Nat
      /\ \A k \in 1..Len(e) :
           /\ e[k].type = TypeAt(bytes, s[k])
           /\ e[k].body = Verdict(Parser(TypeAt(bytes, s[k])), DataAt(bytes, s[k]))
  BY <1>1, ContentIs
<1>3. /\ n \in 1..Len(s) /\ block \in Cursors /\ block.bytes = bytes /\ block.pos = s[n]
      /\ InLoop <=> Fits(block, 4)
      /\ Fits(block, 4) /\ DataFits <=> n < Len(s)
      /\ Fits(block, 4) => Type = TypeAt(bytes, s[n]) /\ Type \in Nat
      /\ n < Len(s) => Data = DataAt(bytes, s[n])
  BY WalkStandsAt
<1>4. Len(bytes) \in Nat /\ s[n] \in 0..Len(bytes) /\ Len(s) \in Nat \ {0}
  <2>1. s \in Seq(0..Len(bytes)) /\ Len(s) \in Nat \ {0}
    BY <1>2 DEF StartsOn
  <2> HIDE DEF s
  <2>2. QED
    BY <1>2, <1>3, <2>1, LenProperties, ElementOfSeq
<1> HIDE DEF s, bytes
<1>5. n = Len(s) => (Fits(block, 4) <=> TailOf(bytes, s) = "overrun")
  BY <1>3, <1>4 DEF Fits, Remaining, TailOf
<1>6. n <= Len(e) <=> n < Len(s)
  BY <1>2, <1>3, <1>4
<1>7. n < Len(s) => n \in 1..Len(e)
  BY <1>2, <1>3, <1>4
<1>8. n = Len(s) \/ n < Len(s)
  BY <1>3, <1>4
<1>9. QED
  BY <1>2, <1>3, <1>4, <1>5, <1>6, <1>7, <1>8

\* So do they during an extension, whose verdict is the parser's answer.
LEMMA CallsAgree ==
    ASSUME BytesInv, pc = "body", NEW e, e = Content[message].exts,
           NEW n, n = Len(Behind) + 1
    PROVE  /\ n \in 1..Len(e) /\ Len(e) \in Nat
           /\ e[n].type = Called /\ e[n].body = Verdict(kind, body)
           /\ Called # Ext.encrypted_client_hello /\ Called # Ext.pre_shared_key
           /\ kind = "server_name" <=> Called = Ext.server_name
           /\ meta.psk_present = FALSE /\ kind # None
           /\ \A h \in HostsNamed(body) : Opaque(h) \notin {"ok", "bad", "skip"}
<1> DEFINE bytes == Block(message)
           s == Starts(bytes)
           order == meta.extension_order
<1>1. message \in Messages /\ HelloInv /\ CallInv /\ BlockInv /\ MetaInv
  BY DEF BytesInv, HelloInv
<1>2. /\ Len(e) = Len(s) - 1 /\ Len(e) \in Nat
      /\ \A k \in 1..Len(e) :
           /\ e[k].type = TypeAt(bytes, s[k])
           /\ e[k].body = Verdict(Parser(TypeAt(bytes, s[k])), DataAt(bytes, s[k]))
  BY <1>1, ContentIs
<1>3. Len(order) = n /\ n \in Nat \ {0} /\ Called = order[n]
  BY <1>1, BehindIs
<1>4. /\ Len(order) < Len(s)
      /\ \A k \in 1..Len(order) : order[k] = TypeAt(bytes, s[k])
  BY <1>1 DEF BlockInv
<1>5. /\ kind = Parser(Called) /\ kind # None /\ body = DataAt(bytes, s[Len(order)])
      /\ meta.psk_present = FALSE
  BY <1>1 DEF CallInv, MetaInv
<1>6. n \in 1..Len(e) /\ n \in 1..Len(order) /\ n \in 1..(Len(s) - 1)
  BY <1>2, <1>3, <1>4
<1>7. Called = TypeAt(bytes, s[n]) /\ body = DataAt(bytes, s[n])
  BY <1>3, <1>4, <1>5, <1>6
<1>8. \A h \in HostsNamed(DataAt(bytes, s[n])) : Opaque(h) \notin {"ok", "bad", "skip"}
  BY <1>1, <1>6, HostsAssumption
<1>9. e[n].type = Called /\ e[n].body = Verdict(kind, body)
  BY <1>2, <1>5, <1>6, <1>7
<1>10. QED
  BY <1>2, <1>5, <1>6, <1>7, <1>8, <1>9, ParserIs

--------------------------------------------------------------------------------
(* Step by step, the walk over the bytes is that of ClientHello. *)

\* A start is a start.
LEMMA WalkStarts == ASSUME NEW m \in Messages, StartOn(m) PROVE Walk!Init
<1>1. message = m /\ pc = "start" /\ meta = NoExtensions(<<>>) /\ sni_host = None
  BY DEF StartOn
<1>2. /\ meta.extension_order = <<>> /\ meta.psk_present = FALSE /\ meta.ech_present = FALSE
      /\ meta.host = None
  BY <1>1, NoExtensionsIs
<1>3. Behind = <<>> /\ Len(Behind) + 1 = 1
  BY <1>1, <1>2 DEF Behind
<1>4. Content[message].prelude \in Walk!Preludes
  BY <1>1, ContentIs, PreludeIs, MessagesAssumption DEF Walk!Preludes
<1>5. Content[message].exts \in BlocksOfAll
  BY <1>1 DEF BlocksOfAll
<1>6. Content[message].tail \in {"nothing", "stub", "overrun"}
  BY <1>1, ContentIs DEF TailOf
<1>7. QED
  BY <1>1, <1>2, <1>3, <1>4, <1>5, <1>6, NoneIsNone DEF Walk!Init

\* The fields before the block are refused or read.
LEMMA HelloIsRead ==
    ASSUME BytesInv, RejectHello \/ ReadHello
    PROVE  Walk!ReadPrelude
<1>1. pc = "start" /\ message \in Messages /\ message' = message /\ sni_host' = sni_host
  BY DEF RejectHello, ReadHello, BytesInv, HelloInv, walkvars
<1>2. /\ meta = NoExtensions(<<>>) /\ sni_host = None
  BY <1>1 DEF BytesInv, HelloInv
<1>3. Walk!GoodPrelude <=> GoodHello(message)
  BY <1>1, ContentIs, PreludeIs, MessagesAssumption DEF Walk!GoodPrelude
<1>4. \/ pc' = "rejected" /\ ~GoodHello(message) /\ meta' = meta
      \/ pc' = "walk" /\ GoodHello(message)
            /\ meta' = NoExtensions(Codepoints(Prefixed(Suites(message), 2)))
  BY DEF RejectHello, ReadHello, walkvars
<1>5. /\ meta.extension_order = <<>> /\ meta'.extension_order = <<>>
      /\ meta'.psk_present = meta.psk_present /\ meta'.ech_present = meta.ech_present
      /\ meta'.host = meta.host
  BY <1>2, <1>4, NoExtensionsIs
<1>6. Behind = <<>> /\ Behind' = <<>>
  BY <1>1, <1>4, <1>5 DEF Behind
<1>7. QED
  BY <1>1, <1>3, <1>4, <1>5, <1>6 DEF Walk!ReadPrelude, Walk!input, Walk!meta

\* The types seen by the one are those known to the other.
LEMMA SeenIsKnown ==
    ASSUME HelloInv, pc = "walk"
    PROVE  Known <=> Type \in Walk!Seen
<1>1. Behind = meta.extension_order /\ DOMAIN Behind = 1..Len(Behind)
  BY BehindIs
<1>2. QED
  BY <1>1 DEF Known, Walk!Seen

\* An extension is refused for its place, its length or its type.
LEMMA ExtensionIsRejected ==
    ASSUME BytesInv, RejectExtension
    PROVE  Walk!RejectAfterPsk \/ Walk!RejectOverrun \/ Walk!RejectDuplicate
<1> DEFINE e == Content[message].exts
           n == Len(Behind) + 1
<1>1. /\ pc = "walk" /\ pc' = "rejected" /\ InLoop /\ HelloInv
      /\ meta.psk_present \/ ~DataFits \/ Known
      /\ message' = message /\ meta' = meta /\ sni_host' = sni_host
  BY DEF RejectExtension, InLoop, walkvars, BytesInv
<1>2. Behind = meta.extension_order /\ Behind' = Behind
  BY <1>1, BehindIs DEF Behind
<1>3. /\ n \in Nat \ {0} /\ Len(e) \in Nat
      /\ n <= Len(e) \/ Content[message].tail = "overrun"
      /\ DataFits <=> n <= Len(e)
      /\ n <= Len(e) => e[n].type = Type
  BY <1>1, <1>2, WalksAgree
<1>4. Walk!InLoop
  BY <1>1, <1>3 DEF Walk!InLoop
<1>5. UNCHANGED <<Walk!input, Len(Behind) + 1, Walk!meta>>
  BY <1>1, <1>2 DEF Walk!input, Walk!meta
<1>6. CASE meta.psk_present
  BY <1>1, <1>4, <1>5, <1>6 DEF Walk!RejectAfterPsk
<1>7. CASE ~meta.psk_present /\ ~DataFits
  BY <1>1, <1>3, <1>4, <1>5, <1>7 DEF Walk!RejectOverrun
<1>8. CASE ~meta.psk_present /\ DataFits
  <2>1. Known
    BY <1>1, <1>8
  <2>2. e[n].type \in Walk!Seen
    BY <1>1, <1>3, <1>8, <2>1, SeenIsKnown
  <2>3. QED
    BY <1>1, <1>3, <1>4, <1>5, <1>8, <2>2 DEF Walk!RejectDuplicate, Walk!Reading
<1>9. QED
  BY <1>6, <1>7, <1>8

\* A flag, or a type nothing is known of, is read at once.
LEMMA FlagIsTaken ==
    ASSUME BytesInv, TakeFlag
    PROVE  Walk!ReadEch \/ Walk!ReadOther
<1> DEFINE e == Content[message].exts
           n == Len(Behind) + 1
           order == meta.extension_order
<1>1. /\ NewExtension(Type) /\ Parser(Type) = None /\ pc = "walk" /\ pc' = "walk" /\ InLoop
      /\ ~meta.psk_present /\ DataFits /\ ~Known /\ HelloInv /\ MetaInv
  BY DEF TakeFlag, NewExtension, InLoop, BytesInv, HelloInv
<1>2. Behind = order
  BY <1>1, BehindIs
<1>3. /\ n \in Nat \ {0} /\ Len(e) \in Nat /\ n <= Len(e)
      /\ e[n].type = Type /\ Type \in Nat /\ e[n].body = Verdict(Parser(Type), Data)
  BY <1>1, <1>2, WalksAgree
<1>4. /\ meta'.extension_order = Append(order, Type)
      /\ meta'.psk_present = (Type = Ext.pre_shared_key)
      /\ meta'.ech_present = (meta.ech_present \/ Type = Ext.encrypted_client_hello)
      /\ meta'.host = meta.host /\ message' = message /\ sni_host' = sni_host
  BY <1>1, <1>3, MetaGrows
<1>5. order \in Seq(Nat) /\ Behind' = Append(Behind, Type) /\ Len(Behind') = Len(Behind) + 1
  BY <1>1, <1>2, <1>3, <1>4 DEF Behind, MetaInv
<1>6. e[n].type \notin Walk!Seen
  BY <1>1, <1>3, SeenIsKnown
<1>7. Walk!NewType
  <2>1. Walk!Reading
    BY <1>1, <1>3 DEF Walk!Reading, Walk!InLoop
  <2>2. UNCHANGED <<Walk!input, Opaque(meta.host)>>
    BY <1>4 DEF Walk!input
  <2>3. QED
    BY <1>3, <1>4, <1>5, <1>6, <2>1, <2>2 DEF Walk!NewType
<1>8. e[n].body = "ok"
  <2>1. Verdict(Parser(Type), Data) = "ok"
    BY <1>1, Zenon DEF Verdict
  <2>2. QED
    BY <1>3, <2>1
<1>9. CASE Type = Ext.encrypted_client_hello
  BY <1>1, <1>3, <1>4, <1>7, <1>9 DEF Walk!ReadEch
<1>10. CASE Type # Ext.encrypted_client_hello
  <2>1. meta'.ech_present = meta.ech_present
    BY <1>1, <1>4, <1>10 DEF MetaInv
  <2>2. QED
    BY <1>1, <1>3, <1>4, <1>7, <1>8, <1>10, <2>1 DEF Walk!ReadOther
<1>11. QED
  BY <1>9, <1>10

\* Calling a parser and running it leave what is behind as it is.
LEMMA CallIsUnseen ==
    ASSUME BytesInv, BytesInv', CallParser \/ ParseBody
    PROVE  UNCHANGED Walk!vars
<1>1. CASE ParseBody
  <2>1. pc' = pc /\ message' = message /\ meta' = meta /\ sni_host' = sni_host
    BY <1>1 DEF ParseBody, walkvars
  <2>2. Behind' = Behind
    BY <2>1 DEF Behind
  <2>3. QED
    BY <2>1, <2>2 DEF Walk!vars, Walk!input, Walk!meta
<1>2. CASE CallParser
  <2> DEFINE order == meta.extension_order
  <2>1. /\ NewExtension(Type) /\ Parser(Type) # None /\ pc = "walk" /\ pc' = "body"
        /\ InLoop /\ DataFits /\ ~meta.psk_present /\ HelloInv /\ MetaInv
    BY <1>2 DEF CallParser, NewExtension, InLoop, BytesInv, HelloInv
  <2>2. Type \in Nat
    BY <2>1, WalksAgree
  <2>3. /\ meta'.extension_order = Append(order, Type)
        /\ meta'.psk_present = (Type = Ext.pre_shared_key)
        /\ meta'.ech_present = (meta.ech_present \/ Type = Ext.encrypted_client_hello)
        /\ meta'.host = meta.host /\ message' = message /\ sni_host' = sni_host
    BY <2>1, <2>2, MetaGrows
  <2>4. meta'.psk_present = meta.psk_present /\ meta'.ech_present = meta.ech_present
    BY <2>1, <2>3, ParserIs DEF MetaInv
  <2>5. Behind = order /\ Behind' = order
    <3>1. Behind = order /\ order \in Seq(Nat) /\ Len(order) \in Nat
      BY <2>1, BehindIs
    <3>2. Behind' = SubSeq(Append(order, Type), 1, Len(Append(order, Type)) - 1)
      BY <2>1, <2>3 DEF Behind
    <3>3. Len(Append(order, Type)) - 1 = Len(order)
      BY <3>1
    <3>4. SubSeq(Append(order, Type), 1, Len(order)) = order
      BY <2>2, <3>1, AppendProperties
    <3>5. QED
      BY <3>1, <3>2, <3>3, <3>4
  <2>6. QED
    BY <2>1, <2>3, <2>4, <2>5 DEF Walk!vars, Walk!input, Walk!meta
<1>3. QED
  BY <1>1, <1>2

\* When the parser has answered, the extension is behind.
LEMMA AnswerIsNew ==
    ASSUME BytesInv, pc = "body", pc' \in {"walk", "rejected"}, message' = message,
           meta'.extension_order = meta.extension_order,
           meta'.psk_present = meta.psk_present, meta'.host = meta.host
    PROVE  Walk!NewType
<1> DEFINE e == Content[message].exts
           n == Len(Behind) + 1
<1>1. /\ n \in 1..Len(e) /\ Len(e) \in Nat
      /\ e[n].type = Called /\ Called # Ext.pre_shared_key
      /\ meta.psk_present = FALSE
  BY CallsAgree
<1>2. /\ Behind \in Seq(Nat) /\ Len(Behind) \in Nat
      /\ Len(meta.extension_order) = n /\ meta.extension_order = Append(Behind, Called)
      /\ \A k \in 1..Len(Behind) : Behind[k] # Called
  BY BehindIs DEF BytesInv
<1>3. Behind' = Append(Behind, Called) /\ Len(Behind') + 1 = n + 1
  BY <1>2 DEF Behind
<1>4. Walk!Reading
  BY <1>1 DEF Walk!Reading, Walk!InLoop
<1>5. e[n].type \notin Walk!Seen
  BY <1>1, <1>2 DEF Walk!Seen
<1>6. UNCHANGED <<Walk!input, Opaque(meta.host)>>
  BY DEF Walk!input
<1>7. QED
  BY <1>1, <1>3, <1>4, <1>5, <1>6 DEF Walk!NewType

\* A list is taken, a name skipped or a body refused: by the walk, in one step.
LEMMA AnswerIsTaken ==
    ASSUME BytesInv, TakeList \/ SkipName \/ RejectBody
    PROVE  Walk!ReadOther \/ Walk!RejectBody
<1> DEFINE e == Content[message].exts
           n == Len(Behind) + 1
<1>1. /\ pc = "body" /\ message' = message /\ sni_host' = sni_host
      /\ CallInv /\ MetaInv /\ HelloInv
  BY DEF TakeList, SkipName, RejectBody, walkvars, BytesInv, HelloInv
<1>2. /\ e[n].type = Called /\ e[n].body = Verdict(kind, body)
      /\ Called # Ext.encrypted_client_hello /\ kind # None
  BY <1>1, CallsAgree
<1>3. /\ meta'.extension_order = meta.extension_order
      /\ meta'.psk_present = meta.psk_present /\ meta'.ech_present = meta.ech_present
      /\ meta'.host = meta.host
  <2>1. CASE SkipName \/ RejectBody
    BY <2>1 DEF SkipName, RejectBody, walkvars
  <2>2. CASE TakeList
    <3> DEFINE f == Field(Called)
    <3>1. meta' = [meta EXCEPT ![f] = out] /\ kind # "server_name"
      BY <2>2 DEF TakeList
    <3>2. f \in ListFields
      BY <1>1, <3>1, ParserIs DEF CallInv
    <3>3. f # "extension_order" /\ f # "host" /\ f # "psk_present" /\ f # "ech_present"
      BY <3>2 DEF ListFields
    <3> HIDE DEF f
    <3>4. {"extension_order", "host", "psk_present", "ech_present"} \subseteq DOMAIN meta
      BY <1>1 DEF MetaInv, MetaFields
    <3>5. QED
      BY <3>1, <3>3, <3>4
  <2>3. QED
    BY <2>1, <2>2
<1>4. CASE TakeList \/ SkipName
  <2>1. pc' = "walk" /\ ((at = "some" /\ kind # "server_name") \/ at = "skip")
    BY <1>4 DEF TakeList, SkipName
  <2>2. Verdict(kind, body) \in {"ok", "skip"}
    BY <1>2, <2>1, AnswerIsVerdict DEF BytesInv
  <2>3. Walk!NewType
    BY <1>1, <1>3, <2>1, AnswerIsNew
  <2>4. QED
    BY <1>1, <1>2, <1>3, <2>1, <2>2, <2>3 DEF Walk!ReadOther
<1>5. CASE RejectBody
  <2>1. pc' = "rejected" /\ at = "none"
    BY <1>5 DEF RejectBody
  <2>2. Verdict(kind, body) = "bad"
    BY <1>2, <2>1, AnswerIsVerdict DEF BytesInv
  <2>3. Walk!NewType
    BY <1>1, <1>3, <2>1, AnswerIsNew
  <2>4. QED
    BY <1>1, <1>2, <1>3, <2>1, <2>2, <2>3 DEF Walk!RejectBody
<1>6. QED
  BY <1>4, <1>5

\* A host is taken: it is the one that the walk finds in the body.
LEMMA HostIsTaken ==
    ASSUME BytesInv, TakeHost
    PROVE  Walk!ReadHost
<1> DEFINE e == Content[message].exts
           n == Len(Behind) + 1
<1>1. /\ pc = "body" /\ pc' = "walk" /\ at = "some" /\ kind = "server_name"
      /\ sni_host' = out /\ message' = message /\ meta' = meta /\ message \in Messages
  BY DEF TakeHost, BytesInv, HelloInv
<1>2. /\ n \in 1..Len(e) /\ e[n].type = Called /\ e[n].body = Verdict(kind, body)
      /\ Called = Ext.server_name /\ kind # None
      /\ \A h \in HostsNamed(body) : Opaque(h) \notin {"ok", "bad", "skip"}
  BY <1>1, CallsAgree
<1>3. e[n].body = Opaque(out) /\ Opaque(out) \notin {"ok", "bad", "skip"}
  BY <1>1, <1>2, AnswerIsVerdict DEF BytesInv
<1>4. e[n].body \in HostsOfAll
  <2>1. n \in DOMAIN e
    BY <1>1, <1>2, ContentIs
  <2>2. e[n] \in AllExtensions
    BY <1>1, <2>1 DEF AllExtensions
  <2>3. QED
    BY <1>3, <2>2 DEF HostsOfAll
<1>5. Walk!NewType
  BY <1>1, AnswerIsNew
<1>6. QED
  BY <1>1, <1>2, <1>3, <1>4, <1>5 DEF Walk!ReadHost

\* The block is exhausted for both.
LEMMA EndIsEnd ==
    ASSUME BytesInv, FinishHello
    PROVE  Walk!Finish
<1> DEFINE e == Content[message].exts
           n == Len(Behind) + 1
<1>1. /\ pc = "walk" /\ pc' = "accepted" /\ ~InLoop /\ message' = message /\ sni_host' = sni_host
      /\ meta' = [meta EXCEPT !.host = IF meta.ech_present THEN None ELSE sni_host]
      /\ HelloInv /\ MetaInv
  BY DEF FinishHello, BytesInv, HelloInv
<1>2. /\ meta'.extension_order = meta.extension_order
      /\ meta'.psk_present = meta.psk_present /\ meta'.ech_present = meta.ech_present
      /\ meta'.host = IF meta.ech_present THEN None ELSE sni_host
  BY <1>1 DEF MetaInv, MetaFields
<1>3. Behind = meta.extension_order /\ Behind' = Behind
  BY <1>1, <1>2, BehindIs DEF Behind
<1>4. ~(n <= Len(e) \/ Content[message].tail = "overrun")
  BY <1>1, <1>3, WalksAgree
<1>5. ~Walk!InLoop
  BY <1>4 DEF Walk!InLoop
<1>6. Opaque(meta'.host) = IF meta.ech_present THEN None ELSE Opaque(sni_host)
  BY <1>2, NoneIsNone
<1>7. QED
  BY <1>1, <1>2, <1>3, <1>5, <1>6 DEF Walk!Finish, Walk!input

\* Byte by byte the parser walks the extensions as ClientHello does: every step is one
\* of that walk's or unseen by it.
THEOREM BytesImplementWalk == HelloSpec => ImplementsWalk
<1>1. (\E m \in Messages : StartOn(m)) => Walk!Init
  BY WalkStarts
<1>2. BytesInv /\ BytesInv' /\ [HelloNext]_helloVars => [Walk!Next]_(Walk!vars)
  <2> SUFFICES ASSUME BytesInv, BytesInv', [HelloNext]_helloVars
               PROVE  Walk!Next \/ UNCHANGED Walk!vars
    OBVIOUS
  <2>1. CASE RejectHello \/ ReadHello
    BY <2>1, HelloIsRead DEF Walk!Next, Walk!ParseStep
  <2>2. CASE RejectExtension
    BY <2>2, ExtensionIsRejected DEF Walk!Next, Walk!ParseStep
  <2>3. CASE TakeFlag
    BY <2>3, FlagIsTaken DEF Walk!Next, Walk!ParseStep
  <2>4. CASE CallParser \/ ParseBody
    BY <2>4, CallIsUnseen
  <2>5. CASE TakeList \/ SkipName \/ RejectBody
    BY <2>5, AnswerIsTaken DEF Walk!Next, Walk!ParseStep
  <2>6. CASE TakeHost
    BY <2>6, HostIsTaken DEF Walk!Next, Walk!ParseStep
  <2>7. CASE FinishHello
    BY <2>7, EndIsEnd DEF Walk!Next, Walk!ParseStep
  <2>8. CASE UNCHANGED helloVars
    <3>1. pc' = pc /\ message' = message /\ meta' = meta /\ sni_host' = sni_host
      BY <2>8 DEF helloVars, walkvars
    <3>2. Behind' = Behind
      BY <3>1 DEF Behind
    <3>3. QED
      BY <3>1, <3>2 DEF Walk!vars, Walk!input, Walk!meta
  <2>9. QED
    BY <2>1, <2>2, <2>3, <2>4, <2>5, <2>6, <2>7, <2>8 DEF HelloNext
<1>3. QED
  BY <1>1, <1>2, BytesInvariant, PTL DEF HelloSpec, ImplementsWalk, Walk!Spec

--------------------------------------------------------------------------------
(* The messages that the builders put together, and those that none does. *)

\* They are among the messages to parse.
LEMMA BuiltIsHello == BuiltSpec => HelloSpec
<1>1. BuiltInit => \E m \in Messages : StartOn(m)
  BY BuiltAssumption DEF BuiltInit
<1>2. [BuiltNext]_<<helloVars, sent>> => [HelloNext]_helloVars
  BY DEF BuiltNext
<1>3. QED
  BY <1>1, <1>2, PTL DEF BuiltSpec, HelloSpec

\* What holds of a parser on its body holds of every parser that the walk calls, on
\* the body the walk hands it.
THEOREM CalledParsersHaveMeaning ==
    BuiltSpec => [](TypeOK /\ PairsVerbatim /\ ListIsMeaning /\ HostIsMeaning)
<1>1. BytesInv => TypeOK /\ PairsVerbatim /\ ListIsMeaning /\ HostIsMeaning
  BY PairsHaveMeaning, ListHasMeaning, NameHasMeaning DEF BytesInv, BodyInv
<1>2. QED
  BY <1>1, BuiltIsHello, BytesInvariant, PTL

\* The bytes of a builder, or of none, are walked as ClientHello walks them.
THEOREM BuiltImplementsWalk == BuiltSpec => ImplementsWalk
BY BuiltIsHello, BytesImplementWalk, PTL

--------------------------------------------------------------------------------
(* Sequences written one behind the other. *)

\* flat is the first i of the sequences ss, which start behind the first p[k] of it.
LaidTo(ss, i, flat, p) ==
    /\ p \in Seq(Nat) /\ Len(p) = i + 1 /\ p[1] = 0 /\ Len(flat) = p[i + 1]
    /\ \A k \in 1..i :
        /\ p[k + 1] = p[k] + Len(ss[k])
        /\ \A j \in 1..Len(ss[k]) : flat[p[k] + j] = ss[k][j]

Laid(ss, flat, p) == LaidTo(ss, Len(ss), flat, p)

\* What comes later starts further on.
LEMMA LaidInOrder ==
    ASSUME NEW S, NEW ss \in Seq(Seq(S)), NEW i \in 0..Len(ss), NEW flat, NEW p,
           LaidTo(ss, i, flat, p), NEW k \in 1..i
    PROVE  p[k] \in Nat /\ p[k + 1] \in Nat /\ Len(ss[k]) \in Nat
           /\ p[k + 1] = p[k] + Len(ss[k]) /\ p[k + 1] <= Len(flat)
<1>0. /\ Len(ss) \in Nat /\ i \in Nat /\ p \in Seq(Nat) /\ Len(p) = i + 1
      /\ Len(flat) = p[i + 1]
      /\ \A m \in 1..(i + 1) : p[m] \in Nat
      /\ \A m \in 1..i : Len(ss[m]) \in Nat /\ p[m + 1] = p[m] + Len(ss[m])
  <2>1. Len(ss) \in Nat /\ i \in Nat /\ p \in Seq(Nat) /\ Len(p) = i + 1 /\ Len(flat) = p[i + 1]
    BY DEF LaidTo
  <2>2. \A m \in 1..(i + 1) : p[m] \in Nat
    BY <2>1
  <2>3. ASSUME NEW m \in 1..i PROVE Len(ss[m]) \in Nat /\ p[m + 1] = p[m] + Len(ss[m])
    <3>1. m \in 1..Len(ss)
      BY <2>1
    <3>2. ss[m] \in Seq(S)
      BY <3>1
    <3>3. QED
      BY <3>2 DEF LaidTo
  <2>4. QED
    BY <2>1, <2>2, <2>3
<1>1. k \in 1..(i + 1) /\ k + 1 \in 1..(i + 1) /\ i + 1 \in 1..(i + 1) /\ i \in 1..i
  BY <1>0
<1> DEFINE late == { m \in Nat : m \in 1..(i + 1) /\ p[m] > p[i + 1] }
<1>2. late = {}
  <2> SUFFICES ASSUME late # {} PROVE FALSE
    OBVIOUS
  <2>1. PICK g \in late : \A m \in late : m <= g
    <3>1. late \subseteq Nat /\ i + 2 \in Nat /\ \A m \in late : m < i + 2
      BY <1>0
    <3> HIDE DEF late
    <3>2. QED
      BY <3>1, GreatestNatural
  <2>2. g \in 1..(i + 1) /\ p[g] > p[i + 1]
    BY <2>1
  <2>3. CASE g = i + 1
    BY <1>0, <1>1, <2>2, <2>3
  <2>4. CASE g # i + 1
    <3>1. g \in 1..i /\ g + 1 \in 1..(i + 1) /\ g + 1 \in Nat
      BY <1>0, <2>2, <2>4
    <3>2. PICK a \in Nat, b \in Nat, c \in Nat, d \in Nat :
             a = p[g] /\ b = p[g + 1] /\ c = Len(ss[g]) /\ d = p[i + 1] /\ b = a + c
      BY <1>0, <1>1, <3>1, <2>2
    <3>3. p[g + 1] > p[i + 1]
      <4>1. a > d
        BY <2>2, <3>2
      <4>2. b = a + c
        BY <3>2
      <4>3. b > d
        BY <4>1, <4>2
      <4>4. QED
        BY <3>2, <4>3
    <3>4. g + 1 \in late
      BY <3>1, <3>3
    <3>5. QED
      BY <2>1, <2>2, <3>1, <3>4
  <2>5. QED
    BY <2>3, <2>4
<1>3. p[k + 1] <= p[i + 1]
  <2>1. PICK a \in Nat, d \in Nat : a = p[k + 1] /\ d = p[i + 1]
    BY <1>0, <1>1
  <2>2. ~(p[k + 1] > p[i + 1])
    <3>1. k + 1 \in Nat /\ k + 1 \notin late
      BY <1>1, <1>2
    <3>2. QED
      BY <1>1, <3>1
  <2>3. QED
    BY <2>1, <2>2
<1>4. QED
  BY <1>0, <1>1, <1>3

\* One more is written.
LEMMA LaidGrows ==
    ASSUME NEW S, NEW ss \in Seq(Seq(S)), NEW i \in 0..(Len(ss) - 1), NEW flat \in Seq(S),
           NEW p, LaidTo(ss, i, flat, p)
    PROVE  /\ flat \o ss[i + 1] \in Seq(S)
           /\ LaidTo(ss, i + 1, flat \o ss[i + 1], Append(p, p[i + 1] + Len(ss[i + 1])))
<1> DEFINE t == ss[i + 1]
           q == Append(p, p[i + 1] + Len(t))
           both == flat \o t
<1>1. /\ i \in Nat /\ Len(ss) \in Nat /\ i + 1 \in 1..Len(ss) /\ t \in Seq(S) /\ Len(t) \in Nat
      /\ p \in Seq(Nat) /\ Len(p) = i + 1 /\ p[1] = 0 /\ Len(flat) = p[i + 1]
      /\ p[i + 1] \in Nat
      /\ i \in 0..Len(ss)
  BY DEF LaidTo
<1>2. both \in Seq(S) /\ Len(both) = Len(flat) + Len(t)
      /\ \A j \in 1..(Len(flat) + Len(t)) :
            both[j] = IF j <= Len(flat) THEN flat[j] ELSE t[j - Len(flat)]
  BY <1>1, ConcatProperties
<1>3. /\ q \in Seq(Nat) /\ Len(q) = i + 2 /\ q[i + 2] = p[i + 1] + Len(t)
      /\ \A m \in 1..(i + 1) : q[m] = p[m]
  <2>1. p[i + 1] + Len(t) \in Nat
    BY <1>1
  <2> HIDE DEF t
  <2>2. QED
    BY <1>1, <2>1, AppendProperties
<1> HIDE DEF both, q
<1>4. ASSUME NEW k \in 1..(i + 1)
      PROVE  /\ q[k + 1] = q[k] + Len(ss[k])
             /\ \A j \in 1..Len(ss[k]) : both[q[k] + j] = ss[k][j]
  <2>1. CASE k = i + 1
    <3>1. q[k] = p[i + 1] /\ q[k + 1] = p[i + 1] + Len(t) /\ ss[k] = t
      BY <1>1, <1>3, <2>1
    <3>2. ASSUME NEW j \in 1..Len(t)
          PROVE  both[p[i + 1] + j] = t[j]
      <4>1. /\ p[i + 1] + j \in 1..(Len(flat) + Len(t)) /\ ~(p[i + 1] + j <= Len(flat))
            /\ (p[i + 1] + j) - Len(flat) = j
        BY <1>1
      <4> HIDE DEF t
      <4>2. QED
        BY <1>2, <4>1
    <3>3. QED
      BY <3>1, <3>2
  <2>2. CASE k # i + 1
    <3>1. k \in 1..i /\ k \in 1..(i + 1) /\ k + 1 \in 1..(i + 1)
      BY <1>1, <2>2
    <3>2. q[k] = p[k] /\ q[k + 1] = p[k + 1]
      BY <1>3, <3>1
    <3>3. /\ p[k] \in Nat /\ p[k + 1] \in Nat /\ Len(ss[k]) \in Nat
          /\ p[k + 1] = p[k] + Len(ss[k]) /\ p[k + 1] <= Len(flat)
      BY <1>1, <3>1, LaidInOrder
    <3>4. ASSUME NEW j \in 1..Len(ss[k])
          PROVE  both[p[k] + j] = ss[k][j]
      <4>1. p[k] + j \in 1..(Len(flat) + Len(t)) /\ p[k] + j <= Len(flat)
        <5>1. PICK a \in Nat, b \in Nat, l \in Nat :
                 a = p[k] /\ b = p[k + 1] /\ l = Len(ss[k]) /\ b = a + l
          BY <3>3
        <5>2. Len(flat) \in Nat /\ b <= Len(flat) /\ j <= l
          BY <1>1, <3>3, <5>1
        <5>3. PICK x \in Nat, y \in Nat, z \in Nat : x = Len(flat) /\ y = Len(t) /\ z = j /\ z >= 1
          BY <1>1, <5>1
        <5>4. b <= x /\ z <= l /\ z >= 1 /\ b = a + l
          BY <5>1, <5>2, <5>3
        <5>5. a + z \in 1..(x + y) /\ a + z <= x
          BY <5>4
        <5>6. QED
          BY <5>1, <5>3, <5>5
      <4>2. flat[p[k] + j] = ss[k][j]
        BY <3>1 DEF LaidTo
      <4> HIDE DEF t
      <4>3. QED
        BY <1>2, <4>1, <4>2
    <3>5. QED
      BY <3>2, <3>3, <3>4
  <2>3. QED
    BY <2>1, <2>2
<1>5. q[1] = 0 /\ Len(both) = q[(i + 1) + 1] /\ Len(q) = (i + 1) + 1
  BY <1>1, <1>2, <1>3
<1>6. LaidTo(ss, i + 1, both, q)
  BY <1>3, <1>4, <1>5 DEF LaidTo
<1>7. QED
  BY <1>2, <1>6 DEF both, q

\* The first i of them, by those before, of the function f; and what FlattenSeq calls.
FlatStep(ss, f, i) == IF i = 1 THEN ss[i] ELSE f[i - 1] \o ss[i]

FlatTo(ss) == CHOOSE f : f = [i \in 1..Len(ss) |-> FlatStep(ss, f, i)]

\* It is the flattened sequence, without the community module's own name for it.
LEMMA FlattenIsFlat ==
    ASSUME NEW ss, Len(ss) # 0 PROVE FlattenSeq(ss) = FlatTo(ss)[Len(ss)]
<1>1. FlattenSeq(ss) =
        (CHOOSE f : f = [i \in 1..Len(ss) |->
            IF i = 1 THEN ss[i] ELSE f[i - 1] \o ss[i]])[Len(ss)]
  BY Zenon DEF FlattenSeq
<1>2. QED
  BY <1>1, Zenon DEF FlatTo, FlatStep

\* There is such a function.
LEMMA FlatToIs ==
    ASSUME NEW ss, Len(ss) \in Nat
    PROVE  FlatTo(ss) = [i \in 1..Len(ss) |-> FlatStep(ss, FlatTo(ss), i)]
<1> DEFINE N == Len(ss)
           Is(n, f) == f = [i \in 1..n |-> FlatStep(ss, f, i)]
           unknown == { n \in 0..N : ~\E f : Is(n, f) }
<1>1. unknown = {}
  <2> SUFFICES ASSUME unknown # {} PROVE FALSE
    OBVIOUS
  <2>1. PICK n \in unknown : \A m \in unknown : n <= m
    <3>1. unknown \subseteq Nat
      OBVIOUS
    <3> HIDE DEF unknown
    <3>2. QED
      BY <3>1, LeastNatural
  <2>2. n # 0
    <3>1. 1..0 = {}
      OBVIOUS
    <3>2. Is(0, [i \in 1..0 |-> 0])
      BY <3>1
    <3>3. QED
      BY <2>1, <3>2
  <2>3. n \in 1..N /\ n - 1 \in 0..N /\ n - 1 \in Nat /\ ~(n <= n - 1)
    BY <2>1, <2>2
  <2>4. PICK f : Is(n - 1, f)
    BY <2>1, <2>3
  <2> DEFINE g == [i \in 1..n |-> IF i = n THEN FlatStep(ss, f, i) ELSE f[i]]
  <2>5. ASSUME NEW i \in 1..n
        PROVE  g[i] = FlatStep(ss, g, i)
    <3>1. i # 1 => i - 1 \in 1..n /\ i - 1 # n
      BY <2>3
    <3>2. FlatStep(ss, g, i) = FlatStep(ss, f, i)
      BY <3>1 DEF FlatStep
    <3>3. i # n => i \in 1..(n - 1)
      BY <2>3
    <3>4. i # n => f[i] = FlatStep(ss, f, i)
      BY <2>4, <3>3
    <3>5. QED
      BY <3>2, <3>4
  <2>6. g = [i \in 1..n |-> g[i]]
    OBVIOUS
  <2> HIDE DEF g
  <2>7. Is(n, g)
    BY <2>5, <2>6
  <2>8. QED
    BY <2>1, <2>7
<1>2. \E f : Is(N, f)
  BY <1>1
<1>3. QED
  BY <1>2, Zenon DEF FlatTo

\* What FlattenSeq puts together.
LEMMA FlattenIs ==
    ASSUME NEW S, NEW ss \in Seq(Seq(S))
    PROVE  FlattenSeq(ss) \in Seq(S) /\ \E p : Laid(ss, FlattenSeq(ss), p)
<1> DEFINE N == Len(ss)
           f == FlatTo(ss)
           Good(i, flat) == flat \in Seq(S) /\ \E p : LaidTo(ss, i, flat, p)
           bad == { n \in 1..N : ~Good(n, f[n]) }
<1>1. N \in Nat /\ f = [i \in 1..N |-> FlatStep(ss, f, i)]
  BY FlatToIs
<1>2. Good(0, <<>>)
  <2>1. <<0>> \in Seq(Nat) /\ Len(<<0>>) = 0 + 1 /\ <<0>>[1] = 0 /\ 1..0 = {}
    OBVIOUS
  <2>2. <<>> \in Seq(S) /\ Len(<<>>) = <<0>>[0 + 1]
    BY <2>1, EmptySeq
  <2>3. LaidTo(ss, 0, <<>>, <<0>>)
    BY <2>1, <2>2 DEF LaidTo
  <2>4. QED
    BY <2>2, <2>3
<1>3. ASSUME NEW i \in 0..(N - 1), NEW flat, Good(i, flat)
      PROVE  Good(i + 1, flat \o ss[i + 1])
  <2>1. flat \in Seq(S)
    BY <1>3
  <2>2. PICK p : LaidTo(ss, i, flat, p)
    BY <1>3
  <2>3. /\ flat \o ss[i + 1] \in Seq(S)
        /\ LaidTo(ss, i + 1, flat \o ss[i + 1], Append(p, p[i + 1] + Len(ss[i + 1])))
    BY <2>1, <2>2, LaidGrows
  <2>4. QED
    BY <2>3
<1> HIDE DEF Good, f
<1>4. CASE N = 0
  <2>1. ss = <<>>
    BY <1>4, EmptySeq
  <2>2. FlattenSeq(ss) = ss
    BY <1>4, Zenon DEF FlattenSeq
  <2>3. QED
    BY <1>2, <1>4, <2>1, <2>2 DEF Good, Laid
<1>5. CASE N # 0
  <2>1. bad = {}
    <3> SUFFICES ASSUME bad # {} PROVE FALSE
      OBVIOUS
    <3>1. PICK n \in bad : \A m \in bad : n <= m
      <4>1. bad \subseteq Nat
        OBVIOUS
      <4> HIDE DEF bad
      <4>2. QED
        BY <4>1, LeastNatural
    <3>2. n \in 1..N /\ ~Good(n, f[n]) /\ f[n] = FlatStep(ss, f, n)
      BY <1>1, <3>1
    <3>3. CASE n = 1
      <4>1. f[n] = ss[1] /\ 0 \in 0..(N - 1) /\ 0 + 1 = 1 /\ 1 \in 1..N
        BY <1>1, <1>5, <3>2, <3>3 DEF FlatStep
      <4>2. Good(1, <<>> \o ss[1])
        BY <1>2, <1>3, <4>1
      <4>3. <<>> \o ss[1] = ss[1]
        BY <4>1
      <4>4. QED
        BY <3>2, <3>3, <4>1, <4>2, <4>3
    <3>4. CASE n # 1
      <4>1. /\ n - 1 \in 1..N /\ n - 1 \in 0..(N - 1) /\ (n - 1) + 1 = n
            /\ ~(n <= n - 1)
        BY <1>1, <3>2, <3>4
      <4>2. Good(n - 1, f[n - 1]) /\ f[n] = f[n - 1] \o ss[n]
        BY <3>1, <3>2, <3>4, <4>1 DEF FlatStep
      <4>3. Good(n, f[n - 1] \o ss[n])
        <5> DEFINE i == n - 1
        <5>1. i \in 0..(N - 1) /\ i + 1 = n /\ Good(i, f[n - 1])
          BY <4>1, <4>2
        <5> HIDE DEF i
        <5>2. QED
          BY <1>3, <5>1
      <4>4. QED
        BY <3>2, <4>2, <4>3
    <3>5. QED
      BY <3>3, <3>4
  <2>2. N \in 1..N
    BY <1>1, <1>5
  <2>3. Good(N, f[N])
    BY <2>1, <2>2
  <2>4. FlattenSeq(ss) = f[N]
    BY <1>5, FlattenIsFlat DEF f
  <2>5. QED
    BY <2>3, <2>4 DEF Good, Laid
<1>6. QED
  BY <1>4, <1>5

--------------------------------------------------------------------------------
(* Numbers and prefixes in bytes. *)

\* Bytes are numbers.
LEMMA BytesAreNumbers == ASSUME NEW s \in Seq(Byte) PROVE s \in Seq(Nat)
<1>1. \A x \in Byte : x \in Nat
  BY DEF Byte
<1>2. s = [k \in 1..Len(s) |-> s[k]] /\ Len(s) \in Nat /\ \A k \in 1..Len(s) : s[k] \in Byte
  OBVIOUS
<1>3. \A k \in 1..Len(s) : s[k] \in Nat
  BY <1>1, <1>2
<1>4. QED
  BY <1>2, <1>3

\* One sequence behind another.
LEMMA JoinIs ==
    ASSUME NEW s \in Seq(Nat), NEW t \in Seq(Nat)
    PROVE  /\ s \o t \in Seq(Nat) /\ Len(s \o t) = Len(s) + Len(t)
           /\ Len(s) \in Nat /\ Len(t) \in Nat
           /\ \A k \in 1..Len(s) : (s \o t)[k] = s[k]
           /\ \A k \in 1..Len(t) : (s \o t)[Len(s) + k] = t[k]
<1>1. Len(s) \in Nat /\ Len(t) \in Nat
  OBVIOUS
<1>2. /\ s \o t \in Seq(Nat) /\ Len(s \o t) = Len(s) + Len(t)
      /\ \A k \in 1..(Len(s) + Len(t)) :
            (s \o t)[k] = IF k <= Len(s) THEN s[k] ELSE t[k - Len(s)]
  BY ConcatProperties
<1>3. ASSUME NEW k \in 1..Len(s) PROVE (s \o t)[k] = s[k]
  <2>1. k \in 1..(Len(s) + Len(t)) /\ k <= Len(s)
    BY <1>1
  <2>2. QED
    BY <1>2, <2>1
<1>4. ASSUME NEW k \in 1..Len(t) PROVE (s \o t)[Len(s) + k] = t[k]
  <2>1. /\ Len(s) + k \in 1..(Len(s) + Len(t)) /\ ~(Len(s) + k <= Len(s))
        /\ (Len(s) + k) - Len(s) = k
    BY <1>1
  <2>2. QED
    BY <1>2, <2>1
<1>5. QED
  BY <1>1, <1>2, <1>3, <1>4

\* Two bytes, the high one first.
LEMMA U16Is ==
    ASSUME NEW n \in Nat
    PROVE  /\ U16(n) \in Seq(Nat) /\ Len(U16(n)) = 2
           /\ 256 * U16(n)[1] + U16(n)[2] = n
<1>1. PICK q \in Nat, r \in Nat : n \div 256 = q /\ n % 256 = r /\ 256 * q + r = n
  OBVIOUS
<1>2. U16(n) = <<q, r>>
  BY <1>1 DEF U16
<1>3. QED
  BY <1>1, <1>2

\* Bytes under a length of two bytes ...
LEMMA UnderU16Is ==
    ASSUME NEW list \in Seq(Nat)
    PROVE  /\ UnderU16(list) \in Seq(Nat) /\ Len(list) \in Nat
           /\ Len(UnderU16(list)) = Len(list) + 2
           /\ 256 * UnderU16(list)[1] + UnderU16(list)[2] = Len(list)
           /\ \A k \in 1..Len(list) : UnderU16(list)[k + 2] = list[k]
<1> DEFINE n == Len(list)
           b == UnderU16(list)
<1>1. /\ n \in Nat /\ U16(n) \in Seq(Nat) /\ Len(U16(n)) = 2
      /\ 256 * U16(n)[1] + U16(n)[2] = n
  <2>1. n \in Nat
    OBVIOUS
  <2> HIDE DEF n
  <2>2. QED
    BY <2>1, U16Is
<1>2. b = U16(n) \o list
  BY DEF UnderU16
<1> HIDE DEF b, n
<1>3. /\ b \in Seq(Nat) /\ Len(b) = 2 + Len(list)
      /\ \A k \in 1..2 : b[k] = U16(n)[k]
      /\ \A k \in 1..Len(list) : b[2 + k] = list[k]
  <2> DEFINE u == U16(n)
  <2>1. u \in Seq(Nat) /\ Len(u) = 2 /\ b = u \o list
    BY <1>1, <1>2
  <2> HIDE DEF u
  <2>2. /\ b \in Seq(Nat) /\ Len(b) = Len(u) + Len(list)
        /\ \A k \in 1..Len(u) : b[k] = u[k]
        /\ \A k \in 1..Len(list) : b[Len(u) + k] = list[k]
    BY <2>1, JoinIs
  <2>3. QED
    BY <2>1, <2>2 DEF u
<1>4. b[1] = U16(n)[1] /\ b[2] = U16(n)[2]
  BY <1>3
<1>5. 256 * b[1] + b[2] = n
  BY <1>1, <1>4
<1>6. \A k \in 1..Len(list) : 2 + k = k + 2
  OBVIOUS
<1>7. QED
  BY <1>1, <1>3, <1>5, <1>6 DEF b, n

\* ... and of one.
LEMMA UnderU8Is ==
    ASSUME NEW list \in Seq(Nat)
    PROVE  /\ UnderU8(list) \in Seq(Nat) /\ Len(list) \in Nat
           /\ Len(UnderU8(list)) = Len(list) + 1
           /\ UnderU8(list)[1] = Len(list)
           /\ \A k \in 1..Len(list) : UnderU8(list)[k + 1] = list[k]
<1> DEFINE n == Len(list)
           b == UnderU8(list)
<1>1. n \in Nat /\ <<n>> \in Seq(Nat) /\ Len(<<n>>) = 1 /\ <<n>>[1] = n
  OBVIOUS
<1>2. b = <<n>> \o list
  BY DEF UnderU8
<1> HIDE DEF b, n
<1>3. /\ b \in Seq(Nat) /\ Len(b) = 1 + Len(list)
      /\ \A k \in 1..1 : b[k] = <<n>>[k]
      /\ \A k \in 1..Len(list) : b[1 + k] = list[k]
  BY <1>1, <1>2, JoinIs
<1>4. b[1] = n
  BY <1>1, <1>3
<1>5. QED
  BY <1>1, <1>3, <1>4 DEF b, n

\* What is written under a length is what is read under it.
LEMMA ListUnder ==
    ASSUME NEW list \in Seq(Nat)
    PROVE  /\ UnderU16(list) \in Seq(Byte) =>
                HasList(UnderU16(list), 2) /\ List(UnderU16(list), 2) = list
           /\ UnderU8(list) \in Seq(Byte) =>
                HasList(UnderU8(list), 1) /\ List(UnderU8(list), 1) = list
<1>1. ASSUME NEW w \in {1, 2}, NEW b \in Seq(Byte), Len(b) = Len(list) + w,
             Number(CursorOn(b), w) = Len(list),
             \A k \in 1..Len(list) : b[k + w] = list[k]
      PROVE  HasList(b, w) /\ List(b, w) = list
  <2> DEFINE c == CursorOn(b)
  <2>1. c \in Cursors /\ c.bytes = b /\ c.pos = 0 /\ Len(list) \in Nat
    BY CursorOnIs
  <2> HIDE DEF c
  <2>2. PrefixFits(c, w)
    BY <1>1, <2>1 DEF PrefixFits, Fits, Remaining, c
  <2>3. /\ Prefixed(c, w) \in Seq(Byte) /\ Len(Prefixed(c, w)) = Len(list)
        /\ \A k \in 1..Len(list) : Prefixed(c, w)[k] = c.bytes[c.pos + w + k]
    <3>1. Number(c, w) = Len(list)
      BY <1>1 DEF c
    <3>2. QED
      BY <2>1, <2>2, <3>1, PrefixedIs
  <2>4. \A k \in 1..Len(list) : c.bytes[c.pos + w + k] = list[k]
    <3>1. \A k \in 1..Len(list) : c.pos + w + k = k + w
      BY <2>1
    <3>2. QED
      BY <1>1, <2>1, <3>1
  <2>5. Prefixed(c, w) = list
    <3> DEFINE read == Prefixed(c, w)
    <3>1. read \in Seq(Nat) /\ Len(read) = Len(list) /\ \A k \in 1..Len(list) : read[k] = list[k]
      BY <2>3, <2>4, BytesAreNumbers
    <3> HIDE DEF read
    <3>2. read = list
      BY <3>1, SeqEqual
    <3>3. QED
      BY <3>2 DEF read
  <2>6. QED
    BY <2>2, <2>5 DEF HasList, List, c
<1>2. ASSUME UnderU16(list) \in Seq(Byte)
      PROVE  HasList(UnderU16(list), 2) /\ List(UnderU16(list), 2) = list
  <2>1. Number(CursorOn(UnderU16(list)), 2) = Len(list)
    BY LimitIs, UnderU16Is
  <2>2. QED
    BY <1>1, <1>2, <2>1, UnderU16Is
<1>3. ASSUME UnderU8(list) \in Seq(Byte)
      PROVE  HasList(UnderU8(list), 1) /\ List(UnderU8(list), 1) = list
  <2>1. Number(CursorOn(UnderU8(list)), 1) = UnderU8(list)[1]
    BY DEF Number, CursorOn
  <2>2. QED
    BY <1>1, <1>3, <2>1, UnderU8Is
<1>4. QED
  BY <1>2, <1>3

--------------------------------------------------------------------------------
(* The message that build_handshake_message_custom writes, and what is read of it. *)

\* u is s with t behind it, by places counted from the start.
Joins(u, s, t) ==
    /\ u \in Seq(Nat) /\ Len(u) = Len(s) + Len(t)
    /\ \A i \in 1..Len(s) : u[i] = s[i]
    /\ \A i \in (Len(s) + 1)..(Len(s) + Len(t)) : u[i] = t[i - Len(s)]

\* So it is for one sequence behind another.
LEMMA JoinAt ==
    ASSUME NEW s \in Seq(Nat), NEW t \in Seq(Nat)
    PROVE  Joins(s \o t, s, t)
<1>1. Len(s) \in Nat /\ Len(t) \in Nat
  OBVIOUS
<1>2. /\ s \o t \in Seq(Nat) /\ Len(s \o t) = Len(s) + Len(t)
      /\ \A k \in 1..(Len(s) + Len(t)) :
            (s \o t)[k] = IF k <= Len(s) THEN s[k] ELSE t[k - Len(s)]
  BY ConcatProperties
<1>3. ASSUME NEW k \in 1..Len(s) PROVE (s \o t)[k] = s[k]
  <2>1. k \in 1..(Len(s) + Len(t)) /\ k <= Len(s)
    BY <1>1
  <2>2. QED
    BY <1>2, <2>1
<1>4. ASSUME NEW k \in (Len(s) + 1)..(Len(s) + Len(t)) PROVE (s \o t)[k] = t[k - Len(s)]
  <2>1. k \in 1..(Len(s) + Len(t)) /\ ~(k <= Len(s))
    BY <1>1
  <2>2. QED
    BY <1>2, <2>1
<1>5. QED
  BY <1>2, <1>3, <1>4 DEF Joins

\* Where each field of a message stands.
FieldsOf(m, n, l, suites, exts) ==
    /\ Len(m) = 45 + n + l
    /\ m[1] = HelloType /\ 256 * m[5] + m[6] = LegacyVersion
    /\ m[39] = 0
    /\ 256 * m[40] + m[41] = n /\ \A i \in 42..(41 + n) : m[i] = suites[i - 41]
    /\ m[42 + n] = 1 /\ m[43 + n] = 0
    /\ 256 * m[44 + n] + m[45 + n] = l
    /\ \A i \in (46 + n)..(45 + n + l) : m[i] = exts[i - (45 + n)]

\* After two bytes of version and 32 of random, each field under its length.
HelloOf(suites, exts) ==
    U16(LegacyVersion) \o [k \in 1..32 |-> 170] \o UnderU8(<<>>) \o UnderU16(suites)
        \o UnderU8(<<0>>) \o UnderU16(exts)

\* What stands in it, by its place.
HelloReads(h, n, l, suites, exts) ==
    /\ h \in Seq(Nat) /\ Len(h) = 41 + n + l
    /\ 256 * h[1] + h[2] = LegacyVersion /\ h[35] = 0
    /\ 256 * h[36] + h[37] = n /\ \A i \in 38..(37 + n) : h[i] = suites[i - 37]
    /\ h[38 + n] = 1 /\ h[39 + n] = 0
    /\ 256 * h[40 + n] + h[41 + n] = l
    /\ \A i \in (42 + n)..(41 + n + l) : h[i] = exts[i - (41 + n)]

\* So it is.
LEMMA HelloIs ==
    ASSUME NEW exts \in Seq(Nat), NEW suites \in Seq(Nat),
           NEW n \in Nat, n = Len(suites), NEW l \in Nat, l = Len(exts),
           NEW h, h = HelloOf(suites, exts)
    PROVE  HelloReads(h, n, l, suites, exts)
<1> DEFINE random == [k \in 1..32 |-> 170]
           v == U16(LegacyVersion)
           id == UnderU8(<<>>)
           s == UnderU16(suites)
           c == UnderU8(<<0>>)
           x == UnderU16(exts)
           h1 == v \o random
           h2 == h1 \o id
           h3 == h2 \o s
           h4 == h3 \o c
<1>1. v \in Seq(Nat) /\ Len(v) = 2 /\ 256 * v[1] + v[2] = LegacyVersion
  <2>1. LegacyVersion \in Nat
    BY DEF LegacyVersion
  <2>2. QED
    BY <2>1, U16Is
<1>2. id \in Seq(Nat) /\ Len(id) = 1 /\ id[1] = 0
  <2> DEFINE none == <<>>
  <2>1. none \in Seq(Nat) /\ Len(none) = 0
    OBVIOUS
  <2>2. id = UnderU8(none)
    OBVIOUS
  <2> HIDE DEF none, id
  <2>3. /\ UnderU8(none) \in Seq(Nat) /\ Len(UnderU8(none)) = Len(none) + 1
        /\ UnderU8(none)[1] = Len(none)
    BY <2>1, UnderU8Is
  <2>4. QED
    BY <2>1, <2>2, <2>3
<1>3. /\ s \in Seq(Nat) /\ Len(s) = n + 2 /\ 256 * s[1] + s[2] = n
      /\ \A k \in 1..n : s[k + 2] = suites[k]
  BY UnderU16Is
<1>4. c \in Seq(Nat) /\ Len(c) = 2 /\ c[1] = 1 /\ c[2] = 0
  <2>1. <<0>> \in Seq(Nat) /\ Len(<<0>>) = 1 /\ <<0>>[1] = 0
    OBVIOUS
  <2>2. /\ c \in Seq(Nat) /\ Len(c) = Len(<<0>>) + 1 /\ c[1] = Len(<<0>>)
        /\ \A k \in 1..Len(<<0>>) : c[k + 1] = <<0>>[k]
    BY <2>1, UnderU8Is
  <2> HIDE DEF c
  <2>3. c[1 + 1] = <<0>>[1]
    BY <2>1, <2>2
  <2>4. QED
    BY <2>1, <2>2, <2>3
<1>5. /\ x \in Seq(Nat) /\ Len(x) = l + 2 /\ 256 * x[1] + x[2] = l
      /\ \A k \in 1..l : x[k + 2] = exts[k]
  BY UnderU16Is
<1>0. random \in Seq(Nat) /\ Len(random) = 32
  OBVIOUS
<1> HIDE DEF random, v, id, s, c, x
<1>6. Joins(h1, v, random)
  BY <1>0, <1>1, JoinAt
<1> HIDE DEF h1
<1>7. h1 \in Seq(Nat) /\ Len(h1) = 34 /\ \A i \in 1..2 : h1[i] = v[i]
  BY <1>0, <1>1, <1>6 DEF Joins
<1>c2. Joins(h2, h1, id)
  BY <1>2, <1>7, JoinAt
<1> HIDE DEF h2
<1>8. /\ h2 \in Seq(Nat) /\ Len(h2) = 35 /\ \A i \in 1..34 : h2[i] = h1[i]
      /\ h2[35] = id[1]
  BY <1>2, <1>7, <1>c2 DEF Joins
<1>c3. Joins(h3, h2, s)
  BY <1>3, <1>8, JoinAt
<1> HIDE DEF h3
<1>9. /\ h3 \in Seq(Nat) /\ Len(h3) = 37 + n /\ \A i \in 1..35 : h3[i] = h2[i]
      /\ \A i \in 36..(37 + n) : h3[i] = s[i - 35]
  BY <1>3, <1>8, <1>c3 DEF Joins
<1>c4. Joins(h4, h3, c)
  BY <1>4, <1>9, JoinAt
<1>c5. Joins(h, h4, x)
  <2>1. h4 \in Seq(Nat)
    BY <1>c4 DEF Joins
  <2>2. h = h4 \o x
    BY DEF HelloOf, h4, h3, h2, h1, random, v, id, s, c, x
  <2> HIDE DEF h4
  <2>3. QED
    BY <1>5, <2>1, <2>2, JoinAt
<1> HIDE DEF h4
<1>10. /\ h4 \in Seq(Nat) /\ Len(h4) = 39 + n /\ \A i \in 1..(37 + n) : h4[i] = h3[i]
       /\ \A i \in (38 + n)..(39 + n) : h4[i] = c[i - (37 + n)]
  <2>1. h4 \in Seq(Nat) /\ Len(h4) = 39 + n /\ \A i \in 1..(37 + n) : h4[i] = h3[i]
    BY <1>4, <1>9, <1>c4 DEF Joins
  <2>2. PICK a \in Nat : a = 37 + n
    OBVIOUS
  <2>3. \A i \in (a + 1)..(a + 2) : h4[i] = c[i - a]
    BY <1>4, <1>9, <1>c4, <2>2 DEF Joins
  <2>4. a + 1 = 38 + n /\ a + 2 = 39 + n
    BY <2>2
  <2>5. QED
    BY <2>1, <2>2, <2>3, <2>4
<1>11. /\ h \in Seq(Nat) /\ Len(h) = 41 + n + l /\ \A i \in 1..(39 + n) : h[i] = h4[i]
       /\ \A i \in (40 + n)..(41 + n + l) : h[i] = x[i - (39 + n)]
  BY <1>5, <1>10, <1>c5 DEF Joins
<1>12. h[1] = v[1] /\ h[2] = v[2] /\ h[35] = id[1]
  <2>1. \A i \in 1..35 : i \in 1..(37 + n) /\ i \in 1..(39 + n)
    OBVIOUS
  <2>2. \A i \in 1..35 : h[i] = h2[i]
    BY <1>9, <1>10, <1>11, <2>1
  <2>3. h[1] = h2[1] /\ h[2] = h2[2] /\ h[35] = h2[35]
    BY <2>2
  <2>4. h2[1] = v[1] /\ h2[2] = v[2]
    <3>1. 1 \in 1..2 /\ 2 \in 1..2 /\ 1 \in 1..34 /\ 2 \in 1..34
      OBVIOUS
    <3>2. h1[1] = v[1] /\ h1[2] = v[2] /\ h2[1] = h1[1] /\ h2[2] = h1[2]
      BY <1>7, <1>8, <3>1
    <3>3. QED
      BY <3>2
  <2>5. QED
    BY <1>8, <2>3, <2>4
<1>13. ASSUME NEW i \in 36..(37 + n) PROVE h[i] = s[i - 35]
  <2>1. i \in 1..(37 + n) /\ i \in 1..(39 + n)
    OBVIOUS
  <2>2. h[i] = h4[i] /\ h4[i] = h3[i] /\ h3[i] = s[i - 35]
    BY <1>9, <1>10, <1>11, <2>1
  <2>3. QED
    BY <2>2
<1>14. h[36] = s[1] /\ h[37] = s[2]
  <2>1. 36 \in 36..(37 + n) /\ 37 \in 36..(37 + n) /\ 36 - 35 = 1 /\ 37 - 35 = 2
    OBVIOUS
  <2>2. h[36] = s[36 - 35] /\ h[37] = s[37 - 35]
    BY <1>13, <2>1
  <2>3. QED
    BY <2>1, <2>2
<1>15. ASSUME NEW i \in 38..(37 + n) PROVE h[i] = suites[i - 37]
  <2>1. i \in 36..(37 + n) /\ i - 37 \in 1..n /\ (i - 37) + 2 = i - 35
    OBVIOUS
  <2>2. h[i] = s[i - 35] /\ s[(i - 37) + 2] = suites[i - 37]
    BY <1>3, <1>13, <2>1
  <2>3. QED
    BY <2>1, <2>2
<1>16. h[38 + n] = 1 /\ h[39 + n] = 0
  <2>1. ASSUME NEW d \in {1, 2} PROVE h[d + (37 + n)] = c[d]
    <3>1. PICK i \in Nat : i = d + (37 + n)
      OBVIOUS
    <3>2. i \in (38 + n)..(39 + n) /\ i \in 1..(39 + n) /\ i - (37 + n) = d
      BY <3>1
    <3>3. h[i] = h4[i] /\ h4[i] = c[i - (37 + n)]
      BY <1>10, <1>11, <3>2
    <3>4. QED
      BY <3>1, <3>2, <3>3
  <2>2. h[1 + (37 + n)] = c[1] /\ h[2 + (37 + n)] = c[2]
    BY <2>1
  <2>3. 1 + (37 + n) = 38 + n /\ 2 + (37 + n) = 39 + n
    OBVIOUS
  <2>4. QED
    BY <1>4, <2>2, <2>3
<1>17. h[40 + n] = x[1] /\ h[41 + n] = x[2]
  <2> DEFINE i == 40 + n
             j == 41 + n
  <2>1. /\ i \in (40 + n)..(41 + n + l) /\ i - (39 + n) = 1
        /\ j \in (40 + n)..(41 + n + l) /\ j - (39 + n) = 2
    OBVIOUS
  <2> HIDE DEF i, j
  <2>2. h[i] = x[i - (39 + n)] /\ h[j] = x[j - (39 + n)]
    BY <1>11, <2>1
  <2>3. QED
    BY <2>1, <2>2 DEF i, j
<1>18. ASSUME NEW i \in (42 + n)..(41 + n + l) PROVE h[i] = exts[i - (41 + n)]
  <2>1. /\ i \in (40 + n)..(41 + n + l) /\ i - (41 + n) \in 1..l
        /\ (i - (41 + n)) + 2 = i - (39 + n)
    OBVIOUS
  <2>2. h[i] = x[i - (39 + n)] /\ x[(i - (41 + n)) + 2] = exts[i - (41 + n)]
    BY <1>5, <1>11, <2>1
  <2>3. QED
    BY <2>1, <2>2
<1>19. 256 * h[1] + h[2] = LegacyVersion /\ h[35] = 0 /\ 256 * h[36] + h[37] = n
  BY <1>1, <1>2, <1>3, <1>12, <1>14
<1>20. 256 * h[40 + n] + h[41 + n] = l
  BY <1>5, <1>17
<1>21. QED
  BY <1>11, <1>15, <1>16, <1>18, <1>19, <1>20 DEF HelloReads

\* A message is a hello behind its type and its length.
LEMMA MessageIs ==
    ASSUME NEW exts \in Seq(Nat), NEW suites \in Seq(Nat), NEW n \in Nat, n = Len(suites),
           NEW l \in Nat, l = Len(exts),
           NEW m, m = Message(exts, LegacyVersion, <<>>, suites, << 0 >>)
    PROVE  FieldsOf(m, n, l, suites, exts)
<1>0. PICK h : h = HelloOf(suites, exts)
  OBVIOUS
<1> DEFINE top == <<HelloType>> \o U24(Len(h))
           N == 41 + n + l
<1>1. m = top \o h
  BY <1>0 DEF Message, HelloOf
<1>3. /\ h \in Seq(Nat) /\ Len(h) = N
      /\ 256 * h[1] + h[2] = LegacyVersion /\ h[35] = 0
      /\ 256 * h[36] + h[37] = n /\ \A i \in 38..(37 + n) : h[i] = suites[i - 37]
      /\ h[38 + n] = 1 /\ h[39 + n] = 0
      /\ 256 * h[40 + n] + h[41 + n] = l
      /\ \A i \in (42 + n)..N : h[i] = exts[i - (41 + n)]
  <2>1. HelloReads(h, n, l, suites, exts)
    BY <1>0, HelloIs
  <2>2. QED
    BY <2>1 DEF HelloReads
<1>4. top \in Seq(Nat) /\ Len(top) = 4 /\ top[1] = HelloType
  <2>1. PICK a \in Nat, b \in Nat, c \in Nat : U24(Len(h)) = <<a, b, c>>
    <3>1. PICK k \in Nat : k = Len(h)
      BY <1>3
    <3>2. k \div 65536 \in Nat /\ (k \div 256) % 256 \in Nat /\ k % 256 \in Nat
      OBVIOUS
    <3>3. QED
      BY <3>1, <3>2 DEF U24
  <2> DEFINE z == <<a, b, c>>
  <2>2. /\ <<1>> \in Seq(Nat) /\ Len(<<1>>) = 1 /\ <<1>>[1] = 1
        /\ z \in Seq(Nat) /\ Len(z) = 3
    OBVIOUS
  <2> HIDE DEF z
  <2>3. Joins(top, <<1>>, z)
    BY <2>1, <2>2, JoinAt DEF HelloType, z
  <2> HIDE DEF top
  <2>4. QED
    BY <2>2, <2>3 DEF HelloType, Joins
<1> HIDE DEF top
<1>5. N \in Nat /\ 4 + N = 45 + n + l
  OBVIOUS
<1>6. /\ Len(m) = 45 + n + l /\ m[1] = top[1]
      /\ \A i \in 5..(4 + N) : m[i] = h[i - 4]
  <2>1. Joins(m, top, h)
    BY <1>1, <1>3, <1>4, JoinAt
  <2> HIDE DEF N
  <2>2. QED
    BY <1>3, <1>4, <1>5, <2>1 DEF Joins
<1>7. /\ m[5] = h[1] /\ m[6] = h[2] /\ m[39] = h[35] /\ m[40] = h[36] /\ m[41] = h[37]
  <2>1. \A i \in 5..41 : i \in 5..(4 + N)
    OBVIOUS
  <2>2. \A i \in 5..41 : m[i] = h[i - 4]
    BY <1>6, <2>1
  <2>3. m[5] = h[5 - 4] /\ m[6] = h[6 - 4] /\ m[39] = h[39 - 4] /\ m[40] = h[40 - 4]
        /\ m[41] = h[41 - 4]
    BY <2>2
  <2>4. QED
    BY <2>3
<1>8. ASSUME NEW k \in {42, 43, 44, 45} PROVE m[k + n] = h[k - 4 + n]
  <2>1. k + n \in 5..(4 + N) /\ (k + n) - 4 = k - 4 + n
    OBVIOUS
  <2>2. m[k + n] = h[(k + n) - 4]
    BY <1>6, <2>1
  <2>3. QED
    BY <2>1, <2>2
<1>9. /\ m[42 + n] = h[38 + n] /\ m[43 + n] = h[39 + n]
      /\ m[44 + n] = h[40 + n] /\ m[45 + n] = h[41 + n]
  BY <1>8
<1>10. ASSUME NEW i \in 42..(41 + n) PROVE m[i] = suites[i - 41]
  <2>1. i \in 5..(4 + N) /\ i - 4 \in 38..(37 + n) /\ (i - 4) - 37 = i - 41
    OBVIOUS
  <2>2. m[i] = h[i - 4] /\ h[i - 4] = suites[(i - 4) - 37]
    BY <1>3, <1>6, <2>1
  <2>3. QED
    BY <2>1, <2>2
<1>11. ASSUME NEW i \in (46 + n)..(45 + n + l) PROVE m[i] = exts[i - (45 + n)]
  <2>1. i \in 5..(4 + N) /\ i - 4 \in (42 + n)..N /\ (i - 4) - (41 + n) = i - (45 + n)
    OBVIOUS
  <2>2. m[i] = h[i - 4] /\ h[i - 4] = exts[(i - 4) - (41 + n)]
    BY <1>3, <1>6, <2>1
  <2>3. QED
    BY <2>1, <2>2
<1>12. m[1] = HelloType /\ 256 * m[5] + m[6] = LegacyVersion /\ m[39] = 0
       /\ 256 * m[40] + m[41] = n
  BY <1>3, <1>4, <1>6, <1>7
<1>13. m[42 + n] = 1 /\ m[43 + n] = 0 /\ 256 * m[44 + n] + m[45 + n] = l
  BY <1>3, <1>9
<1>14. QED
  BY <1>6, <1>10, <1>11, <1>12, <1>13 DEF FieldsOf

--------------------------------------------------------------------------------
(* What the fields before the block are read as. *)

\* A cursor at a length x of w bytes, with that many bytes of list behind it.
NumberAt(c, w, x) ==
    /\ w = 1 => c.bytes[c.pos + 1] = x
    /\ w = 2 => 256 * c.bytes[c.pos + 1] + c.bytes[c.pos + 2] = x

ListAt(c, w, x, list) ==
    /\ list \in Seq(Nat) /\ Len(list) = x
    /\ c.pos + w + x <= Len(c.bytes)
    /\ \A i \in (c.pos + w + 1)..(c.pos + w + x) : c.bytes[i] = list[i - (c.pos + w)]

\* It is read.
LEMMA FieldIs ==
    ASSUME NEW c \in Cursors, NEW w \in {1, 2}, NEW x \in Nat, NumberAt(c, w, x),
           NEW list, ListAt(c, w, x, list)
    PROVE  /\ PrefixFits(c, w) /\ Number(c, w) = x /\ Prefixed(c, w) = list
           /\ AfterPrefixed(c, w) \in Cursors /\ AfterPrefixed(c, w).bytes = c.bytes
           /\ AfterPrefixed(c, w).pos = c.pos + w + x
<1>0. /\ list \in Seq(Nat) /\ Len(list) = x
      /\ c.pos + w + x <= Len(c.bytes)
      /\ \A i \in (c.pos + w + 1)..(c.pos + w + x) : c.bytes[i] = list[i - (c.pos + w)]
  BY DEF ListAt
<1>1. c.pos \in Nat /\ Len(c.bytes) \in Nat
  BY LenProperties DEF Cursors
<1>2. Fits(c, w)
  BY <1>0, <1>1 DEF Fits, Remaining
<1>3. Number(c, w) = x
  <2>1. CASE w = 1
    BY <1>2, <2>1, NumberIs DEF NumberAt
  <2>2. CASE w = 2
    BY <1>2, <2>2, NumberIs DEF NumberAt
  <2>3. QED
    BY <2>1, <2>2
<1>4. PrefixFits(c, w)
  BY <1>0, <1>1, <1>2, <1>3 DEF PrefixFits, Fits, Remaining
<1>5. /\ Prefixed(c, w) \in Seq(Byte) /\ Len(Prefixed(c, w)) = x
      /\ \A k \in 1..x : Prefixed(c, w)[k] = c.bytes[c.pos + w + k]
      /\ AfterPrefixed(c, w) \in Cursors /\ AfterPrefixed(c, w).bytes = c.bytes
  <2>1. /\ Prefixed(c, w) \in Seq(Byte) /\ Len(Prefixed(c, w)) = Number(c, w)
        /\ \A k \in 1..Number(c, w) : Prefixed(c, w)[k] = c.bytes[c.pos + w + k]
        /\ AfterPrefixed(c, w) \in Cursors /\ AfterPrefixed(c, w).bytes = c.bytes
    BY <1>4, PrefixedIs
  <2>2. QED
    BY <1>3, <2>1
<1>6. AfterPrefixed(c, w).pos = c.pos + w + x
  BY <1>3, <1>4, AfterPrefixedIs
<1>7. ASSUME NEW k \in 1..x PROVE Prefixed(c, w)[k] = list[k]
  <2>1. PICK i \in Nat : i = c.pos + w + k
    BY <1>1
  <2>2. i \in (c.pos + w + 1)..(c.pos + w + x) /\ i - (c.pos + w) = k
    BY <1>1, <2>1
  <2>3. c.bytes[i] = list[i - (c.pos + w)]
    BY <1>0, <2>2
  <2>4. QED
    BY <1>5, <2>1, <2>2, <2>3
<1>8. Prefixed(c, w) \in Seq(Nat)
  BY <1>5, BytesAreNumbers
<1>9. Prefixed(c, w) = list
  <2> DEFINE read == Prefixed(c, w)
  <2>1. /\ read \in Seq(Nat) /\ Len(read) = Len(list)
        /\ \A k \in 1..Len(list) : read[k] = list[k]
    BY <1>0, <1>5, <1>7, <1>8
  <2> HIDE DEF read
  <2>2. read = list
    BY <1>0, <2>1, SeqEqual
  <2>3. QED
    BY <2>2 DEF read
<1>10. QED
  BY <1>3, <1>4, <1>5, <1>6, <1>9

\* A message with these fields is a good hello if it has suites.
LEMMA GoodHelloIs ==
    ASSUME NEW m \in Seq(Byte), NEW n \in Nat, NEW l \in Nat,
           NEW suites \in Seq(Nat), n = Len(suites), NEW exts \in Seq(Nat), l = Len(exts),
           FieldsOf(m, n, l, suites, exts), n % 2 = 0
    PROVE  /\ GoodHello(m) <=> n > 0
           /\ Prefixed(Suites(m), 2) = suites /\ Prefixed(Extensions(m), 2) = exts
<1> DEFINE c0 == CursorOn(m)
           c1 == AfterHeader(m)
           c2 == SessionId(m)
           c3 == Suites(m)
           c4 == Compression(m)
           c5 == Extensions(m)
<1>0. Len(m) = 45 + n + l
  BY DEF FieldsOf
<1>1. c0 \in Cursors /\ c0.bytes = m /\ c0.pos = 0
  BY CursorOnIs
<1>2. Fits(c0, 4) /\ c1 \in Cursors /\ c1.bytes = m /\ c1.pos = 4
  <2>1. Fits(c0, 4)
    BY <1>0, <1>1 DEF Fits, Remaining
  <2>2. c1 = Skip(c0, 4)
    BY DEF AfterHeader
  <2> HIDE DEF c0, c1
  <2>3. QED
    BY <1>1, <2>1, <2>2, SkipIs
<1>3. /\ Fits(c1, 34) /\ Number(c1, 2) = LegacyVersion
      /\ c2 \in Cursors /\ c2.bytes = m /\ c2.pos = 38
  <2>1. c2 = Skip(c1, 34)
    BY DEF SessionId
  <2> HIDE DEF c1, c2
  <2>2. Fits(c1, 34) /\ Fits(c1, 2)
    BY <1>0, <1>2 DEF Fits, Remaining
  <2>3. c2 \in Cursors /\ c2.bytes = m /\ c2.pos = 38
    BY <1>2, <2>1, <2>2, SkipIs
  <2>4. Number(c1, 2) = 256 * m[5] + m[6]
    BY <1>2, <2>2, NumberIs
  <2>5. QED
    BY <2>2, <2>3, <2>4 DEF FieldsOf
<1>4. /\ PrefixFits(c2, 1) /\ Number(c2, 1) = 0
      /\ c3 \in Cursors /\ c3.bytes = m /\ c3.pos = 39
  <2>1. c3 = AfterPrefixed(c2, 1)
    BY DEF Suites
  <2> HIDE DEF c2, c3
  <2>2. PICK none \in Seq(Nat) : Len(none) = 0
    BY EmptySeq
  <2>3. PICK w \in {1, 2}, x \in Nat : w = 1 /\ x = 0
    OBVIOUS
  <2>a. Len(none) = x /\ w \in {1, 2} /\ x \in Nat
    BY <2>2, <2>3
  <2>4. NumberAt(c2, w, x)
    BY <1>3, <2>3 DEF NumberAt, FieldsOf
  <2>5. /\ c2.pos + w + x <= Len(c2.bytes)
        /\ \A i \in (c2.pos + w + 1)..(c2.pos + w + x) : c2.bytes[i] = none[i - (c2.pos + w)]
    BY <1>0, <1>3, <2>3
  <2>6. /\ PrefixFits(c2, w) /\ Number(c2, w) = x
        /\ AfterPrefixed(c2, w) \in Cursors /\ AfterPrefixed(c2, w).bytes = c2.bytes
        /\ AfterPrefixed(c2, w).pos = c2.pos + w + x
    <3>1. ListAt(c2, w, x, none)
      BY <2>2, <2>5, <2>a DEF ListAt
    <3>2. QED
      BY <1>3, <2>4, <2>a, <3>1, FieldIs
  <2>7. QED
    BY <1>3, <2>1, <2>3, <2>6
<1>5. /\ PrefixFits(c3, 2) /\ Number(c3, 2) = n /\ Prefixed(c3, 2) = suites
      /\ c4 \in Cursors /\ c4.bytes = m /\ c4.pos = 41 + n
  <2>1. c4 = AfterPrefixed(c3, 2)
    BY DEF Compression
  <2> HIDE DEF c3, c4
  <2>2. NumberAt(c3, 2, n)
    BY <1>4 DEF NumberAt, FieldsOf
  <2>3. c3.pos + 2 + n <= Len(c3.bytes)
    BY <1>0, <1>4
  <2>4. \A i \in (c3.pos + 2 + 1)..(c3.pos + 2 + n) : c3.bytes[i] = suites[i - (c3.pos + 2)]
    <3>1. \A i \in 42..(41 + n) : m[i] = suites[i - 41]
      BY DEF FieldsOf
    <3>2. c3.pos + 2 + 1 = 42 /\ c3.pos + 2 + n = 41 + n /\ c3.pos + 2 = 41
      BY <1>4
    <3>3. QED
      BY <1>4, <3>1, <3>2
  <2>5. /\ PrefixFits(c3, 2) /\ Number(c3, 2) = n /\ Prefixed(c3, 2) = suites
        /\ AfterPrefixed(c3, 2) \in Cursors /\ AfterPrefixed(c3, 2).bytes = c3.bytes
        /\ AfterPrefixed(c3, 2).pos = c3.pos + 2 + n
    <3>1. ListAt(c3, 2, n, suites)
      BY <2>3, <2>4 DEF ListAt
    <3>2. QED
      BY <1>4, <2>2, <3>1, FieldIs
  <2>6. c3.pos + 2 + n = 41 + n
    BY <1>4
  <2>7. QED
    BY <1>4, <2>1, <2>5, <2>6
<1>6. /\ PrefixFits(c4, 1) /\ \E k \in DOMAIN Prefixed(c4, 1) : Prefixed(c4, 1)[k] = 0
      /\ c5 \in Cursors /\ c5.bytes = m /\ c5.pos = 43 + n
  <2>1. c5 = AfterPrefixed(c4, 1)
    BY DEF Extensions
  <2> HIDE DEF c4, c5
  <2>2. m[42 + n] = 1 /\ m[43 + n] = 0
    BY DEF FieldsOf
  <2>a. PICK w \in {1, 2}, x \in Nat : w = 1 /\ x = 1
    OBVIOUS
  <2>3. NumberAt(c4, w, x)
    <3>1. c4.pos + 1 = 42 + n
      BY <1>5
    <3>2. QED
      BY <1>5, <2>2, <2>a, <3>1 DEF NumberAt
  <2>4. c4.pos + w + x <= Len(c4.bytes)
    BY <1>0, <1>5, <2>a
  <2>5. PICK null \in Seq(Nat) : Len(null) = 1 /\ null[1] = 0
    <3>1. <<0>> \in Seq(Nat) /\ Len(<<0>>) = 1 /\ <<0>>[1] = 0
      OBVIOUS
    <3>2. QED
      BY <3>1
  <2>6. \A i \in (c4.pos + w + 1)..(c4.pos + w + x) : c4.bytes[i] = null[i - (c4.pos + w)]
    <3> TAKE i \in (c4.pos + w + 1)..(c4.pos + w + x)
    <3>1. i = 43 + n /\ i - (c4.pos + w) = 1
      BY <1>5, <2>a
    <3>2. QED
      BY <1>5, <2>2, <2>5, <3>1
  <2>b. Len(null) = x /\ w \in {1, 2} /\ x \in Nat
    BY <2>5, <2>a
  <2>c. /\ PrefixFits(c4, w) /\ Prefixed(c4, w) = null
        /\ AfterPrefixed(c4, w) \in Cursors /\ AfterPrefixed(c4, w).bytes = c4.bytes
        /\ AfterPrefixed(c4, w).pos = c4.pos + w + x
    <3>1. ListAt(c4, w, x, null)
      BY <2>4, <2>5, <2>6, <2>b DEF ListAt
    <3>2. QED
      BY <1>5, <2>3, <2>b, <3>1, FieldIs
  <2>7. /\ PrefixFits(c4, 1) /\ Prefixed(c4, 1) = null
        /\ AfterPrefixed(c4, 1) \in Cursors /\ AfterPrefixed(c4, 1).bytes = c4.bytes
        /\ AfterPrefixed(c4, 1).pos = c4.pos + 1 + 1
    BY <2>a, <2>c
  <2>8. 1 \in DOMAIN null
    BY <2>5
  <2>9. c4.pos + 1 + 1 = 43 + n
    BY <1>5
  <2>10. QED
    BY <1>5, <2>1, <2>5, <2>7, <2>8, <2>9
<1>7. PrefixFits(c5, 2) /\ Prefixed(c5, 2) = exts
  <2> HIDE DEF c5
  <2>1. NumberAt(c5, 2, l)
    <3>1. c5.pos + 1 = 44 + n /\ c5.pos + 2 = 45 + n
      BY <1>6
    <3>2. 256 * m[44 + n] + m[45 + n] = l
      BY DEF FieldsOf
    <3>3. QED
      BY <1>6, <3>1, <3>2 DEF NumberAt
  <2>2. c5.pos + 2 + l <= Len(c5.bytes)
    BY <1>0, <1>6
  <2>3. \A i \in (c5.pos + 2 + 1)..(c5.pos + 2 + l) : c5.bytes[i] = exts[i - (c5.pos + 2)]
    <3>1. \A i \in (46 + n)..(45 + n + l) : m[i] = exts[i - (45 + n)]
      BY DEF FieldsOf
    <3>2. c5.pos + 2 + 1 = 46 + n /\ c5.pos + 2 + l = 45 + n + l /\ c5.pos + 2 = 45 + n
      BY <1>6
    <3>3. QED
      BY <1>6, <3>1, <3>2
  <2>4. QED
    <3>1. ListAt(c5, 2, l, exts)
      BY <2>2, <2>3 DEF ListAt
    <3>2. QED
      BY <1>6, <2>1, <3>1, FieldIs
<1>8. GoodHello(m) <=> n > 0
  <2>1. m[1] = HelloType
    BY DEF FieldsOf
  <2> HIDE DEF c3, c4, c5
  <2>2. GoodHello(m) <=> Number(c3, 2) > 0 /\ Number(c3, 2) % 2 = 0
    BY <1>2, <1>3, <1>4, <1>5, <1>6, <1>7, <2>1 DEF GoodHello, GoodHeader, c3, c4, c5
  <2>3. QED
    BY <1>5, <2>2
<1>9. QED
  BY <1>5, <1>7, <1>8

--------------------------------------------------------------------------------
(* Lists of entries, and the extensions of a block. *)

\* Entries of two bytes each.
LEMMA LaidPairs ==
    ASSUME NEW S, NEW ss \in Seq(Seq(S)), NEW flat, NEW p, Laid(ss, flat, p),
           \A k \in 1..Len(ss) : Len(ss[k]) = 2
    PROVE  /\ \A k \in 1..(Len(ss) + 1) : p[k] = 2 * k - 2
           /\ Len(flat) = 2 * Len(ss)
<1> DEFINE N == Len(ss)
           bad == { k \in Nat : k \in 1..(N + 1) /\ p[k] # 2 * k - 2 }
<1>1. /\ N \in Nat /\ p[1] = 0 /\ Len(flat) = p[N + 1]
      /\ \A k \in 1..N : p[k + 1] = p[k] + 2
  <2>1. /\ N \in Nat /\ p[1] = 0 /\ Len(flat) = p[N + 1]
        /\ \A k \in 1..N : p[k + 1] = p[k] + Len(ss[k])
    BY DEF Laid, LaidTo
  <2>2. \A k \in 1..N : Len(ss[k]) = 2
    OBVIOUS
  <2> HIDE DEF N
  <2>3. QED
    BY <2>1, <2>2
<1>2. bad = {}
  <2>1. SUFFICES ASSUME bad # {} PROVE FALSE
    OBVIOUS
  <2>2. PICK g \in bad : \A k \in bad : g <= k
    <3>1. bad \subseteq Nat
      OBVIOUS
    <3> HIDE DEF bad
    <3>2. QED
      BY <2>1, <3>1, LeastNatural
  <2>3. g \in Nat /\ g \in 1..(N + 1) /\ p[g] # 2 * g - 2
    BY <2>2
  <2>4. g # 1
    BY <1>1, <2>3
  <2>5. /\ g - 1 \in Nat /\ g - 1 \in 1..N /\ g - 1 \in 1..(N + 1) /\ (g - 1) + 1 = g
        /\ ~(g <= g - 1)
    BY <1>1, <2>3, <2>4
  <2>6. p[g - 1] = 2 * (g - 1) - 2
    BY <2>2, <2>5
  <2>7. p[(g - 1) + 1] = p[g - 1] + 2
    BY <1>1, <2>5
  <2>8. 2 * (g - 1) - 2 + 2 = 2 * g - 2
    BY <2>3
  <2>9. QED
    BY <2>3, <2>5, <2>6, <2>7, <2>8
<1>3. \A k \in 1..(N + 1) : p[k] = 2 * k - 2
  <2> TAKE k \in 1..(N + 1)
  <2>1. k \in Nat
    BY <1>1
  <2>2. k \notin bad
    BY <1>2
  <2> HIDE DEF N
  <2>3. QED
    BY <2>1, <2>2
<1>4. N + 1 \in 1..(N + 1) /\ 2 * (N + 1) - 2 = 2 * N
  BY <1>1
<1>5. QED
  BY <1>1, <1>3, <1>4

\* The extensions of a block start in one way.
LEMMA StartsAgree ==
    ASSUME NEW bytes \in Seq(Byte), NEW s, StartsOn(bytes, 0, s), NEW t, StartsOn(bytes, 0, t)
    PROVE  s = t
<1>1. ASSUME NEW u, NEW v, StartsOn(bytes, 0, u), StartsOn(bytes, 0, v)
      PROVE  Len(u) <= Len(v) /\ \A k \in 1..Len(u) : u[k] = v[k]
  <2> DEFINE bad == { k \in Nat : k \in 1..Len(u) /\ ~(k <= Len(v) /\ u[k] = v[k]) }
  <2>1. /\ Len(u) \in Nat \ {0} /\ Len(v) \in Nat \ {0} /\ u[1] = 0 /\ v[1] = 0
        /\ \A n \in 1..(Len(u) - 1) :
            ExtensionFits(bytes, u[n]) /\ u[n + 1] = NextStart(bytes, u[n])
        /\ \A n \in 1..(Len(v) - 1) :
            ExtensionFits(bytes, v[n]) /\ v[n + 1] = NextStart(bytes, v[n])
        /\ ~ExtensionFits(bytes, v[Len(v)])
    BY <1>1 DEF StartsOn
  <2>2. bad = {}
    <3>1. SUFFICES ASSUME bad # {} PROVE FALSE
      OBVIOUS
    <3>2. PICK g \in bad : \A k \in bad : g <= k
      <4>1. bad \subseteq Nat
        OBVIOUS
      <4> HIDE DEF bad
      <4>2. QED
        BY <3>1, <4>1, LeastNatural
    <3>3. g \in Nat /\ g \in 1..Len(u) /\ ~(g <= Len(v) /\ u[g] = v[g])
      BY <3>2
    <3>4. g # 1
      BY <2>1, <3>3
    <3>5. /\ g - 1 \in Nat /\ g - 1 \in 1..Len(u) /\ g - 1 \in 1..(Len(u) - 1)
          /\ (g - 1) + 1 = g /\ ~(g <= g - 1)
      BY <2>1, <3>3, <3>4
    <3>6. g - 1 <= Len(v) /\ u[g - 1] = v[g - 1]
      BY <3>2, <3>5
    <3>7. ExtensionFits(bytes, v[g - 1]) /\ u[(g - 1) + 1] = NextStart(bytes, v[g - 1])
      BY <2>1, <3>5, <3>6
    <3>8. g - 1 # Len(v)
      BY <2>1, <3>7
    <3>9. g - 1 \in 1..(Len(v) - 1) /\ g <= Len(v)
      BY <2>1, <3>5, <3>6, <3>8
    <3>10. v[(g - 1) + 1] = NextStart(bytes, v[g - 1])
      BY <2>1, <3>9
    <3>11. QED
      BY <3>3, <3>5, <3>7, <3>9, <3>10
  <2>3. \A k \in 1..Len(u) : k <= Len(v) /\ u[k] = v[k]
    <3> TAKE k \in 1..Len(u)
    <3>1. k \in Nat /\ k \notin bad
      BY <2>1, <2>2
    <3>2. QED
      BY <3>1
  <2>4. Len(u) \in 1..Len(u)
    BY <2>1
  <2>5. QED
    BY <2>3, <2>4
<1>2. Len(s) <= Len(t) /\ Len(t) <= Len(s) /\ \A k \in 1..Len(s) : s[k] = t[k]
  BY <1>1
<1>3. s \in Seq(0..Len(bytes)) /\ t \in Seq(0..Len(bytes)) /\ Len(s) \in Nat /\ Len(t) \in Nat
  BY DEF StartsOn
<1>4. s \in Seq(Nat) /\ t \in Seq(Nat)
  <2>1. Len(bytes) \in Nat
    BY LenProperties
  <2>2. \A x \in 0..Len(bytes) : x \in Nat
    BY <2>1
  <2> DEFINE Q == 0..Len(bytes)
  <2> HIDE DEF Q
  <2>3. ASSUME NEW u \in Seq(Q), \A x \in Q : x \in Nat PROVE u \in Seq(Nat)
    <3>1. u = [k \in 1..Len(u) |-> u[k]] /\ Len(u) \in Nat /\ \A k \in 1..Len(u) : u[k] \in Q
      OBVIOUS
    <3>2. \A k \in 1..Len(u) : u[k] \in Nat
      BY <2>3, <3>1
    <3>3. QED
      BY <3>1, <3>2
  <2>4. QED
    BY <1>3, <2>2, <2>3 DEF Q
<1>5. Len(s) = Len(t)
  BY <1>2, <1>3
<1>6. QED
  BY <1>2, <1>4, <1>5, SeqEqual

--------------------------------------------------------------------------------
(* The lists that are written. *)

\* An entry of a list of kind k, as it is written.
Encoded(k, v) ==
    IF k \in PairKinds THEN U16(v)
    ELSE IF k = "alpn" THEN UnderU8(v)
    ELSE U16(v) \o UnderU16(<<7>>)

\* What an entry is written of.
ValuesOf(k) == IF k = "alpn" THEN Seq(Byte) ELSE Code

\* The list of some values.
EntriesIn(k, values) == [j \in DOMAIN values |-> Encoded(k, values[j])]

ListIn(k, values) == FlattenSeq(EntriesIn(k, values))

\* The bytes of an entry.
EntryBytes(k, v, x) ==
    /\ x \in Seq(Nat) /\ Len(x) \in Nat \ {0}
    /\ k \in PairKinds => Len(x) = 2
    /\ k # "alpn" => 256 * x[1] + x[2] = v /\ Len(x) >= 2
    /\ k = "key_share" => Len(x) = 5 /\ 256 * x[3] + x[4] = 1
    /\ k = "alpn" =>
        /\ Len(x) = Len(v) + 1 /\ x[1] = Len(v)
        /\ \A j \in 1..Len(v) : x[j + 1] = v[j]

\* They are so.
LEMMA EncodedIs ==
    ASSUME NEW k \in WalkedKinds, NEW v \in ValuesOf(k)
    PROVE  EntryBytes(k, v, Encoded(k, v))
<1>1. CASE k \in PairKinds
  <2>1. k # "alpn" /\ k # "key_share"
    BY <1>1 DEF PairKinds
  <2>2. v \in Code
    BY <2>1, Zenon DEF ValuesOf
  <2>3. Encoded(k, v) = U16(v)
    BY <1>1, Zenon DEF Encoded
  <2>4. v \in Nat
    BY <2>2 DEF Code
  <2>5. U16(v) \in Seq(Nat) /\ Len(U16(v)) = 2 /\ 256 * U16(v)[1] + U16(v)[2] = v
    BY <2>4, U16Is
  <2>6. QED
    BY <2>1, <2>3, <2>5 DEF EntryBytes
<1>2. CASE k = "alpn"
  <2>1. k \notin PairKinds /\ k # "key_share"
    BY <1>2 DEF PairKinds
  <2>2. v \in Seq(Nat) /\ Encoded(k, v) = UnderU8(v)
    BY <1>2, <2>1, BytesAreNumbers DEF ValuesOf, Encoded
  <2>3. QED
    BY <1>2, <2>1, <2>2, UnderU8Is DEF EntryBytes
<1>3. CASE k = "key_share"
  <2> DEFINE key == <<7>>
             x == U16(v)
             y == UnderU16(key)
             z == x \o y
  <2>1. k \notin PairKinds /\ k # "alpn"
    BY <1>3 DEF PairKinds
  <2>a. v \in Code
    BY <2>1, Zenon DEF ValuesOf
  <2>b. Encoded(k, v) = z
    BY <2>1, Zenon DEF Encoded
  <2>c. v \in Nat
    BY <2>a DEF Code
  <2> HIDE DEF z
  <2>2. v \in Nat /\ Encoded(k, v) = z
    BY <2>b, <2>c
  <2>3. x \in Seq(Nat) /\ Len(x) = 2 /\ 256 * x[1] + x[2] = v
    BY <2>2, U16Is
  <2>4. key \in Seq(Nat) /\ Len(key) = 1
    OBVIOUS
  <2> HIDE DEF key
  <2>5. y \in Seq(Nat) /\ Len(y) = 3 /\ 256 * y[1] + y[2] = 1
    <3>1. y = UnderU16(key)
      OBVIOUS
    <3> HIDE DEF y
    <3>2. /\ UnderU16(key) \in Seq(Nat) /\ Len(UnderU16(key)) = Len(key) + 2
          /\ 256 * UnderU16(key)[1] + UnderU16(key)[2] = Len(key)
      BY <2>4, UnderU16Is
    <3>3. QED
      BY <2>4, <3>1, <3>2
  <2> HIDE DEF x, y
  <2>6. Joins(z, x, y)
    BY <2>3, <2>5, JoinAt DEF z
  <2>7. /\ z \in Seq(Nat) /\ Len(z) = 5
        /\ \A i \in 1..2 : z[i] = x[i]
        /\ \A i \in 3..5 : z[i] = y[i - 2]
    BY <2>3, <2>5, <2>6 DEF Joins
  <2>8. z[1] = x[1] /\ z[2] = x[2] /\ z[3] = y[1] /\ z[4] = y[2]
    <3>1. z[3] = y[3 - 2] /\ z[4] = y[4 - 2]
      BY <2>7
    <3>2. QED
      BY <2>7, <3>1
  <2>9. 256 * z[1] + z[2] = v /\ 256 * z[3] + z[4] = 1
    BY <2>3, <2>5, <2>8
  <2>10. QED
    BY <2>1, <2>2, <2>7, <2>9 DEF EntryBytes
<1>4. QED
  BY <1>1, <1>2, <1>3 DEF WalkedKinds

\* The entries of a list.
LEMMA EntriesAre ==
    ASSUME NEW k \in WalkedKinds, NEW values \in Seq(ValuesOf(k))
    PROVE  LET ss == EntriesIn(k, values)
           IN  /\ ss \in Seq(Seq(Nat)) /\ Len(ss) = Len(values) /\ Len(values) \in Nat
               /\ \A j \in 1..Len(values) :
                    values[j] \in ValuesOf(k) /\ EntryBytes(k, values[j], ss[j])
               /\ ListIn(k, values) \in Seq(Nat)
               /\ \E p : Laid(ss, ListIn(k, values), p)
<1> DEFINE ss == EntriesIn(k, values)
           V == ValuesOf(k)
<1> HIDE DEF V
<1>1. Len(values) \in Nat /\ DOMAIN values = 1..Len(values) /\ \A j \in 1..Len(values) : values[j] \in V
  BY LenProperties, ElementOfSeq DEF V
<1>2. \A j \in 1..Len(values) : EntryBytes(k, values[j], Encoded(k, values[j]))
  BY <1>1, EncodedIs DEF V
<1>3. ss = [j \in 1..Len(values) |-> Encoded(k, values[j])]
  BY <1>1 DEF EntriesIn
<1>4. \A j \in 1..Len(values) : Encoded(k, values[j]) \in Seq(Nat)
  BY <1>2 DEF EntryBytes
<1>5. ss \in Seq(Seq(Nat)) /\ Len(ss) = Len(values)
  BY <1>1, <1>3, <1>4
<1>6. \A j \in 1..Len(values) : ss[j] = Encoded(k, values[j])
  BY <1>3
<1> HIDE DEF ss
<1>7. FlattenSeq(ss) \in Seq(Nat) /\ \E p : Laid(ss, FlattenSeq(ss), p)
  BY <1>5, FlattenIs
<1>8. ListIn(k, values) = FlattenSeq(ss)
  BY DEF ListIn, ss
<1>9. \A j \in 1..Len(values) : values[j] \in V /\ EntryBytes(k, values[j], ss[j])
  BY <1>1, <1>2, <1>6
<1>10. QED
  BY <1>1, <1>5, <1>7, <1>8, <1>9 DEF ss, V

\* A body with a list is its list under its length.
LEMMA BodyIsList ==
    ASSUME NEW e, Writable(e), NEW k \in WalkedKinds, k = Parser(e.type)
    PROVE  /\ e.value \in Seq(ValuesOf(k))
           /\ WidthOf(k) = 1 => BodyOf(e) = UnderU8(ListIn(k, e.value))
           /\ WidthOf(k) = 2 => BodyOf(e) = UnderU16(ListIn(k, e.value))
<1>0. /\ k \in PairKinds \cup {"key_share"} => e.value \in Seq(Code)
      /\ k \in {"alpn", "server_name"} => e.value \in Seq(Seq(Byte))
  BY DEF Writable
<1> DEFINE values == e.value
<1>1. CASE k = "alpn"
  <2>1. k \notin PairKinds /\ WidthOf(k) = 2 /\ ValuesOf(k) = Seq(Byte)
    BY <1>1 DEF PairKinds, WidthOf, ValuesOf
  <2>2. BodyOf(e) = AlpnBody(values)
    BY <1>1, Zenon DEF BodyOf
  <2>3. AlpnBody(values) = UnderU16(FlattenSeq([j \in DOMAIN values |-> UnderU8(values[j])]))
    BY DEF AlpnBody, Each
  <2>4. \A j \in DOMAIN values : Encoded(k, values[j]) = UnderU8(values[j])
    BY <1>1, <2>1, Zenon DEF Encoded
  <2>5. [j \in DOMAIN values |-> UnderU8(values[j])] = EntriesIn(k, values)
    BY <2>4, Zenon DEF EntriesIn
  <2>6. QED
    BY <1>0, <1>1, <2>1, <2>2, <2>3, <2>5 DEF ListIn
<1>2. CASE k = "versions"
  <2>1. k \in PairKinds /\ WidthOf(k) = 1 /\ ValuesOf(k) = Code /\ k # "alpn"
    BY <1>2 DEF PairKinds, WidthOf, ValuesOf
  <2>2. BodyOf(e) = VersionsBody(values)
    BY <1>2, Zenon DEF BodyOf
  <2>3. VersionsBody(values) = UnderU8(FlattenSeq([j \in DOMAIN values |-> U16(values[j])]))
    BY DEF VersionsBody, Each
  <2>4. \A j \in DOMAIN values : Encoded(k, values[j]) = U16(values[j])
    BY <2>1, Zenon DEF Encoded
  <2>5. [j \in DOMAIN values |-> U16(values[j])] = EntriesIn(k, values)
    BY <2>4, Zenon DEF EntriesIn
  <2>6. QED
    BY <1>0, <2>1, <2>2, <2>3, <2>5 DEF ListIn
<1>3. CASE k = "u16_list"
  <2>1. k \in PairKinds /\ WidthOf(k) = 2 /\ ValuesOf(k) = Code /\ k # "alpn"
    BY <1>3 DEF PairKinds, WidthOf, ValuesOf
  <2>2. BodyOf(e) = U16ListBody(values)
    BY <1>3, Zenon DEF BodyOf
  <2>3. U16ListBody(values) = UnderU16(FlattenSeq([j \in DOMAIN values |-> U16(values[j])]))
    BY DEF U16ListBody, Each
  <2>4. \A j \in DOMAIN values : Encoded(k, values[j]) = U16(values[j])
    BY <2>1, Zenon DEF Encoded
  <2>5. [j \in DOMAIN values |-> U16(values[j])] = EntriesIn(k, values)
    BY <2>4, Zenon DEF EntriesIn
  <2>6. QED
    BY <1>0, <2>1, <2>2, <2>3, <2>5 DEF ListIn
<1>4. CASE k = "key_share"
  <2>1. k \notin PairKinds /\ WidthOf(k) = 2 /\ ValuesOf(k) = Code /\ k # "alpn"
    BY <1>4 DEF PairKinds, WidthOf, ValuesOf
  <2>2. BodyOf(e) = KeyShareBody(values)
    BY <1>4, Zenon DEF BodyOf
  <2>3. KeyShareBody(values) =
          UnderU16(FlattenSeq([j \in DOMAIN values |-> U16(values[j]) \o UnderU16(<<7>>)]))
    BY DEF KeyShareBody, Each
  <2>4. \A j \in DOMAIN values : Encoded(k, values[j]) = U16(values[j]) \o UnderU16(<<7>>)
    BY <2>1, Zenon DEF Encoded
  <2>5. [j \in DOMAIN values |-> U16(values[j]) \o UnderU16(<<7>>)] = EntriesIn(k, values)
    BY <2>4, Zenon DEF EntriesIn
  <2>6. QED
    BY <1>0, <1>4, <2>1, <2>2, <2>3, <2>5 DEF ListIn
<1>5. QED
  BY <1>1, <1>2, <1>3, <1>4 DEF WalkedKinds, PairKinds

--------------------------------------------------------------------------------
(* What a parser makes of a list that is written. *)

\* Where its entries start.
Places(k, values) == CHOOSE p : Laid(EntriesIn(k, values), ListIn(k, values), p)

\* An entry of a list, by its place.
EntryAt(k, values, j, x, a, b) ==
    LET list == ListIn(k, values)
    IN  /\ a = Places(k, values)[j] /\ b = Places(k, values)[j + 1]
        /\ a \in Nat /\ b = a + Len(x) /\ b <= Len(list) /\ Len(list) \in Nat
        /\ EntryBytes(k, values[j], x)
        /\ \A i \in 1..Len(x) : list[a + i] = x[i]

\* Every entry has one, from the first byte of the list to the last.
LEMMA PlacesAre ==
    ASSUME NEW k \in WalkedKinds, NEW values \in Seq(ValuesOf(k))
    PROVE  /\ ListIn(k, values) \in Seq(Nat) /\ Len(values) \in Nat
           /\ Places(k, values)[1] = 0
           /\ Places(k, values)[Len(values) + 1] = Len(ListIn(k, values))
           /\ \A j \in 1..Len(values) : values[j] \in ValuesOf(k)
           /\ \A j \in 1..Len(values) : \E x, a, b : EntryAt(k, values, j, x, a, b)
           /\ k \in PairKinds => Len(ListIn(k, values)) = 2 * Len(values)
<1> DEFINE ss == EntriesIn(k, values)
           list == ListIn(k, values)
           p == Places(k, values)
<1>1. /\ ss \in Seq(Seq(Nat)) /\ Len(ss) = Len(values) /\ Len(values) \in Nat
      /\ \A j \in 1..Len(values) :
            values[j] \in ValuesOf(k) /\ EntryBytes(k, values[j], ss[j])
      /\ list \in Seq(Nat)
      /\ \E q : Laid(ss, list, q)
  BY EntriesAre, Zenon
<1>2. Laid(ss, list, p)
  BY <1>1, Zenon DEF Places
<1> HIDE DEF ss, list, p
<1>3. LaidTo(ss, Len(ss), list, p)
  BY <1>2 DEF Laid
<1>4. p[1] = 0 /\ p[Len(values) + 1] = Len(list)
  BY <1>1, <1>3 DEF LaidTo
<1>5. ASSUME NEW j \in 1..Len(values)
      PROVE  \E x, a, b : EntryAt(k, values, j, x, a, b)
  <2> DEFINE x == ss[j]
             a == p[j]
             b == p[j + 1]
  <2>1. Len(ss) \in 0..Len(ss) /\ j \in 1..Len(ss)
    BY <1>1
  <2>2. /\ a \in Nat /\ Len(x) \in Nat /\ b = a + Len(x) /\ b <= Len(list)
    BY <1>1, <1>3, <2>1, LaidInOrder
  <2>3. \A i \in 1..Len(x) : list[a + i] = x[i]
    BY <1>3, <2>1 DEF LaidTo
  <2>4. EntryBytes(k, values[j], x)
    BY <1>1
  <2>5. Len(list) \in Nat
    BY <1>1
  <2>6. a = Places(k, values)[j] /\ b = Places(k, values)[j + 1] /\ list = ListIn(k, values)
    BY DEF p, list
  <2> HIDE DEF x, a, b
  <2>7. EntryAt(k, values, j, x, a, b)
    BY <2>2, <2>3, <2>4, <2>5, <2>6 DEF EntryAt
  <2>8. QED
    BY <2>7
<1>6. ASSUME k \in PairKinds
      PROVE  Len(list) = 2 * Len(values)
  <2>1. \A j \in 1..Len(ss) : Len(ss[j]) = 2
    BY <1>1, <1>6 DEF EntryBytes
  <2>2. QED
    BY <1>1, <1>2, <2>1, LaidPairs
<1>7. QED
  BY <1>1, <1>4, <1>5, <1>6 DEF list, p

\* A parser at an entry reads that entry.
LEMMA EntryIsWritten ==
    ASSUME kind \in WalkedKinds, cur \in Cursors, NEW values \in Seq(ValuesOf(kind)),
           cur.bytes = ListIn(kind, values),
           NEW j \in 1..Len(values), cur.pos = Places(kind, values)[j]
    PROVE  /\ Remaining(cur) > 0
           /\ EntryFits <=> (kind = "alpn" => values[j] # <<>>)
           /\ EntryFits =>
                Entry = values[j] /\ AfterEntry.pos = Places(kind, values)[j + 1]
<1> DEFINE list == ListIn(kind, values)
           v == values[j]
<1>1. PICK x, a, b : EntryAt(kind, values, j, x, a, b)
  BY PlacesAre
<1>2. /\ a = Places(kind, values)[j] /\ b = Places(kind, values)[j + 1]
      /\ a \in Nat /\ b = a + Len(x) /\ b <= Len(list) /\ Len(list) \in Nat
      /\ EntryBytes(kind, v, x)
      /\ \A i \in 1..Len(x) : list[a + i] = x[i]
  BY <1>1 DEF EntryAt
<1>3. v \in ValuesOf(kind)
  BY PlacesAre
<1> HIDE DEF list, v
<1>4. cur.bytes = list /\ cur.pos = a /\ b = Places(kind, values)[j + 1]
  BY <1>2 DEF list
<1>5. PICK l \in Nat : l = Len(x) /\ l # 0
  BY <1>2 DEF EntryBytes
<1>6. Remaining(cur) > 0
  BY <1>2, <1>4, <1>5 DEF Remaining
<1>7. ASSUME kind # "alpn"
      PROVE  Fits(cur, 2) /\ Number(cur, 2) = v
  <2>1. l >= 2 /\ 256 * x[1] + x[2] = v
    BY <1>2, <1>5, <1>7 DEF EntryBytes
  <2>2. Fits(cur, 2)
    BY <1>2, <1>4, <1>5, <2>1 DEF Fits, Remaining
  <2>3. Number(cur, 2) = 256 * cur.bytes[cur.pos + 1] + cur.bytes[cur.pos + 2]
    BY <2>2, NumberIs
  <2>4. 1 \in 1..l /\ 2 \in 1..l
    BY <2>1
  <2>5. list[a + 1] = x[1] /\ list[a + 2] = x[2]
    BY <1>2, <1>5, <2>4
  <2>6. QED
    BY <1>4, <2>1, <2>2, <2>3, <2>5
<1>8. CASE kind \in PairKinds
  <2>1. kind # "alpn" /\ kind # "key_share"
    BY <1>8 DEF PairKinds
  <2>2. /\ EntryFits <=> Fits(cur, 2)
        /\ AfterEntry = Skip(cur, 2) /\ Entry = Number(cur, 2)
    BY <1>8, <2>1, Zenon DEF EntryFits, AfterEntry, Entry
  <2>3. l = 2
    BY <1>2, <1>5, <1>8 DEF EntryBytes
  <2>4. Fits(cur, 2) /\ Number(cur, 2) = v
    BY <1>7, <2>1
  <2>5. Skip(cur, 2).pos = a + 2
    BY <1>4, <2>4, SkipIs
  <2>6. b = a + 2
    BY <1>2, <1>5, <2>3
  <2>7. QED
    BY <1>4, <1>6, <2>1, <2>2, <2>4, <2>5, <2>6 DEF v
<1>9. CASE kind = "alpn"
  <2>1. kind \notin PairKinds /\ kind # "key_share"
    BY <1>9 DEF PairKinds
  <2>2. /\ EntryFits <=> PrefixFits(cur, 1) /\ Number(cur, 1) > 0
        /\ AfterEntry = AfterPrefixed(cur, 1) /\ Entry = Prefixed(cur, 1)
    BY <1>9, <2>1, Zenon DEF EntryFits, AfterEntry, Entry
  <2>3. v \in Seq(Byte)
    BY <1>3, <1>9, Zenon DEF ValuesOf
  <2>4. PICK n \in Nat : n = Len(v)
    BY <2>3
  <2>5. l = n + 1 /\ x[1] = n /\ \A i \in 1..n : x[i + 1] = v[i]
    BY <1>2, <1>5, <1>9, <2>4 DEF EntryBytes
  <2>a. l = n + 1 /\ a \in Nat
    BY <1>2, <2>5
  <2>b. b = a + l
    BY <1>2, <1>5
  <2>6. b = a + 1 + n
    BY <2>a, <2>b
  <2>7. list[a + 1] = n
    <3>1. 1 \in 1..l
      BY <2>5
    <3>2. QED
      BY <1>2, <1>5, <2>5, <3>1
  <2>8. ASSUME NEW i \in (a + 1 + 1)..(a + 1 + n) PROVE list[i] = v[i - (a + 1)]
    <3>1. PICK m \in Nat : m = i - (a + 1)
      BY <1>2
    <3>2. m \in 1..n /\ m + 1 \in 1..l /\ a + (m + 1) = i
      BY <2>a, <3>1
    <3>3. list[a + (m + 1)] = x[m + 1] /\ x[m + 1] = v[m]
      BY <1>2, <1>5, <2>5, <3>2
    <3>4. QED
      BY <3>1, <3>2, <3>3
  <2>9. NumberAt(cur, 1, n)
    BY <1>4, <2>7 DEF NumberAt
  <2>10. ListAt(cur, 1, n, v)
    <3>1. v \in Seq(Nat)
      BY <2>3, BytesAreNumbers
    <3>2. a + 1 + n <= Len(list)
      BY <1>2, <2>6
    <3>3. QED
      BY <1>4, <2>4, <2>8, <3>1, <3>2 DEF ListAt
  <2>11. PICK w \in {1, 2} : w = 1
    OBVIOUS
  <2>12. /\ PrefixFits(cur, w) /\ Number(cur, w) = n /\ Prefixed(cur, w) = v
         /\ AfterPrefixed(cur, w).pos = cur.pos + w + n
    BY <2>9, <2>10, <2>11, FieldIs
  <2>13. /\ PrefixFits(cur, 1) /\ Number(cur, 1) = n /\ Prefixed(cur, 1) = v
         /\ AfterPrefixed(cur, 1).pos = b
    BY <1>4, <2>6, <2>11, <2>12
  <2>14. n > 0 <=> v # <<>>
    BY <2>3, <2>4
  <2>15. QED
    BY <1>4, <1>6, <1>9, <2>2, <2>13, <2>14 DEF v
<1>10. CASE kind = "key_share"
  <2> DEFINE c == Skip(cur, 2)
  <2>1. kind \notin PairKinds /\ kind # "alpn"
    BY <1>10 DEF PairKinds
  <2>2. /\ EntryFits <=> Fits(cur, 2) /\ PrefixFits(c, 2)
        /\ AfterEntry = AfterPrefixed(c, 2) /\ Entry = Number(cur, 2)
    BY <1>10, <2>1, Zenon DEF EntryFits, AfterEntry, Entry
  <2>3. l = 5 /\ 256 * x[3] + x[4] = 1
    BY <1>2, <1>5, <1>10 DEF EntryBytes
  <2>4. Fits(cur, 2) /\ Number(cur, 2) = v
    BY <1>7, <2>1
  <2>5. c \in Cursors /\ c.pos = a + 2 /\ c.bytes = list
    BY <1>4, <2>4, SkipIs
  <2> HIDE DEF c
  <2>6. b = a + 5 /\ a + 5 <= Len(list)
    BY <1>2, <1>5, <2>3
  <2>7. list[a + 3] = x[3] /\ list[a + 4] = x[4]
    <3>1. 3 \in 1..l /\ 4 \in 1..l
      BY <2>3
    <3>2. QED
      BY <1>2, <1>5, <3>1
  <2>8. Fits(c, 2)
    BY <1>2, <2>5, <2>6 DEF Fits, Remaining
  <2>9. Number(c, 2) = 1
    <3>1. Number(c, 2) = 256 * c.bytes[c.pos + 1] + c.bytes[c.pos + 2]
      BY <2>5, <2>8, NumberIs
    <3>2. c.pos + 1 = a + 3 /\ c.pos + 2 = a + 4
      BY <1>2, <2>5
    <3>3. QED
      BY <2>3, <2>5, <2>7, <3>1, <3>2
  <2>10. PrefixFits(c, 2)
    BY <1>2, <2>5, <2>6, <2>8, <2>9 DEF PrefixFits, Fits, Remaining
  <2>11. AfterPrefixed(c, 2).pos = c.pos + 2 + 1
    BY <2>5, <2>9, <2>10, AfterPrefixedIs
  <2>12. c.pos + 2 + 1 = b
    BY <1>2, <2>5, <2>6
  <2>13. QED
    BY <1>4, <1>6, <2>1, <2>2, <2>4, <2>10, <2>11, <2>12 DEF v
<1>11. QED
  BY <1>8, <1>9, <1>10 DEF WalkedKinds

--------------------------------------------------------------------------------
(* A parser on a body that is written. *)

\* When a list can be written so that it is answered.
LEMMA BuildableIs ==
    ASSUME NEW e, NEW k, k = Parser(e.type)
    PROVE  /\ k \in WalkedKinds =>
                (Buildable(e) <=> /\ k = "alpn" => \A j \in DOMAIN e.value : e.value[j] # <<>>
                                  /\ k \in PairKinds => e.value # <<>>)
           /\ k = "points" => (Buildable(e) <=> e.value # <<>>)
           /\ k = "limit" => (Buildable(e) <=> e.value \in MinLimit..MaxLimit)
           /\ k = "server_name" =>
                (Buildable(e) <=>
                    (IsUtf8(e.value[1]) => Len(e.value) = 1 /\ Usable(StripDot(e.value[1]))))
           /\ k = None => Buildable(e)
<1>1. CASE k = "alpn"
  <2>1. /\ k \notin PairKinds \cup {"points"} /\ "alpn" # None
        /\ k # "points" /\ k # "limit" /\ k # "server_name"
    BY <1>1, NoParserAssumption DEF PairKinds, Kinds, ListKinds, WalkedKinds
  <2>2. Buildable(e) <=> \A j \in DOMAIN e.value : e.value[j] # <<>>
    BY <1>1, <2>1, Zenon DEF Buildable
  <2>3. QED
    BY <1>1, <2>1, <2>2
<1>2. CASE k \in PairKinds \cup {"points"}
  <2>1. k # "alpn" /\ k # "limit" /\ k # "server_name" /\ k # None
    BY <1>2, NoParserAssumption DEF PairKinds, Kinds, ListKinds, WalkedKinds
  <2>2. Buildable(e) <=> e.value # <<>>
    BY <1>2, <2>1, Zenon DEF Buildable
  <2>3. "points" \notin PairKinds /\ "points" \notin WalkedKinds
    BY DEF PairKinds, WalkedKinds
  <2>4. QED
    BY <1>2, <2>1, <2>2, <2>3
<1>3. CASE k = "limit"
  <2>1. /\ k \notin PairKinds \cup {"points"} /\ k \notin WalkedKinds /\ "limit" # None
        /\ k # "points" /\ k # "server_name" /\ k # "alpn"
    BY <1>3, NoParserAssumption DEF PairKinds, Kinds, ListKinds, WalkedKinds
  <2>2. Buildable(e) <=> e.value \in MinLimit..MaxLimit
    BY <1>3, <2>1, Zenon DEF Buildable
  <2>3. QED
    BY <1>3, <2>1, <2>2
<1>4. CASE k = "server_name"
  <2>1. /\ k \notin PairKinds \cup {"points"} /\ k \notin WalkedKinds /\ "server_name" # None
        /\ k # "points" /\ k # "limit" /\ k # "alpn"
    BY <1>4, NoParserAssumption DEF PairKinds, Kinds, ListKinds, WalkedKinds
  <2>2. Buildable(e) <=>
          (IsUtf8(e.value[1]) => Len(e.value) = 1 /\ Usable(StripDot(e.value[1])))
    BY <1>4, <2>1, Zenon DEF Buildable
  <2>3. QED
    BY <1>4, <2>1, <2>2
<1>5. CASE k \notin {"alpn", "limit", "server_name"} /\ k \notin PairKinds \cup {"points"}
  <2>1. Buildable(e)
    BY <1>5, Zenon DEF Buildable
  <2>2. QED
    BY <1>5, <2>1
<1>6. QED
  BY <1>1, <1>2, <1>3, <1>4, <1>5

\* The parser has read the first of some values, and nothing else.
EntriesHeld(values) ==
    /\ cur.bytes = ListIn(kind, values)
    /\ out \in Seq(ValuesOf(kind)) /\ Len(out) <= Len(values)
    /\ cur.pos = Places(kind, values)[Len(out) + 1]
    /\ \A j \in 1..Len(out) : out[j] = values[j] /\ (kind = "alpn" => values[j] # <<>>)
    /\ kind \in PairKinds => values # <<>>

\* ... and its answer is all of them, if they are such that there is one.
WrittenInv(e) ==
    /\ kind \in WalkedKinds /\ at = "entries" => EntriesHeld(e.value)
    /\ kind # "server_name" /\ at = "some" => out = e.value /\ Buildable(e)
    /\ kind # "server_name" /\ at = "none" => ~Buildable(e)
    /\ kind # "server_name" => at # "skip"

\* The parser is called on the body of an extension that is written.
CalledOn(e) == Writable(e) /\ kind = Parser(e.type) /\ kind \in Kinds /\ body = BodyOf(e)

\* What the list of a body is read as.
LEMMA ListIsWritten ==
    ASSUME NEW e, CalledOn(e), kind \in WalkedKinds, body \in Seq(Byte)
    PROVE  /\ e.value \in Seq(ValuesOf(kind))
           /\ HasList(body, Width) /\ List(body, Width) = ListIn(kind, e.value)
           /\ List(body, Width) \in Seq(Nat)
<1>1. /\ e.value \in Seq(ValuesOf(kind))
      /\ WidthOf(kind) = 1 => body = UnderU8(ListIn(kind, e.value))
      /\ WidthOf(kind) = 2 => body = UnderU16(ListIn(kind, e.value))
  BY BodyIsList DEF CalledOn
<1>2. ListIn(kind, e.value) \in Seq(Nat)
  BY <1>1, PlacesAre
<1>3. CASE Width = 1
  BY <1>1, <1>2, <1>3, ListUnder DEF Width
<1>4. CASE Width = 2
  BY <1>1, <1>2, <1>4, ListUnder DEF Width
<1>5. QED
  BY <1>1, <1>2, <1>3, <1>4, WidthIs

\* A parser that has read all entries but the last is not at the end of the list.
LEMMA EntryIsLeft ==
    ASSUME BodyInv, NEW values \in Seq(ValuesOf(kind)), kind \in WalkedKinds,
           EntriesHeld(values)
    PROVE  /\ Len(out) \in Nat /\ Len(values) \in Nat
           /\ Remaining(cur) > 0 <=> Len(out) < Len(values)
           /\ Remaining(cur) = 0 <=> Len(out) = Len(values)
           /\ Len(out) < Len(values) =>
                LET v == values[Len(out) + 1]
                IN  /\ v \in ValuesOf(kind)
                    /\ EntryFits <=> (kind = "alpn" => v # <<>>)
                    /\ EntryFits =>
                        Entry = v /\ AfterEntry.pos = Places(kind, values)[(Len(out) + 1) + 1]
<1> DEFINE n == Len(out)
           N == Len(values)
<1>1. cur \in Cursors
  BY TypeParts DEF BodyInv
<1>2. /\ n \in Nat /\ N \in Nat /\ n <= N /\ cur.bytes = ListIn(kind, values)
      /\ cur.pos = Places(kind, values)[n + 1]
  BY DEF EntriesHeld
<1> HIDE DEF n, N
<1>3. ASSUME n < N
      PROVE  /\ Remaining(cur) > 0
             /\ LET v == values[n + 1]
                IN  /\ v \in ValuesOf(kind)
                    /\ EntryFits <=> (kind = "alpn" => v # <<>>)
                    /\ EntryFits =>
                        Entry = v /\ AfterEntry.pos = Places(kind, values)[(n + 1) + 1]
  <2>1. n + 1 \in 1..N
    BY <1>2, <1>3
  <2>2. values[n + 1] \in ValuesOf(kind)
    BY <2>1, PlacesAre DEF N
  <2>3. QED
    BY <1>1, <1>2, <2>1, <2>2, EntryIsWritten DEF N
<1>4. ASSUME n = N
      PROVE  Remaining(cur) = 0
  <2>1. cur.pos = Len(cur.bytes) /\ Len(cur.bytes) \in Nat
    BY <1>1, <1>2, <1>4, PlacesAre DEF N, Cursors
  <2>2. QED
    BY <2>1 DEF Remaining
<1>5. n < N \/ n = N
  BY <1>2
<1>6. Remaining(cur) \in Int
  BY <1>1 DEF Cursors, Remaining
<1>7. QED
  BY <1>2, <1>3, <1>4, <1>5, <1>6 DEF n, N

--------------------------------------------------------------------------------
\* A list that is written is walked to its end, or to its first bad entry.
LEMMA ListStaysWritten ==
    ASSUME NEW e, CalledOn(e), BodyInv, WrittenInv(e), ParseStep, kind \in WalkedKinds, at # "idle"
    PROVE  WrittenInv(e)'
<1> DEFINE values == e.value
           L == ListIn(kind, values)
<1>0. /\ kind' = kind /\ body' = body /\ body \in Seq(Byte) /\ cur \in Cursors
      /\ kind \notin {"points", "limit", "server_name"} /\ kind \in ListKinds
  <2>1. kind \notin {"points", "limit", "server_name"} /\ kind \in ListKinds
    BY DEF WalkedKinds, PairKinds, ListKinds
  <2>2. QED
    BY <2>1, BodyStays, TypeParts DEF BodyInv
<1>1. /\ values \in Seq(ValuesOf(kind))
      /\ HasList(body, Width) /\ List(body, Width) = L /\ L \in Seq(Nat)
  BY <1>0, ListIsWritten
<1>2. /\ Len(values) \in Nat /\ Places(kind, values)[1] = 0
      /\ kind \in PairKinds => Len(L) = 2 * Len(values)
  BY <1>1, PlacesAre
<1>3. Buildable(e) <=> /\ kind = "alpn" => \A j \in DOMAIN values : values[j] # <<>>
                       /\ kind \in PairKinds => values # <<>>
  BY BuildableIs DEF CalledOn
<1> HIDE DEF values, L
<1>4. ASSUME at = "start"
      PROVE  /\ cur = CursorOn(body) /\ out = <<>> /\ Prefixed(cur, Width) = L
             /\ GoodList <=> (kind \in PairKinds => values # <<>>)
  <2>1. cur = CursorOn(body) /\ out = <<>>
    BY <1>4 DEF BodyInv
  <2>2. PrefixFits(cur, Width) /\ Prefixed(cur, Width) = L
    BY <1>1, <2>1 DEF HasList, List
  <2>3. Number(cur, Width) = Len(L)
    BY <1>0, <2>2, WidthIs, PrefixedIs
  <2>4. ASSUME kind \in PairKinds
        PROVE  (L # <<>> <=> values # <<>>) /\ Number(cur, Width) % 2 = 0
    <3>1. PICK n \in Nat : n = Len(values) /\ Len(L) = 2 * n
      BY <1>2, <2>4
    <3>2. (2 * n) % 2 = 0 /\ (2 * n = 0 <=> n = 0)
      OBVIOUS
    <3>3. (L = <<>> <=> Len(L) = 0) /\ (values = <<>> <=> Len(values) = 0)
      BY <1>1
    <3>4. QED
      BY <2>3, <3>1, <3>2, <3>3
  <2>5. QED
    BY <1>0, <2>1, <2>2, <2>4 DEF GoodList
<1>5. CASE RejectList
  <2>1. at' = "none" /\ at = "start" /\ ~GoodList
    BY <1>5 DEF RejectList, Refuse
  <2>2. ~Buildable(e)
    BY <1>3, <1>4, <2>1
  <2>3. QED
    BY <2>1, <2>2 DEF WrittenInv
<1>6. CASE ReadList
  <2>1. /\ at = "start" /\ GoodList /\ cur' = CursorOn(Prefixed(cur, Width))
        /\ at' = "entries" /\ out' = out
    BY <1>6 DEF ReadList
  <2>2. /\ cur' = CursorOn(L) /\ out' = <<>>
        /\ kind \in PairKinds => values # <<>>
    BY <1>4, <2>1
  <2>3. cur'.bytes = L /\ cur'.pos = 0
    <3>1. CursorOn(L).bytes = L /\ CursorOn(L).pos = 0
      BY Zenon DEF CursorOn
    <3>2. QED
      BY <2>2, <3>1
  <2>4. <<>> \in Seq(ValuesOf(kind)) /\ Len(<<>>) = 0
    OBVIOUS
  <2>5. EntriesHeld(values)'
    <3>a. cur'.bytes = ListIn(kind', values)
      BY <1>0, <2>3 DEF L
    <3>b. out' \in Seq(ValuesOf(kind')) /\ Len(out') = 0
      BY <1>0, <2>2, <2>4
    <3>c. Len(out') <= Len(values)
      BY <1>2, <3>b
    <3>d. kind' \in PairKinds => values # <<>>
      BY <1>0, <2>2
    <3>1. /\ cur'.bytes = ListIn(kind', values)
          /\ out' \in Seq(ValuesOf(kind')) /\ Len(out') = 0 /\ Len(out') <= Len(values)
          /\ kind' \in PairKinds => values # <<>>
      BY <3>a, <3>b, <3>c, <3>d
    <3>2. cur'.pos = Places(kind', values)[Len(out') + 1]
      BY <1>0, <1>2, <2>3, <3>1
    <3>3. 1..Len(out') = {}
      BY <3>1
    <3>4. QED
      BY <3>1, <3>2, <3>3 DEF EntriesHeld
  <2>6. QED
    BY <2>1, <2>5 DEF WrittenInv, values
<1>7. ASSUME at = "entries"
      PROVE  /\ EntriesHeld(values)
             /\ Len(out) \in Nat
             /\ Remaining(cur) > 0 <=> Len(out) < Len(values)
             /\ Remaining(cur) = 0 <=> Len(out) = Len(values)
             /\ Len(out) < Len(values) =>
                LET v == values[Len(out) + 1]
                IN  /\ v \in ValuesOf(kind)
                    /\ EntryFits <=> (kind = "alpn" => v # <<>>)
                    /\ EntryFits =>
                        Entry = v /\ AfterEntry.pos = Places(kind, values)[(Len(out) + 1) + 1]
  <2>1. EntriesHeld(values)
    BY <1>7 DEF WrittenInv, values
  <2>2. QED
    BY <1>1, <2>1, EntryIsLeft
<1>8. CASE ReadEntry
  <2> DEFINE n == Len(out)
             v == values[n + 1]
  <2>1. /\ at = "entries" /\ Remaining(cur) > 0 /\ EntryFits /\ out' = Append(out, Entry)
        /\ cur' = AfterEntry /\ at' = at
    BY <1>8 DEF ReadEntry, Walking
  <2>2. /\ n \in Nat /\ n < Len(values) /\ v \in ValuesOf(kind)
        /\ kind = "alpn" => v # <<>>
        /\ Entry = v /\ AfterEntry.pos = Places(kind, values)[(n + 1) + 1]
    BY <1>7, <2>1
  <2>3. /\ out \in Seq(ValuesOf(kind)) /\ cur.bytes = L
        /\ \A j \in 1..n : out[j] = values[j] /\ (kind = "alpn" => values[j] # <<>>)
        /\ kind \in PairKinds => values # <<>>
    BY <1>7, <2>1 DEF EntriesHeld, L
  <2>4. AfterEntry.bytes = cur.bytes
    BY <2>1, EntryIs DEF BodyInv
  <2> DEFINE V == ValuesOf(kind)
  <2> HIDE DEF v, V
  <2>5. /\ out' \in Seq(V) /\ Len(out') = n + 1
        /\ \A j \in 1..n : out'[j] = out[j]
        /\ out'[n + 1] = v
    BY <2>1, <2>2, <2>3, AppendProperties DEF V
  <2> HIDE DEF n
  <2>6. \A j \in 1..(n + 1) : out'[j] = values[j] /\ (kind = "alpn" => values[j] # <<>>)
    <3>1. \A j \in 1..(n + 1) : j \in 1..n \/ j = n + 1
      BY <2>2
    <3>2. QED
      BY <2>2, <2>3, <2>5, <3>1 DEF v
  <2>7. /\ cur'.bytes = ListIn(kind', values) /\ cur'.pos = Places(kind', values)[Len(out') + 1]
        /\ out' \in Seq(ValuesOf(kind')) /\ Len(out') <= Len(values)
    BY <1>0, <1>2, <2>1, <2>2, <2>3, <2>4, <2>5 DEF V, L
  <2>8. EntriesHeld(values)'
    BY <1>0, <2>3, <2>5, <2>6, <2>7 DEF EntriesHeld
  <2>9. QED
    BY <2>1, <2>8 DEF WrittenInv, values
<1>9. CASE RejectEntry
  <2>1. at = "entries" /\ Remaining(cur) > 0 /\ ~EntryFits /\ at' = "none"
    BY <1>9 DEF RejectEntry, Walking, Refuse
  <2>2. kind = "alpn" /\ values[Len(out) + 1] = <<>> /\ Len(out) \in Nat /\ Len(out) < Len(values)
    BY <1>7, <2>1
  <2>3. Len(out) + 1 \in DOMAIN values
    <3>1. DOMAIN values = 1..Len(values)
      BY <1>1
    <3>2. QED
      BY <1>2, <2>2, <3>1
  <2>4. ~Buildable(e)
    BY <1>3, <2>2, <2>3
  <2>5. QED
    BY <2>1, <2>4 DEF WrittenInv
<1>10. CASE Finish
  <2>1. at = "entries" /\ Remaining(cur) = 0 /\ at' = "some" /\ out' = out
    BY <1>10 DEF Finish
  <2>2. /\ Len(out) = Len(values) /\ out \in Seq(ValuesOf(kind))
        /\ \A j \in 1..Len(out) : out[j] = values[j] /\ (kind = "alpn" => values[j] # <<>>)
        /\ kind \in PairKinds => values # <<>>
    BY <1>7, <2>1 DEF EntriesHeld
  <2> DEFINE V == ValuesOf(kind)
  <2>3. out \in Seq(V) /\ values \in Seq(V)
    BY <1>1, <2>2
  <2> HIDE DEF V
  <2>4. out = values
    BY <2>2, <2>3, SeqEqual
  <2>5. DOMAIN values = 1..Len(out)
    BY <2>2, <2>3
  <2>6. Buildable(e)
    BY <1>3, <2>2, <2>5
  <2>7. QED
    BY <2>1, <2>4, <2>6 DEF WrittenInv, values
<1>11. ~(\/ CopyFormats \/ ReadLimit \/ RejectLimit \/ ReadName)
  <2>1. at \notin {"type", "host"}
    BY <1>0 DEF BodyInv, HostInv
  <2>2. QED
    BY <1>0, <2>1 DEF CopyFormats, ReadLimit, RejectLimit, ReadName, RejectNameList, ReadNameList,
        SkipOtherType, RejectHostLength, SkipNotUtf8, ReadHost, RejectHost, AcceptHost, Typed
<1>12. QED
  BY <1>5, <1>6, <1>8, <1>9, <1>10, <1>11 DEF ParseStep

\* Formats are the bytes of the list.
LEMMA FormatsAreWritten ==
    ASSUME NEW e, CalledOn(e), kind = "points", body \in Seq(Byte)
    PROVE  HasList(body, 1) /\ List(body, 1) = e.value /\ e.value \in Seq(Byte)
<1>1. e.value \in Seq(Byte)
  BY DEF CalledOn, Writable
<1>2. body = UnderU8(e.value)
  <2>1. kind \notin {"alpn", "versions", "u16_list", "key_share"} /\ kind = Parser(e.type)
    BY DEF CalledOn
  <2>2. BodyOf(e) = PointsBody(e.value)
    BY <2>1, Zenon DEF BodyOf
  <2>3. QED
    BY <2>2 DEF PointsBody, CalledOn
<1>3. QED
  BY <1>1, <1>2, BytesAreNumbers, ListUnder

\* A limit is two bytes.
LEMMA LimitIsWritten ==
    ASSUME NEW e, CalledOn(e), kind = "limit"
    PROVE  Len(body) = 2 /\ 256 * body[1] + body[2] = e.value
<1>1. e.value \in Code
  BY DEF CalledOn, Writable
<1>2. body = U16(e.value)
  <2>1. kind \notin {"alpn", "versions", "u16_list", "key_share", "points"}
        /\ kind = Parser(e.type)
    BY DEF CalledOn
  <2>2. BodyOf(e) = LimitBody(e.value)
    BY <2>1, Zenon DEF BodyOf
  <2>3. QED
    BY <2>2 DEF LimitBody, CalledOn
<1>3. e.value \in Nat
  <2>1. \A x \in Code : x \in Nat
    BY DEF Code
  <2>2. QED
    BY <1>1, <2>1
<1>4. PICK v \in Nat : v = e.value
  BY <1>3
<1>5. Len(U16(v)) = 2 /\ 256 * U16(v)[1] + U16(v)[2] = v
  BY U16Is
<1>6. QED
  BY <1>2, <1>4, <1>5

\* Every parser, kept by every step.
LEMMA WrittenKept ==
    ASSUME NEW e, CalledOn(e), BodyInv, AnswerInv, WrittenInv(e), ParseStep, at # "idle"
    PROVE  WrittenInv(e)'
<1>0. kind' = kind /\ kind \in Kinds /\ body \in Seq(Byte)
  BY BodyStays, TypeParts DEF BodyInv
<1>1. CASE kind \in WalkedKinds
  BY <1>1, ListStaysWritten
<1>2. CASE kind = "points"
  <2>1. kind \notin WalkedKinds /\ kind \in ListKinds /\ Width = 1 /\ kind \notin PairKinds
    BY <1>2 DEF ListKinds, WalkedKinds, PairKinds, Width, WidthOf
  <2>2. at \notin {"entries", "type", "host", "skip"}
    BY <1>2 DEF AnswerInv
  <2>3. CopyFormats \/ RejectList
    BY <1>2, <2>1, <2>2 DEF ParseStep, ReadName, ReadList,
         ReadEntry, RejectEntry, Finish, ReadLimit, RejectLimit, RejectNameList, ReadNameList,
         SkipOtherType, RejectHostLength, SkipNotUtf8, ReadHost, RejectHost, AcceptHost,
         Typed, Walking
  <2>4. at = "start" => (GoodList <=> e.value # <<>>) /\ Prefixed(cur, Width) = e.value
    <3>1. HasList(body, 1) /\ List(body, 1) = e.value
      BY <1>0, <1>2, FormatsAreWritten
    <3>2. QED
      BY <1>2, <2>1, <3>1 DEF GoodList, HasList, List, BodyInv
  <2>5. Buildable(e) <=> e.value # <<>>
    BY <1>2, BuildableIs DEF CalledOn
  <2>6. QED
    BY <1>0, <1>2, <2>1, <2>3, <2>4, <2>5 DEF CopyFormats, RejectList, Refuse, WrittenInv
<1>3. CASE kind = "limit"
  <2>1. kind \notin WalkedKinds /\ kind \notin ListKinds
    BY <1>3 DEF ListKinds, WalkedKinds, PairKinds
  <2>2. at \notin {"entries", "type", "host", "skip"}
    BY <1>3 DEF AnswerInv
  <2>3. ReadLimit \/ RejectLimit
    BY <1>3, <2>1, <2>2 DEF ParseStep, ReadName, ReadList, CopyFormats, RejectList,
         ReadEntry, RejectEntry, Finish, RejectNameList, ReadNameList,
         SkipOtherType, RejectHostLength, SkipNotUtf8, ReadHost, RejectHost, AcceptHost,
         Typed, Walking
  <2>4. at = "start" => Number(cur, 2) = e.value /\ (GoodLimit <=> e.value \in MinLimit..MaxLimit)
    <3>1. Len(body) = 2 /\ 256 * body[1] + body[2] = e.value
      BY <1>3, LimitIsWritten
    <3>2. at = "start" => Number(cur, 2) = e.value
      BY <3>1, LimitIs DEF BodyInv
    <3>3. QED
      BY <3>1, <3>2 DEF GoodLimit
  <2>5. Buildable(e) <=> e.value \in MinLimit..MaxLimit
    BY <1>3, BuildableIs DEF CalledOn
  <2>6. QED
    BY <1>0, <1>3, <2>1, <2>3, <2>4, <2>5 DEF ReadLimit, RejectLimit, Refuse, WrittenInv
<1>4. CASE kind = "server_name"
  <2>1. kind' = "server_name" /\ kind' \notin WalkedKinds
    BY <1>0, <1>4 DEF WalkedKinds, PairKinds
  <2>2. QED
    BY <2>1 DEF WrittenInv
<1>5. QED
  BY <1>0, <1>1, <1>2, <1>3, <1>4 DEF Kinds, ListKinds

--------------------------------------------------------------------------------
(* A list of host names that is written. *)

\* An entry of it: the type, the length of two bytes, and the bytes of the host.
NameEntryOf(host) == <<HostName>> \o UnderU16(host)

HostEntry(host, x) ==
    /\ x \in Seq(Nat) /\ Len(host) \in Nat /\ Len(x) = Len(host) + 3
    /\ x[1] = HostName /\ 256 * x[2] + x[3] = Len(host)
    /\ \A i \in 1..Len(host) : x[i + 3] = host[i]

\* It is so.
LEMMA HostEntryIs ==
    ASSUME NEW host \in Seq(Byte)
    PROVE  HostEntry(host, NameEntryOf(host))
<1> DEFINE u == UnderU16(host)
           t == <<HostName>>
           x == NameEntryOf(host)
<1>1. /\ u \in Seq(Nat) /\ Len(host) \in Nat /\ Len(u) = Len(host) + 2
      /\ 256 * u[1] + u[2] = Len(host)
      /\ \A k \in 1..Len(host) : u[k + 2] = host[k]
  BY BytesAreNumbers, UnderU16Is
<1>2. t \in Seq(Nat) /\ Len(t) = 1 /\ t[1] = HostName
  BY DEF HostName
<1>3. x = t \o u
  BY DEF NameEntryOf
<1> HIDE DEF u, t, x
<1>4. Joins(x, t, u)
  <2>1. Joins(t \o u, t, u)
    BY <1>1, <1>2, JoinAt
  <2>2. QED
    BY <1>3, <2>1
<1>5. /\ x \in Seq(Nat) /\ Len(x) = 1 + Len(u)
      /\ \A i \in 1..1 : x[i] = t[i]
      /\ \A i \in 2..(1 + Len(u)) : x[i] = u[i - 1]
  BY <1>2, <1>4 DEF Joins
<1>6. PICK n \in Nat : n = Len(host)
  BY <1>1
<1>7. x[1] = t[1] /\ x[2] = u[1] /\ x[3] = u[2]
  <2>1. 1 \in 1..1 /\ 2 \in 2..(3 + n) /\ 3 \in 2..(3 + n) /\ 2 - 1 = 1 /\ 3 - 1 = 2
    OBVIOUS
  <2>2. 1 + Len(u) = 3 + n
    BY <1>1, <1>6
  <2>3. x[2] = u[2 - 1] /\ x[3] = u[3 - 1]
    BY <1>5, <2>1, <2>2
  <2>4. QED
    BY <1>5, <2>1, <2>3
<1>8. ASSUME NEW i \in 1..n
      PROVE  x[i + 3] = host[i]
  <2>1. i + 3 \in 2..(3 + n) /\ (i + 3) - 1 = i + 2
    BY <1>6
  <2>2. 1 + Len(u) = 3 + n
    BY <1>1, <1>6
  <2>3. x[i + 3] = u[i + 2]
    BY <1>5, <2>1, <2>2
  <2>4. u[i + 2] = host[i]
    BY <1>1, <1>6
  <2>5. QED
    BY <2>3, <2>4
<1>9. Len(x) = n + 3
  BY <1>1, <1>5, <1>6
<1>10. QED
  BY <1>1, <1>2, <1>5, <1>6, <1>7, <1>8, <1>9 DEF HostEntry, x

\* The list of some hosts, of which the first starts it, and the second is behind.
LEMMA HostsAreWritten ==
    ASSUME NEW hosts \in Seq(Seq(Byte)), hosts # <<>>, NEW b \in Seq(Byte), b = NameBody(hosts)
    PROVE  /\ FirstIsHost(b) /\ NameBytes(b) = hosts[1] /\ hosts[1] \in Seq(Byte)
           /\ SecondIsHost(b) <=> Len(hosts) # 1
<1> DEFINE ss == [k \in DOMAIN hosts |-> NameEntryOf(hosts[k])]
           list == FlattenSeq(ss)
<1>1. Len(hosts) \in Nat /\ Len(hosts) # 0 /\ DOMAIN hosts = 1..Len(hosts)
      /\ \A k \in 1..Len(hosts) : hosts[k] \in Seq(Byte)
  BY EmptySeq, LenProperties, ElementOfSeq
<1>2. \A k \in 1..Len(hosts) : HostEntry(hosts[k], NameEntryOf(hosts[k]))
  BY <1>1, HostEntryIs
<1>3. ss = [k \in 1..Len(hosts) |-> NameEntryOf(hosts[k])]
  BY <1>1
<1>4. \A k \in 1..Len(hosts) : NameEntryOf(hosts[k]) \in Seq(Nat)
  BY <1>2 DEF HostEntry
<1>5. ss \in Seq(Seq(Nat)) /\ Len(ss) = Len(hosts)
  BY <1>1, <1>3, <1>4
<1>6. \A k \in 1..Len(hosts) : HostEntry(hosts[k], ss[k])
  BY <1>2, <1>3
<1>7. b = UnderU16(list)
  BY DEF NameBody, Each, NameEntryOf
<1> HIDE DEF ss
<1>8. list \in Seq(Nat) /\ \E p : Laid(ss, list, p)
  BY <1>5, FlattenIs
<1> HIDE DEF list
<1>9. HasList(b, 2) /\ List(b, 2) = list
  BY <1>7, <1>8, ListUnder
<1>10. PICK p : LaidTo(ss, Len(ss), list, p)
  BY <1>8 DEF Laid
<1>11. PICK N \in Nat : N = Len(ss) /\ N = Len(hosts) /\ N >= 1
  <2>1. PICK N \in Nat : N = Len(hosts)
    BY <1>1
  <2>2. N # 0
    BY <1>1, <2>1
  <2>3. N >= 1
    BY <2>2
  <2>4. QED
    BY <1>5, <2>1, <2>3
<1>12. /\ p[1] = 0 /\ Len(list) = p[N + 1]
       /\ \A k \in 1..N : p[k + 1] = p[k] + Len(ss[k])
       /\ \A k \in 1..N : \A j \in 1..Len(ss[k]) : list[p[k] + j] = ss[k][j]
  BY <1>10, <1>11 DEF LaidTo
<1>13. \A k \in 1..N : /\ p[k] \in Nat /\ p[k + 1] \in Nat /\ Len(ss[k]) \in Nat
                       /\ p[k + 1] = p[k] + Len(ss[k]) /\ p[k + 1] <= Len(list)
  <2>1. Len(ss) \in 0..Len(ss) /\ N = Len(ss)
    BY <1>11
  <2>2. \A k \in 1..Len(ss) :
            /\ p[k] \in Nat /\ p[k + 1] \in Nat /\ Len(ss[k]) \in Nat
            /\ p[k + 1] = p[k] + Len(ss[k]) /\ p[k + 1] <= Len(list)
    BY <1>5, <1>10, <2>1, LaidInOrder
  <2>3. QED
    BY <2>1, <2>2
<1> DEFINE first == hosts[1]
<1>14. 1 \in 1..N /\ first \in Seq(Byte) /\ HostEntry(first, ss[1])
  BY <1>1, <1>6, <1>11
<1> HIDE DEF first
<1>15. PICK n \in Nat : n = Len(first)
  BY <1>14 DEF HostEntry
<1>16. /\ Len(ss[1]) = n + 3 /\ ss[1][1] = HostName /\ 256 * ss[1][2] + ss[1][3] = n
       /\ \A i \in 1..n : ss[1][i + 3] = first[i]
  BY <1>14, <1>15 DEF HostEntry
<1>17. p[1] = 0 /\ p[2] = n + 3 /\ n + 3 <= Len(list) /\ Len(list) \in Nat
  <2>1. p[1 + 1] = p[1] + Len(ss[1]) /\ p[1 + 1] <= Len(list)
    BY <1>13, <1>14
  <2>2. 1 + 1 = 2 /\ 0 + (n + 3) = n + 3
    OBVIOUS
  <2>3. Len(list) \in Nat
    BY <1>8, LenProperties
  <2>4. QED
    BY <1>12, <1>16, <2>1, <2>2, <2>3
<1>18. ASSUME NEW j \in 1..(n + 3) PROVE list[j] = ss[1][j]
  <2>1. list[p[1] + j] = ss[1][j]
    BY <1>12, <1>14, <1>16
  <2>2. 0 + j = j
    OBVIOUS
  <2>3. QED
    BY <1>17, <2>1, <2>2
<1>19. list[1] = HostName /\ 256 * list[2] + list[3] = n
  <2>1. 1 \in 1..(n + 3) /\ 2 \in 1..(n + 3) /\ 3 \in 1..(n + 3)
    OBVIOUS
  <2>2. QED
    BY <1>16, <1>18, <2>1
<1>20. Claimed(b) = n
  BY <1>9, <1>19 DEF Claimed
<1>21. FirstIsHost(b)
  BY <1>9, <1>17, <1>19, <1>20 DEF FirstIsHost
<1>22. NameBytes(b) = first
  <2>1. /\ NameBytes(b) \in Seq(Byte) /\ Len(NameBytes(b)) = n
        /\ \A k \in 1..n : NameBytes(b)[k] = list[k + 3]
    BY <1>9, <1>20, <1>21, RawIs
  <2>2. \A k \in 1..n : NameBytes(b)[k] = first[k]
    <3>1. \A k \in 1..n : k + 3 \in 1..(n + 3)
      OBVIOUS
    <3>2. QED
      BY <1>16, <1>18, <2>1, <3>1
  <2>3. QED
    BY <1>14, <1>15, <2>1, <2>2, SeqEqual
<1>23. CASE N = 1
  <2>1. Len(list) = n + 3
    BY <1>12, <1>17, <1>23
  <2>2. ~SecondIsHost(b)
    BY <1>9, <1>15, <1>20, <2>1 DEF SecondIsHost
  <2>3. QED
    BY <1>11, <1>14, <1>21, <1>22, <1>23, <2>2 DEF first
<1>24. CASE N # 1
  <2>1. 2 \in 1..N
    BY <1>11, <1>24
  <2>2. HostEntry(hosts[2], ss[2])
    BY <1>6, <1>11, <2>1
  <2>3. PICK l \in Nat : l = Len(ss[2]) /\ l >= 3 /\ ss[2][1] = HostName
    BY <2>2 DEF HostEntry
  <2>4. p[2 + 1] = p[2] + l /\ p[2 + 1] <= Len(list)
    BY <1>13, <2>1, <2>3
  <2>a. PICK q \in Nat : q = Len(list)
    BY <1>17
  <2>b. n + 3 + l <= q
    BY <1>17, <2>4, <2>a
  <2>c. l >= 3
    BY <2>3
  <2>d. n + 3 < q
    BY <2>b, <2>c
  <2>5. n + 3 < Len(list)
    BY <2>a, <2>d
  <2>6. list[n + 4] = HostName
    <3>1. list[p[2] + 1] = ss[2][1]
      <4>1. 1 \in 1..Len(ss[2])
        BY <2>3
      <4>2. QED
        BY <1>12, <2>1, <4>1
    <3>2. p[2] + 1 = n + 4
      BY <1>17
    <3>3. QED
      BY <2>3, <3>1, <3>2
  <2>7. SecondIsHost(b)
    BY <1>9, <1>17, <1>20, <2>5, <2>6 DEF SecondIsHost
  <2>8. QED
    BY <1>11, <1>14, <1>21, <1>22, <1>24, <2>7 DEF first
<1>25. QED
  BY <1>23, <1>24

\* What a parser answers to it.
LEMMA NameIsWritten ==
    ASSUME NEW e, CalledOn(e), kind = "server_name", BodyInv, NameInv, AnswerInv
    PROVE  /\ at = "some" => IsUtf8(e.value[1]) /\ Buildable(e) /\ out = StripDot(e.value[1])
           /\ at = "skip" => ~IsUtf8(e.value[1]) /\ Buildable(e)
           /\ at = "none" => ~Buildable(e)
<1> DEFINE hosts == e.value
           h == hosts[1]
<1>1. hosts \in Seq(Seq(Byte)) /\ hosts # <<>> /\ Parser(e.type) = "server_name"
  BY DEF CalledOn, Writable
<1>2. body = NameBody(hosts)
  <2>1. kind \notin {"alpn", "versions", "u16_list", "key_share", "points", "limit"}
        /\ kind = Parser(e.type)
    BY DEF CalledOn
  <2>2. BodyOf(e) = NameBody(hosts)
    BY <2>1, Zenon DEF BodyOf
  <2>3. QED
    BY <2>2 DEF CalledOn
<1>3. Buildable(e) <=> (IsUtf8(h) => Len(hosts) = 1 /\ Usable(StripDot(h)))
  BY <1>1, BuildableIs
<1> HIDE DEF hosts, h
<1>4. body \in Seq(Byte)
  BY TypeParts DEF BodyInv
<1>5. /\ FirstIsHost(body) /\ NameBytes(body) = h /\ h \in Seq(Byte)
      /\ SecondIsHost(body) <=> Len(hosts) # 1
  BY <1>1, <1>2, <1>4, HostsAreWritten DEF h
<1>6. ASSUME at = "some"
      PROVE  IsUtf8(h) /\ Buildable(e) /\ out = StripDot(h)
  <2>1. NameHeld /\ Usable(out) /\ ~SecondName
    BY <1>6 DEF NameInv
  <2>2. IsUtf8(h) /\ out = StripDot(h)
    BY <1>5, <2>1 DEF NameHeld
  <2>3. Len(hosts) = 1
    BY <1>5, <2>1, SecondIs
  <2>4. QED
    BY <1>3, <2>1, <2>2, <2>3
<1>7. ASSUME at = "skip"
      PROVE  ~IsUtf8(h)
  <2>1. NamesOther(body)
    BY <1>7 DEF AnswerInv
  <2>2. QED
    BY <1>5, <2>1, NamesOtherIs DEF FirstIsHost
<1>8. ASSUME at = "none"
      PROVE  ~Buildable(e)
  <2>1. ~NamesOther(body) /\ HostsNamed(body) = {}
    BY <1>8 DEF AnswerInv, NameInv
  <2>2. IsUtf8(h)
    BY <1>5, <2>1, NamesOtherIs DEF FirstIsHost
  <2>3. SecondIsHost(body) \/ ~Hostname(StripDot(h))
    BY <1>4, <1>5, <2>1, <2>2, HostsNamedIs
  <2>4. Usable(StripDot(h)) <=> Hostname(StripDot(h))
    BY <1>5, StripIs, UsableIsHostname
  <2>5. QED
    BY <1>3, <1>5, <2>2, <2>3, <2>4
<1>9. QED
  BY <1>3, <1>6, <1>7, <1>8 DEF h, hosts

--------------------------------------------------------------------------------
(* The block of extensions that is written. *)

\* A body is numbers.
LEMMA BodyIsNumbers ==
    ASSUME NEW e, Writable(e)
    PROVE  BodyOf(e) \in Seq(Nat)
<1> DEFINE k == Parser(e.type)
           v == e.value
<1>1. CASE k \in WalkedKinds
  <2>1. /\ v \in Seq(ValuesOf(k))
        /\ WidthOf(k) = 1 => BodyOf(e) = UnderU8(ListIn(k, v))
        /\ WidthOf(k) = 2 => BodyOf(e) = UnderU16(ListIn(k, v))
    BY <1>1, BodyIsList
  <2>2. ListIn(k, v) \in Seq(Nat)
    BY <1>1, <2>1, PlacesAre
  <2>3. WidthOf(k) \in {1, 2}
    BY DEF WidthOf
  <2> DEFINE list == ListIn(k, v)
  <2> HIDE DEF list
  <2>4. list \in Seq(Nat) => UnderU8(list) \in Seq(Nat) /\ UnderU16(list) \in Seq(Nat)
    BY UnderU8Is, UnderU16Is
  <2>5. QED
    BY <2>1, <2>2, <2>3, <2>4 DEF list
<1>2. CASE k = "points"
  <2>1. BodyOf(e) = PointsBody(v)
    <3>1. k \notin {"alpn", "versions", "u16_list", "key_share"}
      BY <1>2
    <3>2. QED
      BY <1>2, <3>1, Zenon DEF BodyOf
  <2>2. v \in Seq(Nat)
    BY <1>2, BytesAreNumbers DEF Writable
  <2>3. QED
    BY <2>1, <2>2, UnderU8Is DEF PointsBody
<1>3. CASE k = "limit"
  <2>1. BodyOf(e) = LimitBody(v)
    <3>1. k \notin {"alpn", "versions", "u16_list", "key_share", "points"}
      BY <1>3
    <3>2. QED
      BY <1>3, <3>1, Zenon DEF BodyOf
  <2>2. v \in Nat
    <3>1. \A x \in Code : x \in Nat
      BY DEF Code
    <3>2. QED
      BY <1>3, <3>1 DEF Writable
  <2>3. QED
    BY <2>1, <2>2, U16Is DEF LimitBody
<1>4. CASE k = "server_name"
  <2> DEFINE ss == [j \in DOMAIN v |-> NameEntryOf(v[j])]
             list == FlattenSeq(ss)
  <2>1. BodyOf(e) = NameBody(v)
    <3>1. k \notin {"alpn", "versions", "u16_list", "key_share", "points", "limit"}
      BY <1>4
    <3>2. QED
      BY <1>4, <3>1, Zenon DEF BodyOf
  <2>2. NameBody(v) = UnderU16(list)
    BY DEF NameBody, Each, NameEntryOf
  <2>3. v \in Seq(Seq(Byte))
    BY <1>4 DEF Writable
  <2>4. Len(v) \in Nat /\ DOMAIN v = 1..Len(v) /\ \A j \in 1..Len(v) : v[j] \in Seq(Byte)
    BY <2>3, LenProperties, ElementOfSeq
  <2>5. \A j \in 1..Len(v) : NameEntryOf(v[j]) \in Seq(Nat)
    BY <2>4, HostEntryIs DEF HostEntry
  <2>6. ss = [j \in 1..Len(v) |-> NameEntryOf(v[j])]
    BY <2>4
  <2>7. ss \in Seq(Seq(Nat))
    BY <2>4, <2>5, <2>6
  <2> HIDE DEF ss
  <2>8. list \in Seq(Nat)
    BY <2>7, FlattenIs
  <2> HIDE DEF list
  <2>9. QED
    BY <2>1, <2>2, <2>8, UnderU16Is
<1>5. CASE k = None
  <2>1. BodyOf(e) = v
    <3>1. k \notin {"alpn", "versions", "u16_list", "key_share", "points", "limit", "server_name"}
      BY <1>5, NoParserAssumption DEF Kinds, ListKinds, WalkedKinds, PairKinds
    <3>2. QED
      BY <3>1, Zenon DEF BodyOf
  <2>2. v \in Seq(Byte)
    BY <1>5 DEF Writable
  <2>3. QED
    BY <2>1, <2>2, BytesAreNumbers
<1>6. k = None \/ k \in Kinds
  BY ParserIs
<1>7. QED
  BY <1>1, <1>2, <1>3, <1>4, <1>5, <1>6 DEF Kinds, ListKinds

\* An extension: its type, and its body under a length.
ExtensionEntry(type, data, x) ==
    /\ x \in Seq(Nat) /\ Len(data) \in Nat /\ Len(x) = Len(data) + 4
    /\ 256 * x[1] + x[2] = type /\ 256 * x[3] + x[4] = Len(data)
    /\ \A i \in 1..Len(data) : x[i + 4] = data[i]

\* So it is written.
LEMMA ExtensionEntryIs ==
    ASSUME NEW type \in Nat, NEW data \in Seq(Nat)
    PROVE  ExtensionEntry(type, data, ExtensionBytes(type, data))
<1> DEFINE t == U16(type)
           u == UnderU16(data)
           x == ExtensionBytes(type, data)
<1>1. /\ u \in Seq(Nat) /\ Len(data) \in Nat /\ Len(u) = Len(data) + 2
      /\ 256 * u[1] + u[2] = Len(data)
      /\ \A k \in 1..Len(data) : u[k + 2] = data[k]
  BY UnderU16Is
<1>2. t \in Seq(Nat) /\ Len(t) = 2 /\ 256 * t[1] + t[2] = type
  BY U16Is
<1>3. x = t \o u
  BY DEF ExtensionBytes
<1> HIDE DEF u, t, x
<1>4. Joins(x, t, u)
  <2>1. Joins(t \o u, t, u)
    BY <1>1, <1>2, JoinAt
  <2>2. QED
    BY <1>3, <2>1
<1>5. /\ x \in Seq(Nat) /\ Len(x) = 2 + Len(u)
      /\ \A i \in 1..2 : x[i] = t[i]
      /\ \A i \in 3..(2 + Len(u)) : x[i] = u[i - 2]
  BY <1>2, <1>4 DEF Joins
<1>6. PICK n \in Nat : n = Len(data)
  BY <1>1
<1>7. 2 + Len(u) = 4 + n
  BY <1>1, <1>6
<1>8. x[1] = t[1] /\ x[2] = t[2] /\ x[3] = u[1] /\ x[4] = u[2]
  <2>1. 1 \in 1..2 /\ 2 \in 1..2 /\ 3 \in 3..(4 + n) /\ 4 \in 3..(4 + n) /\ 3 - 2 = 1 /\ 4 - 2 = 2
    OBVIOUS
  <2>2. x[3] = u[3 - 2] /\ x[4] = u[4 - 2]
    BY <1>5, <1>7, <2>1
  <2>3. QED
    BY <1>5, <2>1, <2>2
<1>9. ASSUME NEW i \in 1..n
      PROVE  x[i + 4] = data[i]
  <2>1. i + 4 \in 3..(4 + n) /\ (i + 4) - 2 = i + 2
    BY <1>6
  <2>2. x[i + 4] = u[i + 2]
    BY <1>5, <1>7, <2>1
  <2>3. u[i + 2] = data[i]
    BY <1>1, <1>6
  <2>4. QED
    BY <2>2, <2>3
<1>10. Len(x) = n + 4
  BY <1>5, <1>7
<1>11. 256 * x[1] + x[2] = type /\ 256 * x[3] + x[4] = n
  BY <1>1, <1>2, <1>6, <1>8
<1>12. QED
  BY <1>1, <1>5, <1>6, <1>9, <1>10, <1>11 DEF ExtensionEntry, x

\* A body of n bytes stands behind its length at byte a of a block.
DataFollows(bytes, a, n, data) ==
    /\ data \in Seq(Nat) /\ n = Len(data) /\ a + 4 + n <= Len(bytes)
    /\ 256 * bytes[a + 3] + bytes[a + 4] = n
    /\ \A i \in (a + 5)..(a + 4 + n) : bytes[i] = data[i - (a + 4)]

\* It is read as it is written.
LEMMA ExtensionIsRead ==
    ASSUME NEW bytes \in Seq(Byte), NEW a \in Nat, NEW n \in Nat, NEW data,
           DataFollows(bytes, a, n, data)
    PROVE  /\ ExtensionFits(bytes, a) /\ NextStart(bytes, a) = a + 4 + n
           /\ DataAt(bytes, a) = data
<1>a. /\ data \in Seq(Nat) /\ n = Len(data) /\ a + 4 + n <= Len(bytes)
      /\ 256 * bytes[a + 3] + bytes[a + 4] = n
      /\ \A i \in (a + 5)..(a + 4 + n) : bytes[i] = data[i - (a + 4)]
  BY DEF DataFollows
<1>0. Len(bytes) \in Nat /\ \A i \in 1..Len(bytes) : bytes[i] \in Byte
  BY LenProperties, ElementOfSeq
<1> DEFINE c == [bytes |-> bytes, pos |-> a]
           d == Skip(c, 2)
<1>1. c \in Cursors /\ c.bytes = bytes /\ c.pos = a
  BY <1>0, <1>a DEF Cursors
<1> HIDE DEF c
<1>2. Fits(c, 4) /\ Fits(c, 2)
  BY <1>0, <1>1, <1>a DEF Fits, Remaining
<1>3. d \in Cursors /\ d.bytes = bytes /\ d.pos = a + 2
  BY <1>1, <1>2, SkipIs
<1> HIDE DEF d
<1>4. Fits(d, 2)
  BY <1>0, <1>3, <1>a DEF Fits, Remaining
<1>5. Number(d, 2) = n
  <2>1. Number(d, 2) = 256 * d.bytes[d.pos + 1] + d.bytes[d.pos + 2]
    BY <1>3, <1>4, NumberIs
  <2>2. d.pos + 1 = a + 3 /\ d.pos + 2 = a + 4
    BY <1>3
  <2>3. QED
    BY <1>3, <1>a, <2>1, <2>2
<1>6. PrefixFits(d, 2)
  BY <1>0, <1>3, <1>4, <1>5, <1>a DEF PrefixFits, Fits, Remaining
<1>7. ExtensionFits(bytes, a)
  <2>1. ExtensionFits(c.bytes, c.pos)
    BY <1>1, <1>2, <1>6, ExtensionIs DEF d
  <2>2. QED
    BY <1>1, <2>1
<1>8. NextStart(bytes, a) = a + 4 + n
  <2>1. a + 3 \in 1..Len(bytes) /\ a + 4 \in 1..Len(bytes)
    BY <1>0, <1>a
  <2>2. bytes[a + 3] \in Byte /\ bytes[a + 4] \in Byte
    BY <1>0, <2>1
  <2>3. \A x \in Byte : x \in Nat
    BY DEF Byte
  <2>4. PICK x \in Nat, y \in Nat : x = bytes[a + 3] /\ y = bytes[a + 4]
    BY <2>2, <2>3
  <2>5. NextStart(bytes, a) = a + 4 + 256 * x + y
    BY <2>4 DEF NextStart
  <2>6. 256 * x + y = n
    BY <1>a, <2>4
  <2>7. a + 4 + 256 * x + y = a + 4 + (256 * x + y)
    OBVIOUS
  <2>8. QED
    BY <2>5, <2>6, <2>7
<1>9. DataAt(bytes, a) = data
  <2>1. PICK from \in Nat, to \in Nat : from = a + 5 /\ to = a + 4 + n
    <3>1. a + 5 \in Nat /\ a + 4 + n \in Nat
      OBVIOUS
    <3>2. QED
      BY <3>1, Zenon
  <2>2. DataAt(bytes, a) = SubSeq(bytes, from, to)
    BY <1>8, <2>1 DEF DataAt
  <2>3. to + 1 = from + n /\ \A i \in from..to : bytes[i] \in Byte
    <3>1. \A i \in from..to : i \in 1..Len(bytes)
      BY <1>0, <1>a, <2>1
    <3>2. QED
      BY <1>0, <2>1, <3>1
  <2>4. /\ SubSeq(bytes, from, to) \in Seq(Byte) /\ Len(SubSeq(bytes, from, to)) = n
        /\ \A i \in 1..n : SubSeq(bytes, from, to)[i] = bytes[from + i - 1]
    BY <2>3, BytesFrom
  <2>5. ASSUME NEW i \in 1..n PROVE SubSeq(bytes, from, to)[i] = data[i]
    <3>1. PICK j \in Nat : j = from + i - 1
      BY <2>1
    <3>2. j \in (a + 5)..(a + 4 + n) /\ j - (a + 4) = i
      BY <2>1, <3>1
    <3>3. QED
      BY <1>a, <2>4, <3>1, <3>2
  <2> DEFINE read == SubSeq(bytes, from, to)
  <2>6. read \in Seq(Nat) /\ Len(read) = n /\ \A i \in 1..n : read[i] = data[i]
    BY <2>4, <2>5, BytesAreNumbers
  <2> HIDE DEF read
  <2>7. read = data
    BY <1>a, <2>6, SeqEqual
  <2>8. QED
    BY <2>2, <2>7 DEF read
<1>10. QED
  BY <1>7, <1>8, <1>9

--------------------------------------------------------------------------------
(* The message of a hello. *)

\* What a hello is.
HelloKnown(h) ==
    /\ h = [ciphers |-> h.ciphers, exts |-> h.exts]
    /\ h.ciphers \in Seq(Code)
    /\ Len(h.exts) \in Nat /\ DOMAIN h.exts = 1..Len(h.exts)
    /\ \A k \in 1..Len(h.exts) : Writable(h.exts[k])

\* The hellos that are sent are.
LEMMA HelloIsKnown == ASSUME NEW h \in Hellos PROVE HelloKnown(h)
<1> DEFINE S == { h.exts[k] : k \in DOMAIN h.exts }
<1>1. h \in [ciphers : Seq(Code), exts : Seq(S)] /\ \A k \in DOMAIN h.exts : Writable(h.exts[k])
  BY HellosAssumption
<1> HIDE DEF S
<1>2. h = [ciphers |-> h.ciphers, exts |-> h.exts] /\ h.ciphers \in Seq(Code) /\ h.exts \in Seq(S)
  BY <1>1
<1>3. Len(h.exts) \in Nat /\ DOMAIN h.exts = 1..Len(h.exts)
  BY <1>2, LenProperties
<1>4. QED
  BY <1>1, <1>2, <1>3 DEF HelloKnown

\* Its extensions, each as it is written.
WrittenExts(h) == [k \in 1..Len(h.exts) |-> ExtensionBytes(h.exts[k].type, BodyOf(h.exts[k]))]

\* They are the block, one behind the other.
LEMMA BlockIsLaid ==
    ASSUME NEW h, HelloKnown(h)
    PROVE  /\ WrittenExts(h) \in Seq(Seq(Nat)) /\ Len(WrittenExts(h)) = Len(h.exts)
           /\ \A k \in 1..Len(h.exts) :
                /\ BodyOf(h.exts[k]) \in Seq(Nat)
                /\ ExtensionEntry(h.exts[k].type, BodyOf(h.exts[k]), WrittenExts(h)[k])
           /\ BlockOf(h) \in Seq(Nat)
           /\ \E p : Laid(WrittenExts(h), BlockOf(h), p)
<1> DEFINE N == Len(h.exts)
           Piece(k) == ExtensionBytes(h.exts[k].type, BodyOf(h.exts[k]))
           ss == [k \in 1..N |-> Piece(k)]
<1>1. N \in Nat /\ DOMAIN h.exts = 1..N /\ \A k \in 1..N : Writable(h.exts[k])
  BY DEF HelloKnown
<1> HIDE DEF N
<1>2. \A k \in 1..N : h.exts[k].type \in Nat /\ BodyOf(h.exts[k]) \in Seq(Nat)
  <2> TAKE k \in 1..N
  <2>1. PICK e : e = h.exts[k]
    OBVIOUS
  <2>2. Writable(e)
    BY <1>1, <2>1
  <2>3. e.type \in Code
    BY <2>2 DEF Writable
  <2>4. \A x \in Code : x \in Nat
    BY DEF Code
  <2>5. e.type \in Nat /\ BodyOf(e) \in Seq(Nat)
    BY <2>2, <2>3, <2>4, BodyIsNumbers
  <2>6. QED
    BY <2>1, <2>5
<1>3. \A k \in 1..N : ExtensionEntry(h.exts[k].type, BodyOf(h.exts[k]), Piece(k))
  BY <1>2, ExtensionEntryIs
<1>4. \A k \in 1..N : Piece(k) \in Seq(Nat)
  BY <1>3 DEF ExtensionEntry
<1>5. BlockOf(h) = FlattenSeq([k \in DOMAIN h.exts |-> Piece(k)])
  BY DEF BlockOf, Each
<1>6. BlockOf(h) = FlattenSeq(ss) /\ WrittenExts(h) = ss
  BY <1>1, <1>5 DEF WrittenExts, N
<1> HIDE DEF Piece
<1>7. ss \in Seq(Seq(Nat)) /\ Len(ss) = N /\ \A k \in 1..N : ss[k] = Piece(k)
  BY <1>1, <1>4
<1> HIDE DEF ss
<1>8. FlattenSeq(ss) \in Seq(Nat) /\ \E p : Laid(ss, FlattenSeq(ss), p)
  BY <1>7, FlattenIs
<1>9. QED
  BY <1>2, <1>3, <1>6, <1>7, <1>8 DEF N

\* The N extensions of h stand in a block at s.
WrittenAt(h, N, bytes, s) ==
    /\ N \in Nat /\ Len(s) = N + 1 /\ s[N + 1] = Len(bytes)
    /\ \A k \in 1..N : /\ TypeAt(bytes, s[k]) = h.exts[k].type
                       /\ DataAt(bytes, s[k]) = BodyOf(h.exts[k])

\* The places where extensions are written are those where extensions start.
LEMMA BlockIsWritten ==
    ASSUME NEW h, HelloKnown(h), NEW bytes \in Seq(Byte), bytes = BlockOf(h),
           NEW N, N = Len(h.exts), NEW s, s = Starts(bytes)
    PROVE  WrittenAt(h, N, bytes, s)
<1> DEFINE ss == WrittenExts(h)
           B(k) == BodyOf(h.exts[k])
           T(k) == h.exts[k].type
<1>1. /\ ss \in Seq(Seq(Nat)) /\ Len(ss) = N /\ N \in Nat
      /\ \A k \in 1..N : B(k) \in Seq(Nat) /\ ExtensionEntry(T(k), B(k), ss[k])
      /\ \E p : Laid(ss, bytes, p)
  BY BlockIsLaid DEF HelloKnown
<1> HIDE DEF ss, B, T
<1>2. PICK p : LaidTo(ss, N, bytes, p)
  BY <1>1 DEF Laid
<1>3. /\ p \in Seq(Nat) /\ Len(p) = N + 1 /\ p[1] = 0 /\ Len(bytes) = p[N + 1]
      /\ \A k \in 1..N : \A j \in 1..Len(ss[k]) : bytes[p[k] + j] = ss[k][j]
  BY <1>2 DEF LaidTo
<1>4. \A k \in 1..N :
        /\ p[k] \in Nat /\ p[k + 1] \in Nat /\ Len(ss[k]) \in Nat
        /\ p[k + 1] = p[k] + Len(ss[k]) /\ p[k + 1] <= Len(bytes)
  <2>1. N \in 0..Len(ss)
    BY <1>1
  <2>2. QED
    BY <1>1, <1>2, <2>1, LaidInOrder
<1>5. Len(bytes) \in Nat
  BY LenProperties
<1>6. ASSUME NEW k \in 1..N
      PROVE  /\ ExtensionFits(bytes, p[k]) /\ p[k + 1] = NextStart(bytes, p[k])
             /\ TypeAt(bytes, p[k]) = T(k) /\ DataAt(bytes, p[k]) = B(k)
  <2>a. p[k] \in Nat /\ Len(B(k)) \in Nat
    BY <1>1, <1>4 DEF ExtensionEntry
  <2>b. PICK a \in Nat, n \in Nat : a = p[k] /\ n = Len(B(k))
    BY <2>a
  <2>c. PICK x, data : x = ss[k] /\ data = B(k)
    OBVIOUS
  <2>1. a = p[k] /\ x = ss[k] /\ data = B(k) /\ n = Len(data)
    BY <2>b, <2>c
  <2>2. /\ Len(x) = n + 4 /\ 256 * x[1] + x[2] = T(k) /\ 256 * x[3] + x[4] = n
        /\ \A i \in 1..n : x[i + 4] = data[i]
        /\ data \in Seq(Nat)
    BY <1>1, <2>1 DEF ExtensionEntry
  <2>3. p[k + 1] = a + (n + 4) /\ a + (n + 4) <= Len(bytes)
    BY <1>4, <2>1, <2>2
  <2>4. \A j \in 1..(n + 4) : bytes[a + j] = x[j]
    BY <1>3, <2>1, <2>2
  <2>5. bytes[a + 1] = x[1] /\ bytes[a + 2] = x[2] /\ bytes[a + 3] = x[3] /\ bytes[a + 4] = x[4]
    <3>1. 1 \in 1..(n + 4) /\ 2 \in 1..(n + 4) /\ 3 \in 1..(n + 4) /\ 4 \in 1..(n + 4)
      OBVIOUS
    <3>2. QED
      BY <2>4, <3>1
  <2>6. ASSUME NEW i \in (a + 5)..(a + 4 + n) PROVE bytes[i] = data[i - (a + 4)]
    <3>1. PICK j \in Nat : j = i - (a + 4)
      OBVIOUS
    <3>2. j \in 1..n /\ j + 4 \in 1..(n + 4) /\ a + (j + 4) = i
      BY <3>1
    <3>3. bytes[a + (j + 4)] = x[j + 4] /\ x[j + 4] = data[j]
      BY <2>2, <2>4, <3>2
    <3>4. QED
      BY <3>1, <3>2, <3>3
  <2>7. a + 4 + n <= Len(bytes) /\ a + (n + 4) = a + 4 + n
    BY <1>5, <2>3
  <2>8. 256 * bytes[a + 3] + bytes[a + 4] = n
    BY <2>2, <2>5
  <2>9. /\ ExtensionFits(bytes, a) /\ NextStart(bytes, a) = a + 4 + n
        /\ DataAt(bytes, a) = data
    <3>1. n = Len(data) /\ data \in Seq(Nat) /\ a + 4 + n <= Len(bytes)
      BY <2>1, <2>2, <2>7
    <3>2. DataFollows(bytes, a, n, data)
      BY <2>6, <2>8, <3>1 DEF DataFollows
    <3>3. QED
      BY <3>2, ExtensionIsRead
  <2>10. TypeAt(bytes, a) = T(k)
    BY <2>2, <2>5 DEF TypeAt
  <2>11. QED
    BY <2>1, <2>3, <2>7, <2>9, <2>10
<1>7. \A k \in 1..(N + 1) : p[k] \in 0..Len(bytes)
  <2> TAKE k \in 1..(N + 1)
  <2>1. p[k] \in Nat
    BY <1>1, <1>3
  <2>2. k = N + 1 \/ k \in 1..N
    BY <1>1
  <2>3. p[k] <= Len(bytes)
    <3>1. CASE k = N + 1
      BY <1>3, <1>5, <3>1
    <3>2. CASE k \in 1..N
      <4>1. PICK a \in Nat, b \in Nat, l \in Nat :
                a = p[k] /\ b = p[k + 1] /\ l = Len(ss[k]) /\ b = a + l /\ b <= Len(bytes)
        BY <1>4, <3>2
      <4>2. a <= Len(bytes)
        BY <1>5, <4>1
      <4>3. QED
        BY <4>1, <4>2
    <3>3. QED
      BY <2>2, <3>1, <3>2
  <2>4. QED
    BY <1>5, <2>1, <2>3
<1>8. p \in Seq(0..Len(bytes))
  <2> DEFINE Q == 0..Len(bytes)
  <2>1. p = [k \in 1..(N + 1) |-> p[k]] /\ N + 1 \in Nat
    BY <1>1, <1>3
  <2> HIDE DEF Q
  <2>2. \A k \in 1..(N + 1) : p[k] \in Q
    BY <1>7 DEF Q
  <2>3. QED
    BY <2>1, <2>2 DEF Q
<1>9. ~ExtensionFits(bytes, p[N + 1])
  <2> DEFINE c == [bytes |-> bytes, pos |-> Len(bytes)]
  <2>1. c \in Cursors /\ c.bytes = bytes /\ c.pos = Len(bytes)
    BY <1>5 DEF Cursors
  <2> HIDE DEF c
  <2>2. ~Fits(c, 4)
    BY <1>5, <2>1 DEF Fits, Remaining
  <2>3. ~ExtensionFits(c.bytes, c.pos)
    BY <2>1, <2>2, ExtensionIs
  <2>4. QED
    BY <1>3, <2>1, <2>3
<1>10. StartsOn(bytes, 0, p)
  <2>1. Len(p) \in Nat \ {0} /\ Len(p) - 1 = N
    BY <1>1, <1>3
  <2>2. QED
    BY <1>3, <1>6, <1>8, <1>9, <2>1 DEF StartsOn
<1>11. p = s
  BY <1>10, StartsAre, StartsAgree
<1>12. QED
  BY <1>1, <1>3, <1>6, <1>11 DEF T, B, WrittenAt

\* The suites are pairs of bytes, and read back as they were.
LEMMA SuitesAreWritten ==
    ASSUME NEW ciphers \in Seq(Code), NEW suites, suites = Each(U16, ciphers)
    PROVE  /\ suites \in Seq(Nat) /\ Len(ciphers) \in Nat /\ Len(suites) = 2 * Len(ciphers)
           /\ Codepoints(suites) = ciphers
<1>0. PICK k \in WalkedKinds : k \in PairKinds /\ k # "alpn"
  BY DEF WalkedKinds, PairKinds
<1>1. Code = ValuesOf(k)
  BY <1>0 DEF ValuesOf
<1> DEFINE ss == EntriesIn(k, ciphers)
           list == ListIn(k, ciphers)
<1>2. suites = list
  <2>1. \A j \in DOMAIN ciphers : Encoded(k, ciphers[j]) = U16(ciphers[j])
    BY <1>0, Zenon DEF Encoded
  <2>2. [j \in DOMAIN ciphers |-> U16(ciphers[j])] = ss
    BY <2>1, Zenon DEF EntriesIn
  <2>3. suites = FlattenSeq([j \in DOMAIN ciphers |-> U16(ciphers[j])])
    BY DEF Each
  <2>4. QED
    BY <2>2, <2>3 DEF ListIn
<1>3. /\ ss \in Seq(Seq(Nat)) /\ Len(ss) = Len(ciphers) /\ Len(ciphers) \in Nat
      /\ \A j \in 1..Len(ciphers) : EntryBytes(k, ciphers[j], ss[j])
      /\ list \in Seq(Nat) /\ \E p : Laid(ss, list, p)
  <2>1. ciphers \in Seq(ValuesOf(k))
    BY <1>1
  <2>2. QED
    BY <2>1, EntriesAre
<1> HIDE DEF ss, list
<1>4. PICK M \in Nat : M = Len(ciphers) /\ M = Len(ss)
  BY <1>3
<1>5. PICK p : Laid(ss, list, p)
  BY <1>3
<1>6. \A j \in 1..M : /\ Len(ss[j]) = 2 /\ 256 * ss[j][1] + ss[j][2] = ciphers[j]
  BY <1>0, <1>3, <1>4 DEF EntryBytes
<1>7. (\A j \in 1..(M + 1) : p[j] = 2 * j - 2) /\ Len(list) = 2 * M
  <2>1. \A j \in 1..Len(ss) : Len(ss[j]) = 2
    BY <1>4, <1>6
  <2>2. (\A j \in 1..(Len(ss) + 1) : p[j] = 2 * j - 2) /\ Len(list) = 2 * Len(ss)
    <3>1. ss \in Seq(Seq(Nat))
      BY <1>3
    <3>2. QED
      BY <1>5, <2>1, <3>1, LaidPairs
  <2>3. QED
    BY <1>4, <2>2
<1>8. \A j \in 1..M : \A i \in 1..Len(ss[j]) : list[p[j] + i] = ss[j][i]
  BY <1>4, <1>5 DEF Laid, LaidTo
<1>9. ASSUME NEW j \in 1..M
      PROVE  256 * list[2 * j - 1] + list[2 * j] = ciphers[j]
  <2>1. 1 \in 1..2 /\ 2 \in 1..2 /\ Len(ss[j]) = 2
    BY <1>6
  <2>2. list[p[j] + 1] = ss[j][1] /\ list[p[j] + 2] = ss[j][2]
    BY <1>8, <2>1
  <2>3. p[j] = 2 * j - 2
    <3>1. j \in 1..(M + 1)
      OBVIOUS
    <3>2. QED
      BY <1>7, <3>1
  <2>4. p[j] + 1 = 2 * j - 1 /\ p[j] + 2 = 2 * j
    BY <2>3
  <2>5. QED
    BY <1>6, <2>2, <2>4
<1>10. Len(list) \div 2 = M
  <2>1. (2 * M) \div 2 = M
    OBVIOUS
  <2>2. QED
    BY <1>7, <2>1
<1>11. Codepoints(list) = [j \in 1..M |-> ciphers[j]]
  BY <1>9, <1>10 DEF Codepoints
<1>12. [j \in 1..M |-> ciphers[j]] = ciphers
  <2>1. ciphers = [j \in 1..Len(ciphers) |-> ciphers[j]]
    OBVIOUS
  <2>2. QED
    BY <1>4, <2>1
<1>13. QED
  BY <1>2, <1>3, <1>4, <1>7, <1>11, <1>12

\* What is read of the message of a hello.
LEMMA MessageIsRead ==
    ASSUME NEW h \in Hellos, NEW m, m = MessageOf(h)
    PROVE  /\ m \in Messages /\ m \in Seq(Byte)
           /\ GoodHello(m) <=> h.ciphers # <<>>
           /\ Codepoints(Prefixed(Suites(m), 2)) = h.ciphers
           /\ Block(m) = IF GoodHello(m) THEN BlockOf(h) ELSE <<>>
<1> DEFINE exts == BlockOf(h)
           suites == Each(U16, h.ciphers)
<1>1. m \in Messages /\ m \in Seq(Byte)
  BY BuiltAssumption, MessagesAssumption
<1>2. HelloKnown(h)
  BY HelloIsKnown
<1>3. m = Message(exts, LegacyVersion, <<>>, suites, <<0>>)
  BY DEF MessageOf
<1>4. exts \in Seq(Nat)
  BY <1>2, BlockIsLaid
<1>5. h.ciphers \in Seq(Code)
  BY <1>2 DEF HelloKnown
<1> HIDE DEF exts
<1>6. suites \in Seq(Nat) /\ Len(h.ciphers) \in Nat /\ Len(suites) = 2 * Len(h.ciphers)
      /\ Codepoints(suites) = h.ciphers
  BY <1>5, SuitesAreWritten
<1> HIDE DEF suites
<1>7. PICK M \in Nat, n \in Nat, l \in Nat :
          M = Len(h.ciphers) /\ n = Len(suites) /\ l = Len(exts) /\ n = 2 * M
  BY <1>4, <1>6
<1>8. FieldsOf(m, n, l, suites, exts)
  BY <1>3, <1>4, <1>6, <1>7, MessageIs
<1>9. n % 2 = 0 /\ (n > 0 <=> M # 0)
  <2>1. (2 * M) % 2 = 0 /\ (2 * M > 0 <=> M # 0)
    OBVIOUS
  <2>2. QED
    BY <1>7, <2>1
<1>10. /\ GoodHello(m) <=> n > 0
       /\ Prefixed(Suites(m), 2) = suites /\ Prefixed(Extensions(m), 2) = exts
  BY <1>1, <1>4, <1>6, <1>7, <1>8, <1>9, GoodHelloIs
<1>11. M # 0 <=> h.ciphers # <<>>
  BY <1>5, <1>7
<1>12. Block(m) = IF GoodHello(m) THEN exts ELSE <<>>
  BY <1>10 DEF Block
<1>13. QED
  BY <1>1, <1>6, <1>9, <1>10, <1>11, <1>12 DEF exts

--------------------------------------------------------------------------------
(* The metadata of the first extensions of a hello. *)

\* The types whose parser answers with a list, formats or a limit.
ListTypes == {
    Ext.alpn, Ext.supported_versions, Ext.key_share, Ext.record_size_limit,
    Ext.signature_algorithms, Ext.supported_groups, Ext.ec_point_formats}

\* Each answer has a field of its own.
LEMMA FieldsAre ==
    /\ Field(Ext.alpn) = "alpn_protocols"
    /\ Field(Ext.supported_versions) = "supported_versions"
    /\ Field(Ext.key_share) = "key_share_groups"
    /\ Field(Ext.record_size_limit) = "record_size_limit"
    /\ Field(Ext.signature_algorithms) = "signature_algorithms"
    /\ Field(Ext.supported_groups) = "supported_groups"
    /\ Field(Ext.ec_point_formats) = "ec_point_formats"
<1>1. Field(Ext.alpn) = "alpn_protocols"
  BY ExtIs DEF Field
<1>2. Field(Ext.supported_versions) = "supported_versions"
  BY ExtIs DEF Field
<1>3. Field(Ext.key_share) = "key_share_groups"
  BY ExtIs DEF Field
<1>4. Field(Ext.record_size_limit) = "record_size_limit"
  BY ExtIs DEF Field
<1>5. Field(Ext.signature_algorithms) = "signature_algorithms"
  BY ExtIs DEF Field
<1>6. Field(Ext.supported_groups) = "supported_groups"
  BY ExtIs DEF Field
<1>7. Field(Ext.ec_point_formats) = "ec_point_formats"
  BY ExtIs DEF Field
<1>8. QED
  BY <1>1, <1>2, <1>3, <1>4, <1>5, <1>6, <1>7

\* No two answers share one.
LEMMA FieldsDiffer ==
    ASSUME NEW t \in ListTypes, NEW u \in ListTypes
    PROVE  Field(t) \in ListFields /\ (t # u => Field(t) # Field(u))
BY FieldsAre DEF ListTypes, ListFields

\* The types that a parser is called for.
LEMMA ParsedTypes ==
    ASSUME NEW t
    PROVE  /\ t \in ListTypes <=> Parser(t) # None /\ Parser(t) # "server_name"
           /\ t = Ext.server_name <=> Parser(t) = "server_name"
           /\ t = Ext.server_name => Parser(t) # None
           /\ Ext.server_name \notin ListTypes
<1>1. Ext.server_name \notin ListTypes
  BY ExtIs DEF ListTypes
<1>2. "server_name" # None /\ \A k \in Kinds : k # None
  BY NoParserAssumption DEF Kinds
<1>3. CASE t = Ext.server_name
  <2>1. Parser(t) = "server_name"
    BY <1>3, ExtIs DEF Parser
  <2>2. QED
    BY <1>1, <1>2, <1>3, <2>1
<1>4. CASE t \in ListTypes
  <2>1. Parser(t) \in {"alpn", "versions", "key_share", "limit", "u16_list", "points"}
    <3>1. t = Ext.alpn => Parser(t) = "alpn"
      BY ExtIs DEF Parser
    <3>2. t = Ext.supported_versions => Parser(t) = "versions"
      BY ExtIs DEF Parser
    <3>3. t = Ext.key_share => Parser(t) = "key_share"
      BY ExtIs DEF Parser
    <3>4. t = Ext.record_size_limit => Parser(t) = "limit"
      BY ExtIs DEF Parser
    <3>5. t \in {Ext.signature_algorithms, Ext.supported_groups} => Parser(t) = "u16_list"
      BY ExtIs DEF Parser
    <3>6. t = Ext.ec_point_formats => Parser(t) = "points"
      BY ExtIs DEF Parser
    <3>7. QED
      BY <1>4, <3>1, <3>2, <3>3, <3>4, <3>5, <3>6 DEF ListTypes
  <2>2. Parser(t) \in Kinds /\ Parser(t) # "server_name"
    BY <2>1 DEF Kinds, ListKinds, WalkedKinds, PairKinds
  <2>3. t # Ext.server_name
    BY <1>1, <1>4
  <2>4. QED
    BY <1>1, <1>2, <1>4, <2>2, <2>3
<1>5. CASE t # Ext.server_name /\ t \notin ListTypes
  <2>1. /\ t # Ext.server_name /\ t # Ext.alpn /\ t # Ext.supported_versions /\ t # Ext.key_share
        /\ t # Ext.record_size_limit /\ t # Ext.ec_point_formats
        /\ t \notin {Ext.signature_algorithms, Ext.supported_groups}
    BY <1>5 DEF ListTypes
  <2>2. Parser(t) = None
    BY <2>1, Zenon DEF Parser
  <2>3. QED
    BY <1>1, <1>2, <1>5, <2>2
<1>6. QED
  BY <1>3, <1>4, <1>5

\* One of the first n extensions of a hello is of a type.
Seen(h, n, t) == \E k \in 1..n : h.exts[k].type = t

\* No two of them are of one.
Distinct(h, n) == \A j, k \in 1..n : h.exts[j].type = h.exts[k].type => j = k

\* The answer to that of a type, if any.
HeldTo(h, n, t, answer) ==
    /\ \A k \in 1..n : h.exts[k].type = t => answer = Reported(h.exts[k]).value
    /\ ~Seen(h, n, t) => answer = None

\* With one extension more, its type is seen.
LEMMA SeenGrows ==
    ASSUME NEW h, NEW n \in Nat, NEW t, NEW m, m = n + 1
    PROVE  Seen(h, m, t) <=> Seen(h, n, t) \/ h.exts[m].type = t
<1>1. \A k : k \in 1..m <=> k \in 1..n \/ k = m
  OBVIOUS
<1>2. QED
  BY <1>1 DEF Seen

\* It leaves the answers to other types alone,
LEMMA HeldGrows ==
    ASSUME NEW h, NEW n \in Nat, NEW t, NEW answer, HeldTo(h, n, t, answer),
           NEW m, m = n + 1, h.exts[m].type # t
    PROVE  HeldTo(h, m, t, answer)
<1>1. \A k : k \in 1..m <=> k \in 1..n \/ k = m
  OBVIOUS
<1>2. Seen(h, m, t) <=> Seen(h, n, t) \/ h.exts[m].type = t
  BY SeenGrows
<1>3. QED
  BY <1>1, <1>2 DEF HeldTo

\* and has the answer to its own.
LEMMA HeldNew ==
    ASSUME NEW h, NEW m \in Nat \ {0}, Distinct(h, m), NEW t, h.exts[m].type = t,
           NEW answer, answer = Reported(h.exts[m]).value
    PROVE  HeldTo(h, m, t, answer)
<1>1. m \in 1..m
  OBVIOUS
<1>2. Seen(h, m, t)
  BY <1>1 DEF Seen
<1>3. \A k \in 1..m : h.exts[k].type = t => k = m
  BY <1>1 DEF Distinct
<1>4. QED
  BY <1>2, <1>3 DEF HeldTo

\* g reports the N extensions of h.
ReportsOf(h, N, g) ==
    /\ g.ciphers = h.ciphers
    /\ [k \in DOMAIN g.exts |-> g.exts[k].type] = [k \in 1..N |-> h.exts[k].type]
    /\ \A t : Has(g, t) = Seen(h, N, t)
    /\ \A t, answer : HeldTo(h, N, t, answer) => Answer(g, t) = answer

\* What the metadata of all of them says.
LEMMA ObservedIs ==
    ASSUME NEW h, HelloKnown(h), NEW N \in Nat, N = Len(h.exts), Distinct(h, N),
           NEW g, g = [h EXCEPT !.exts = [k \in DOMAIN h.exts |-> Reported(h.exts[k])]]
    PROVE  ReportsOf(h, N, g)
<1>1. /\ h = [ciphers |-> h.ciphers, exts |-> h.exts] /\ DOMAIN h.exts = 1..N
      /\ \A k \in 1..N : Writable(h.exts[k])
  BY DEF HelloKnown
<1>2. DOMAIN h = {"ciphers", "exts"}
  BY <1>1
<1> DEFINE r == [k \in DOMAIN h.exts |-> Reported(h.exts[k])]
<1>3. g.ciphers = h.ciphers /\ g.exts = r
  <2> HIDE DEF r
  <2>1. g = [h EXCEPT !.exts = r]
    BY DEF r
  <2>2. QED
    BY <1>2, <2>1
<1>4. DOMAIN g.exts = 1..N /\ \A k \in 1..N : g.exts[k] = Reported(h.exts[k])
  BY <1>1, <1>3
<1>5. ASSUME NEW k \in 1..N PROVE g.exts[k].type = h.exts[k].type
  <2>1. PICK e : e = h.exts[k]
    OBVIOUS
  <2>2. e \in [type : Code, value : {e.value}]
    BY <1>1, <2>1 DEF Writable
  <2>3. Reported(e).type = e.type
    BY <2>2 DEF Reported
  <2>4. QED
    BY <1>4, <2>1, <2>3
<1> HIDE DEF r
<1>6. ASSUME NEW t PROVE Has(g, t) = Seen(h, N, t)
  <2>1. Has(g, t) <=> Seen(h, N, t)
    BY <1>4, <1>5 DEF Has, Seen
  <2>2. Has(g, t) \in BOOLEAN /\ Seen(h, N, t) \in BOOLEAN
    BY DEF Has, Seen
  <2>3. QED
    BY <2>1, <2>2
<1>7. ASSUME NEW t, NEW answer, HeldTo(h, N, t, answer)
      PROVE  Answer(g, t) = answer
  <2>1. CASE Seen(h, N, t)
    <3>1. PICK k \in 1..N : h.exts[k].type = t
      BY <2>1 DEF Seen
    <3>2. \A j \in 1..N : g.exts[j].type = t <=> j = k
      BY <1>5, <3>1 DEF Distinct
    <3>3. (CHOOSE j \in DOMAIN g.exts : g.exts[j].type = t) = k
      BY <1>4, <3>1, <3>2
    <3>4. Has(g, t)
      BY <1>6, <2>1
    <3>5. Answer(g, t) = g.exts[k].value
      BY <3>3, <3>4 DEF Answer
    <3>6. QED
      BY <1>4, <1>7, <3>1, <3>5 DEF HeldTo
  <2>2. CASE ~Seen(h, N, t)
    <3>1. ~Has(g, t) /\ answer = None
      BY <1>6, <1>7, <2>2 DEF HeldTo
    <3>2. QED
      BY <3>1 DEF Answer
  <2>3. QED
    BY <2>1, <2>2
<1>8. [k \in DOMAIN g.exts |-> g.exts[k].type] = [k \in 1..N |-> h.exts[k].type]
  BY <1>4, <1>5
<1>9. QED
  BY <1>3, <1>6, <1>7, <1>8 DEF ReportsOf

--------------------------------------------------------------------------------
(* Where the walk stands in the hello that was sent. *)

\* The types behind are those of the first extensions of the hello.
LEMMA BuiltOrder ==
    ASSUME HelloInv, pc \in {"walk", "body"}, NEW h \in Hellos, message = MessageOf(h),
           GoodHello(message),
           NEW N, N = Len(h.exts), NEW n, n = Len(meta.extension_order),
           NEW bytes, bytes = Block(message), NEW s, s = Starts(bytes)
    PROVE  /\ WrittenAt(h, N, bytes, s) /\ n \in 0..N
           /\ bytes \in Seq(Byte) /\ HelloKnown(h)
           /\ block.bytes = bytes /\ block.pos = s[n + 1]
           /\ meta.extension_order \in Seq(Nat)
           /\ \A k \in 1..n : meta.extension_order[k] = h.exts[k].type
<1>1. HelloKnown(h) /\ bytes = BlockOf(h) /\ bytes \in Seq(Byte)
  BY HelloIsKnown, MessageIsRead, BlockIs
<1>w. WrittenAt(h, N, bytes, s)
  BY <1>1, BlockIsWritten
<1>2. /\ N \in Nat /\ Len(s) = N + 1 /\ s[N + 1] = Len(bytes)
      /\ \A k \in 1..N : /\ TypeAt(bytes, s[k]) = h.exts[k].type
                         /\ DataAt(bytes, s[k]) = BodyOf(h.exts[k])
  BY <1>w DEF WrittenAt
<1>3. meta.extension_order \in Seq(Nat) /\ n \in Nat
  BY LenProperties DEF HelloInv, MetaInv
<1>4. /\ block \in [bytes : {bytes}, pos : Nat] /\ n < Len(s) /\ block.pos = s[n + 1]
      /\ \A k \in 1..n : meta.extension_order[k] = TypeAt(bytes, s[k])
  BY DEF HelloInv, BlockInv
<1>5. n \in 0..N /\ \A k \in 1..n : k \in 1..N
  BY <1>2, <1>3, <1>4
<1>6. \A k \in 1..n : meta.extension_order[k] = h.exts[k].type
  BY <1>2, <1>4, <1>5
<1>7. QED
  BY <1>1, <1>w, <1>3, <1>4, <1>5, <1>6

\* The walk goes round until all of them are behind, and reads the next.
LEMMA WalkStandsInHello ==
    ASSUME HelloInv, pc = "walk", NEW h \in Hellos, message = MessageOf(h), GoodHello(message),
           NEW N, N = Len(h.exts), NEW n, n = Len(meta.extension_order)
    PROVE  /\ N \in Nat /\ n \in 0..N
           /\ InLoop <=> n < N
           /\ n < N => /\ DataFits /\ Type \in Nat /\ Type = h.exts[n + 1].type
                       /\ Data = BodyOf(h.exts[n + 1])
                       /\ Known <=> \E k \in 1..n : h.exts[k].type = Type
           /\ meta.extension_order \in Seq(Nat)
           /\ \A k \in 1..n : meta.extension_order[k] = h.exts[k].type
<1>1. PICK bytes, s, j : bytes = Block(message) /\ s = Starts(bytes) /\ j = n + 1
  OBVIOUS
<1>o. /\ WrittenAt(h, N, bytes, s) /\ n \in 0..N
      /\ bytes \in Seq(Byte) /\ block.bytes = bytes /\ block.pos = s[n + 1]
      /\ meta.extension_order \in Seq(Nat)
      /\ \A k \in 1..n : meta.extension_order[k] = h.exts[k].type
  BY <1>1, BuiltOrder
<1>2. /\ N \in Nat /\ n \in 0..N /\ Len(s) = N + 1 /\ s[N + 1] = Len(bytes)
      /\ bytes \in Seq(Byte) /\ block.bytes = bytes /\ block.pos = s[n + 1]
      /\ meta.extension_order \in Seq(Nat)
      /\ \A k \in 1..n : meta.extension_order[k] = h.exts[k].type
      /\ \A k \in 1..N : /\ TypeAt(bytes, s[k]) = h.exts[k].type
                         /\ DataAt(bytes, s[k]) = BodyOf(h.exts[k])
  BY <1>o DEF WrittenAt
<1>3. /\ InLoop <=> Fits(block, 4)
      /\ Fits(block, 4) /\ DataFits <=> j < Len(s)
      /\ Fits(block, 4) => Type = TypeAt(bytes, s[j]) /\ Type \in Nat
      /\ j < Len(s) => Data = DataAt(bytes, s[j])
  BY <1>1, WalkStandsAt
<1>4. j < Len(s) <=> n < N
  BY <1>1, <1>2
<1>5. ASSUME n < N PROVE j \in 1..N
  BY <1>1, <1>2, <1>5
<1>6. ASSUME ~(n < N) PROVE ~InLoop
  <2>1. block.pos = Len(block.bytes) /\ Len(bytes) \in Nat
    <3>1. n = N
      BY <1>2, <1>6
    <3>2. QED
      BY <1>2, <3>1, LenProperties
  <2>2. Remaining(block) = 0
    BY <1>2, <2>1 DEF Remaining
  <2>3. QED
    BY <2>2 DEF InLoop
<1>7. DOMAIN meta.extension_order = 1..n
  BY <1>2, LenProperties
<1>8. Known <=> \E k \in 1..n : h.exts[k].type = Type
  BY <1>2, <1>7 DEF Known
<1>9. QED
  BY <1>1, <1>2, <1>3, <1>4, <1>5, <1>6, <1>8

\* The parser that runs is called on what was written of the last of them.
LEMMA CallStandsInHello ==
    ASSUME HelloInv, BodyInv, pc = "body", NEW h \in Hellos, message = MessageOf(h),
           GoodHello(message),
           NEW N, N = Len(h.exts), NEW n, n = Len(meta.extension_order), NEW e, e = h.exts[n]
    PROVE  /\ N \in Nat /\ n \in 1..N /\ n - 1 \in Nat
           /\ CalledOn(e) /\ Called = e.type /\ at # "idle" /\ kind # None
           /\ e.type # Ext.pre_shared_key
           /\ ~Seen(h, n - 1, e.type)
           /\ meta.extension_order \in Seq(Nat)
           /\ \A k \in 1..n : meta.extension_order[k] = h.exts[k].type
<1>1. PICK bytes, s : bytes = Block(message) /\ s = Starts(bytes)
  OBVIOUS
<1>o. /\ WrittenAt(h, N, bytes, s) /\ n \in 0..N /\ HelloKnown(h)
      /\ meta.extension_order \in Seq(Nat)
      /\ \A k \in 1..n : meta.extension_order[k] = h.exts[k].type
  BY <1>1, BuiltOrder
<1>2. /\ N \in Nat /\ n \in 0..N /\ HelloKnown(h)
      /\ meta.extension_order \in Seq(Nat)
      /\ \A k \in 1..n : meta.extension_order[k] = h.exts[k].type
      /\ \A k \in 1..N : DataAt(bytes, s[k]) = BodyOf(h.exts[k])
  BY <1>o DEF WrittenAt
<1>3. /\ meta.extension_order # <<>>
      /\ kind = Parser(Called) /\ kind # None
      /\ body = DataAt(bytes, s[n])
      /\ \A k \in 1..(n - 1) : meta.extension_order[k] # Called
      /\ at # "idle"
  BY <1>1 DEF HelloInv, CallInv
<1>4. n # 0
  BY <1>2, <1>3, EmptySeq
<1>5. n \in 1..N /\ n \in 1..n /\ n - 1 \in Nat /\ \A k \in 1..(n - 1) : k \in 1..n
  BY <1>2, <1>4
<1>6. Called = e.type /\ Called = meta.extension_order[n]
  BY <1>2, <1>5 DEF Called
<1>7. body = BodyOf(e)
  BY <1>2, <1>3, <1>5
<1>8. Writable(e)
  BY <1>2, <1>5 DEF HelloKnown
<1>9. CalledOn(e)
  BY <1>3, <1>6, <1>7, <1>8, TypeParts DEF CalledOn, BodyInv
<1>10. e.type # Ext.pre_shared_key
  BY <1>3, <1>6, ParserIs
<1>11. ~Seen(h, n - 1, e.type)
  BY <1>2, <1>3, <1>5, <1>6 DEF Seen
<1>12. QED
  BY <1>2, <1>3, <1>5, <1>6, <1>9, <1>10, <1>11

--------------------------------------------------------------------------------
(* The metadata, field by field. *)

\* No parser has answered.
AnswersNothing(m) == \A t \in ListTypes : m[Field(t)] = None

\* Before the first extension no field of theirs is filled.
LEMMA NoExtensionSays ==
    ASSUME NEW suites, NEW m, m = NoExtensions(suites)
    PROVE  /\ DOMAIN m = MetaFields /\ m.extension_order = <<>> /\ m.cipher_suites = suites
           /\ m.psk_present = FALSE /\ m.ech_present = FALSE
           /\ m.early_data_present = FALSE /\ m.compress_certificate_present = FALSE
           /\ AnswersNothing(m)
<1> DEFINE hello == [ciphers |-> suites, exts |-> <<>>]
<1>1. hello.exts = <<>> /\ DOMAIN hello.exts = {} /\ hello.ciphers = suites
  OBVIOUS
<1> HIDE DEF hello
<1>2. \A type : Has(hello, type) = FALSE
  BY <1>1 DEF Has
<1>3. \A type : Answer(hello, type) = None
  BY <1>2 DEF Answer
<1>4. m = Observe(hello)
  BY DEF NoExtensions, hello
<1>5. /\ m.early_data_present = FALSE /\ m.compress_certificate_present = FALSE
      /\ m.cipher_suites = suites
  BY <1>1, <1>2, <1>4 DEF Observe
<1>6. /\ m.alpn_protocols = None /\ m.supported_versions = None /\ m.key_share_groups = None
      /\ m.record_size_limit = None /\ m.signature_algorithms = None
      /\ m.supported_groups = None /\ m.ec_point_formats = None
  BY <1>3, <1>4 DEF Observe
<1>7. AnswersNothing(m)
  BY <1>6, FieldsAre DEF ListTypes, AnswersNothing
<1>8. QED
  BY <1>5, <1>7, NoExtensionsIs

\* A new extension fills no field but the order and the flags.
LEMMA NewExtensionSays ==
    ASSUME MetaInv, NewExtension(Type)
    PROVE  /\ meta'.extension_order = Append(meta.extension_order, Type)
           /\ meta'.cipher_suites = meta.cipher_suites
           /\ meta'.psk_present = (Type = Ext.pre_shared_key)
           /\ meta'.ech_present = (meta.ech_present \/ Type = Ext.encrypted_client_hello)
           /\ meta'.early_data_present = (meta.early_data_present \/ Type = Ext.early_data)
           /\ meta'.compress_certificate_present =
                (meta.compress_certificate_present \/ Type = Ext.compress_certificate)
           /\ \A t \in ListTypes : meta'[Field(t)] = meta[Field(t)]
<1>1. PICK order, psk, ech, early, compress :
        /\ order = Append(meta.extension_order, Type)
        /\ psk = (Type = Ext.pre_shared_key)
        /\ ech = (meta.ech_present \/ Type = Ext.encrypted_client_hello)
        /\ early = (meta.early_data_present \/ Type = Ext.early_data)
        /\ compress = (meta.compress_certificate_present \/ Type = Ext.compress_certificate)
  OBVIOUS
<1>2. meta' = [meta EXCEPT
         !.extension_order = order, !.psk_present = psk, !.ech_present = ech,
         !.early_data_present = early, !.compress_certificate_present = compress]
  BY <1>1 DEF NewExtension
<1>3. DOMAIN meta = MetaFields
  BY DEF MetaInv
<1>4. /\ meta'.extension_order = order /\ meta'.psk_present = psk /\ meta'.ech_present = ech
      /\ meta'.early_data_present = early /\ meta'.compress_certificate_present = compress
      /\ meta'.cipher_suites = meta.cipher_suites
  BY <1>2, <1>3 DEF MetaFields
<1>5. ASSUME NEW t \in ListTypes PROVE meta'[Field(t)] = meta[Field(t)]
  <2>1. PICK f : f = Field(t)
    OBVIOUS
  <2>2. f \in ListFields
    BY <2>1, FieldsDiffer
  <2>3. f \in MetaFields \ {"extension_order", "psk_present", "ech_present",
                            "early_data_present", "compress_certificate_present"}
    BY <2>2 DEF ListFields, MetaFields
  <2>4. meta'[f] = meta[f]
    BY <1>2, <1>3, <2>3
  <2>5. QED
    BY <2>1, <2>4
<1>6. QED
  BY <1>1, <1>4, <1>5

\* The answer of a parser fills its own.
LEMMA AnswerSays ==
    ASSUME MetaInv, NEW u \in ListTypes, meta' = [meta EXCEPT ![Field(u)] = out]
    PROVE  /\ meta'[Field(u)] = out
           /\ \A t \in ListTypes : t # u => meta'[Field(t)] = meta[Field(t)]
           /\ \A f \in MetaFields \ ListFields : meta'[f] = meta[f]
<1>1. PICK g : g = Field(u)
  OBVIOUS
<1>2. DOMAIN meta = MetaFields /\ g \in ListFields /\ meta' = [meta EXCEPT ![g] = out]
  BY <1>1, FieldsDiffer DEF MetaInv
<1>3. ListFields \subseteq MetaFields
  BY DEF ListFields, MetaFields
<1>4. meta'[g] = out /\ \A f \in MetaFields : f # g => meta'[f] = meta[f]
  BY <1>2, <1>3
<1>5. \A t \in ListTypes : t # u => Field(t) \in MetaFields /\ Field(t) # g
  BY <1>1, <1>3, FieldsDiffer
<1>6. QED
  BY <1>1, <1>2, <1>4, <1>5

--------------------------------------------------------------------------------
(* What is held of a hello while its message is parsed. *)

\* The first n extensions follow the rules, and m of them have bodies that are answered.
Follows(h, n, m) ==
    /\ Distinct(h, n)
    /\ \A k \in 1..m : Buildable(h.exts[k])
    /\ \A k \in 1..(n - 1) : h.exts[k].type # Ext.pre_shared_key

\* The suites are those of the hello, and the flags those of its first n extensions.
FlagsSay(h, n) ==
    /\ meta.cipher_suites = h.ciphers
    /\ meta.psk_present = Seen(h, n, Ext.pre_shared_key)
    /\ meta.ech_present = Seen(h, n, Ext.encrypted_client_hello)
    /\ meta.early_data_present = Seen(h, n, Ext.early_data)
    /\ meta.compress_certificate_present = Seen(h, n, Ext.compress_certificate)

\* The answers are those to its first m extensions.
AnswersSay(h, m) ==
    /\ \A t \in ListTypes : HeldTo(h, m, t, meta[Field(t)])
    /\ HeldTo(h, m, Ext.server_name, sni_host)

\* The rules that a hello is accepted by, and what it is then reported as.
Rules(h) ==
    /\ h.ciphers # <<>>
    /\ \A k \in DOMAIN h.exts : Buildable(h.exts[k])
    /\ \A j, k \in DOMAIN h.exts : h.exts[j].type = h.exts[k].type => j = k
    /\ \A k \in DOMAIN h.exts : h.exts[k].type = Ext.pre_shared_key => k = Len(h.exts)

ReportOf(h) == [h EXCEPT !.exts = [k \in DOMAIN h.exts |-> Reported(h.exts[k])]]

\* The message of h is being parsed, or has been.
BuiltOn(h) ==
    LET n == Len(meta.extension_order)
    IN  /\ h \in Hellos /\ message = MessageOf(h)
        /\ pc \in {"walk", "body"} => GoodHello(message) /\ FlagsSay(h, n)
        /\ pc = "walk" => Follows(h, n, n) /\ AnswersSay(h, n)
        /\ pc = "body" => Follows(h, n, n - 1) /\ AnswersSay(h, n - 1) /\ WrittenInv(h.exts[n])
        /\ pc = "rejected" => ~Rules(h)
        /\ pc = "accepted" => Rules(h) /\ meta = Observe(ReportOf(h))

BuiltInv == sent # None => BuiltOn(sent)

\* Nothing is held of no extension.
LEMMA NothingHeld ==
    ASSUME NEW h, NEW t
    PROVE  Seen(h, 0, t) = FALSE /\ HeldTo(h, 0, t, None) /\ Distinct(h, 0)
<1>1. \A k : k \notin 1..0
  OBVIOUS
<1>2. ~Seen(h, 0, t) /\ Seen(h, 0, t) \in BOOLEAN
  BY <1>1 DEF Seen
<1>3. HeldTo(h, 0, t, None) /\ Distinct(h, 0)
  BY <1>1 DEF HeldTo, Distinct
<1>4. QED
  BY <1>2, <1>3

\* The fields before the block are read, or the message is refused for having no suites.
LEMMA HelloIsBuilt ==
    ASSUME NEW h, BuiltOn(h), BytesInv, RejectHello \/ ReadHello
    PROVE  BuiltOn(h)'
<1>1. h \in Hellos /\ message = MessageOf(h) /\ pc = "start" /\ message' = message
      /\ sni_host' = sni_host
  BY DEF BuiltOn, RejectHello, ReadHello, walkvars
<1>2. /\ GoodHello(message) <=> h.ciphers # <<>>
      /\ Codepoints(Prefixed(Suites(message), 2)) = h.ciphers
  BY <1>1, MessageIsRead
<1>3. CASE RejectHello
  <2>1. pc' = "rejected" /\ ~GoodHello(message)
    BY <1>3 DEF RejectHello
  <2>2. ~Rules(h)
    BY <1>2, <2>1 DEF Rules
  <2>3. QED
    BY <1>1, <2>1, <2>2 DEF BuiltOn
<1>4. CASE ReadHello
  <2>1. pc' = "walk" /\ GoodHello(message) /\ meta' = NoExtensions(h.ciphers)
    BY <1>2, <1>4 DEF ReadHello
  <2>2. /\ meta'.extension_order = <<>> /\ meta'.cipher_suites = h.ciphers
        /\ meta'.psk_present = FALSE /\ meta'.ech_present = FALSE
        /\ meta'.early_data_present = FALSE /\ meta'.compress_certificate_present = FALSE
        /\ AnswersNothing(meta')
    BY <2>1, NoExtensionSays
  <2>3. sni_host' = None
    BY <1>1 DEF BytesInv, HelloInv
  <2>4. Len(<<>>) = 0
    OBVIOUS
  <2>5. FlagsSay(h, 0)' /\ AnswersSay(h, 0)'
    BY <2>2, <2>3, NothingHeld DEF FlagsSay, AnswersSay, AnswersNothing
  <2>6. Follows(h, 0, 0)
    <3>1. \A k : k \notin 1..0 /\ k \notin 1..(0 - 1)
      OBVIOUS
    <3>2. QED
      BY <3>1, NothingHeld DEF Follows
  <2>7. PICK n : n = 0
    OBVIOUS
  <2>8. /\ Len(meta'.extension_order) = n /\ FlagsSay(h, n)' /\ AnswersSay(h, n)'
        /\ Follows(h, n, n)
    BY <2>2, <2>4, <2>5, <2>6, <2>7
  <2>9. QED
    BY <1>1, <2>1, <2>8 DEF BuiltOn
<1>5. QED
  BY <1>3, <1>4

\* What the walk holds of the hello.
LEMMA WalkIsBuilt ==
    ASSUME NEW h, BuiltOn(h), BytesInv, pc = "walk",
           NEW N, N = Len(h.exts), NEW n, n = Len(meta.extension_order)
    PROVE  /\ h \in Hellos /\ message = MessageOf(h) /\ GoodHello(message)
           /\ HelloKnown(h) /\ N \in Nat /\ DOMAIN h.exts = 1..N /\ n \in 0..N
           /\ InLoop <=> n < N
           /\ n < N => /\ DataFits /\ Type \in Nat /\ Type = h.exts[n + 1].type
                       /\ Known <=> \E k \in 1..n : h.exts[k].type = Type
           /\ meta.extension_order \in Seq(Nat)
           /\ \A k \in 1..n : meta.extension_order[k] = h.exts[k].type
           /\ Follows(h, n, n) /\ FlagsSay(h, n) /\ AnswersSay(h, n)
<1>1. /\ h \in Hellos /\ message = MessageOf(h) /\ GoodHello(message)
      /\ Follows(h, n, n) /\ FlagsSay(h, n) /\ AnswersSay(h, n)
  BY DEF BuiltOn
<1>2. HelloKnown(h) /\ DOMAIN h.exts = 1..N
  BY <1>1, HelloIsKnown DEF HelloKnown
<1>3. HelloInv
  BY DEF BytesInv
<1>4. /\ N \in Nat /\ n \in 0..N
      /\ InLoop <=> n < N
      /\ n < N => /\ DataFits /\ Type \in Nat /\ Type = h.exts[n + 1].type
                  /\ Known <=> \E k \in 1..n : h.exts[k].type = Type
      /\ meta.extension_order \in Seq(Nat)
      /\ \A k \in 1..n : meta.extension_order[k] = h.exts[k].type
  BY <1>1, <1>3, WalkStandsInHello
<1>5. QED
  BY <1>1, <1>2, <1>4

\* An extension is refused for the rules.
LEMMA RefusalIsBuilt ==
    ASSUME NEW h, BuiltOn(h), BytesInv, RejectExtension
    PROVE  BuiltOn(h)'
<1>1. /\ pc = "walk" /\ InLoop /\ pc' = "rejected" /\ message' = message
      /\ meta.psk_present \/ ~DataFits \/ Known
  BY DEF RejectExtension, InLoop
<1>2. PICK N, n : N = Len(h.exts) /\ n = Len(meta.extension_order)
  OBVIOUS
<1>3. /\ h \in Hellos /\ message = MessageOf(h) /\ N \in Nat /\ DOMAIN h.exts = 1..N
      /\ n \in 0..N /\ n < N /\ DataFits /\ Type = h.exts[n + 1].type
      /\ Known <=> \E k \in 1..n : h.exts[k].type = Type
      /\ FlagsSay(h, n)
  BY <1>1, <1>2, WalkIsBuilt
<1>4. \A k \in 1..n : k \in 1..N /\ k # N /\ k # n + 1
  BY <1>3
<1>5. n + 1 \in 1..N
  BY <1>3
<1>6. CASE meta.psk_present
  <2>1. PICK k \in 1..n : h.exts[k].type = Ext.pre_shared_key
    BY <1>3, <1>6 DEF FlagsSay, Seen
  <2>2. ~Rules(h)
    BY <1>2, <1>3, <1>4, <2>1 DEF Rules
  <2>3. QED
    BY <1>1, <1>3, <2>2 DEF BuiltOn
<1>7. CASE Known
  <2>1. PICK k \in 1..n : h.exts[k].type = h.exts[n + 1].type
    BY <1>3, <1>7
  <2>2. ~Rules(h)
    BY <1>3, <1>4, <1>5, <2>1 DEF Rules
  <2>3. QED
    BY <1>1, <1>3, <2>2 DEF BuiltOn
<1>8. QED
  BY <1>1, <1>3, <1>6, <1>7

--------------------------------------------------------------------------------
\* A type that is new keeps to the rules, and sets the flags.
LEMMA TypeIsBuilt ==
    ASSUME NEW h, BuiltOn(h), BytesInv, NewExtension(Type),
           NEW n, n = Len(meta.extension_order), NEW m, m = n + 1
    PROVE  /\ h \in Hellos /\ message' = MessageOf(h) /\ GoodHello(message') /\ HelloKnown(h)
           /\ n \in Nat /\ m \in 1..Len(h.exts) /\ Len(meta.extension_order)' = m
           /\ Type = h.exts[m].type
           /\ Follows(h, m, n) /\ Follows(h, n, n) /\ FlagsSay(h, m)'
           /\ AnswersSay(h, n) /\ AnswersSay(h, n)'
<1>1. pc = "walk" /\ InLoop /\ ~meta.psk_present /\ ~Known /\ message' = message
      /\ sni_host' = sni_host
  BY DEF NewExtension, InLoop
<1>2. PICK N : N = Len(h.exts)
  OBVIOUS
<1>3. /\ h \in Hellos /\ message = MessageOf(h) /\ GoodHello(message)
      /\ HelloKnown(h) /\ N \in Nat /\ DOMAIN h.exts = 1..N /\ n \in 0..N
      /\ n < N /\ Type \in Nat /\ Type = h.exts[n + 1].type
      /\ Known <=> \E k \in 1..n : h.exts[k].type = Type
      /\ meta.extension_order \in Seq(Nat)
      /\ Follows(h, n, n) /\ FlagsSay(h, n) /\ AnswersSay(h, n)
  BY <1>1, <1>2, WalkIsBuilt
<1>4. n \in Nat /\ m \in 1..N /\ m - 1 = n
  BY <1>3
<1>5. /\ meta'.extension_order = Append(meta.extension_order, Type)
      /\ meta'.cipher_suites = meta.cipher_suites
      /\ meta'.psk_present = (Type = Ext.pre_shared_key)
      /\ meta'.ech_present = (meta.ech_present \/ Type = Ext.encrypted_client_hello)
      /\ meta'.early_data_present = (meta.early_data_present \/ Type = Ext.early_data)
      /\ meta'.compress_certificate_present =
           (meta.compress_certificate_present \/ Type = Ext.compress_certificate)
      /\ \A t \in ListTypes : meta'[Field(t)] = meta[Field(t)]
  BY NewExtensionSays DEF BytesInv, HelloInv
<1>6. Len(meta.extension_order)' = m
  BY <1>3, <1>5
<1>7. /\ meta.psk_present = Seen(h, n, Ext.pre_shared_key)
      /\ meta.ech_present = Seen(h, n, Ext.encrypted_client_hello)
      /\ meta.early_data_present = Seen(h, n, Ext.early_data)
      /\ meta.compress_certificate_present = Seen(h, n, Ext.compress_certificate)
      /\ meta.cipher_suites = h.ciphers
  BY <1>3 DEF FlagsSay
<1>8. \A t : Seen(h, m, t) = (Seen(h, n, t) \/ Type = t)
  <2> TAKE t
  <2>1. Seen(h, m, t) <=> Seen(h, n, t) \/ h.exts[m].type = t
    BY <1>4, SeenGrows
  <2>2. h.exts[m].type = Type
    BY <1>3
  <2>3. Seen(h, m, t) \in BOOLEAN
    BY DEF Seen
  <2>4. QED
    BY <2>1, <2>2, <2>3
<1>9. FlagsSay(h, m)'
  <2>1. meta'.psk_present = Seen(h, m, Ext.pre_shared_key)
    <3>1. ~Seen(h, n, Ext.pre_shared_key)
      BY <1>1, <1>7
    <3>2. Seen(h, m, Ext.pre_shared_key) = (Type = Ext.pre_shared_key)
      BY <1>8, <3>1
    <3>3. QED
      BY <1>5, <3>2
  <2>2. /\ meta'.ech_present = Seen(h, m, Ext.encrypted_client_hello)
        /\ meta'.early_data_present = Seen(h, m, Ext.early_data)
        /\ meta'.compress_certificate_present = Seen(h, m, Ext.compress_certificate)
        /\ meta'.cipher_suites = h.ciphers
    BY <1>5, <1>7, <1>8
  <2>3. QED
    BY <2>1, <2>2 DEF FlagsSay
<1>10. AnswersSay(h, n)'
  BY <1>1, <1>3, <1>5 DEF AnswersSay
<1>11. Follows(h, m, n)
  <2>1. \A k \in 1..n : h.exts[k].type # h.exts[m].type
    BY <1>1, <1>3
  <2>2. \A k \in 1..m : k \in 1..n \/ k = m
    BY <1>4
  <2>3. Distinct(h, n)
    BY <1>3 DEF Follows
  <2>4. Distinct(h, m)
    BY <2>1, <2>2, <2>3 DEF Distinct
  <2>5. \A k \in 1..n : h.exts[k].type # Ext.pre_shared_key
    BY <1>1, <1>7 DEF Seen
  <2>6. \A k \in 1..n : Buildable(h.exts[k])
    BY <1>3 DEF Follows
  <2>7. QED
    BY <1>4, <2>4, <2>5, <2>6 DEF Follows
<1>12. QED
  BY <1>1, <1>2, <1>3, <1>4, <1>6, <1>9, <1>10, <1>11

\* A type without a parser is behind at once: it answers nothing.
LEMMA FlagIsBuilt ==
    ASSUME NEW h, BuiltOn(h), BytesInv, TakeFlag
    PROVE  BuiltOn(h)'
<1>1. NewExtension(Type) /\ Parser(Type) = None /\ pc' = "walk"
  BY DEF TakeFlag, NewExtension, InLoop
<1>2. PICK n, m : n = Len(meta.extension_order) /\ m = n + 1
  OBVIOUS
<1>3. /\ h \in Hellos /\ message' = MessageOf(h) /\ GoodHello(message')
      /\ n \in Nat /\ m \in 1..Len(h.exts) /\ Len(meta.extension_order)' = m
      /\ Type = h.exts[m].type
      /\ Follows(h, m, n) /\ FlagsSay(h, m)' /\ AnswersSay(h, n)'
  BY <1>1, <1>2, TypeIsBuilt
<1>4. Type \notin ListTypes /\ Type # Ext.server_name
  BY <1>1, ParsedTypes
<1>5. \A t, answer : HeldTo(h, n, t, answer) /\ h.exts[m].type # t => HeldTo(h, m, t, answer)
  BY <1>2, <1>3, HeldGrows
<1>6. AnswersSay(h, m)'
  <2>1. \A t \in ListTypes : HeldTo(h, n, t, meta'[Field(t)]) /\ h.exts[m].type # t
    BY <1>3, <1>4 DEF AnswersSay
  <2>2. HeldTo(h, n, Ext.server_name, sni_host') /\ h.exts[m].type # Ext.server_name
    BY <1>3, <1>4 DEF AnswersSay
  <2>3. QED
    BY <1>5, <2>1, <2>2 DEF AnswersSay
<1>7. Follows(h, m, m)
  <2>1. PICK e : e = h.exts[m]
    OBVIOUS
  <2>2. Buildable(e)
    BY <1>1, <1>3, <2>1, BuildableIs
  <2>3. \A k \in 1..m : k \in 1..n \/ k = m
    BY <1>2, <1>3
  <2>4. QED
    BY <1>3, <2>1, <2>2, <2>3 DEF Follows
<1>8. QED
  BY <1>1, <1>3, <1>6, <1>7 DEF BuiltOn

\* A parser that is called has answered nothing yet.
LEMMA CallIsBuilt ==
    ASSUME NEW h, BuiltOn(h), BytesInv, CallParser
    PROVE  BuiltOn(h)'
<1>1. NewExtension(Type) /\ pc' = "body" /\ at' = "start"
  BY DEF CallParser, Call
<1>2. PICK n, m : n = Len(meta.extension_order) /\ m = n + 1
  OBVIOUS
<1>3. /\ h \in Hellos /\ message' = MessageOf(h) /\ GoodHello(message')
      /\ n \in Nat /\ m \in 1..Len(h.exts) /\ Len(meta.extension_order)' = m
      /\ Follows(h, m, n) /\ FlagsSay(h, m)' /\ AnswersSay(h, n)'
  BY <1>1, <1>2, TypeIsBuilt
<1>4. m - 1 = n
  BY <1>2, <1>3
<1>5. PICK e : e = h.exts[m]
  OBVIOUS
<1>6. WrittenInv(e)'
  BY <1>1 DEF WrittenInv
<1>7. WrittenInv(h.exts[m])'
  BY <1>5, <1>6
<1>8. Follows(h, m, m - 1) /\ AnswersSay(h, m - 1)'
  BY <1>3, <1>4
<1>9. QED
  BY <1>1, <1>3, <1>7, <1>8 DEF BuiltOn

--------------------------------------------------------------------------------
\* What is held of the hello while a body is parsed.
LEMMA BodyIsBuilt ==
    ASSUME NEW h, BuiltOn(h), BytesInv, pc = "body",
           NEW n, n = Len(meta.extension_order), NEW e, e = h.exts[n]
    PROVE  /\ h \in Hellos /\ message = MessageOf(h) /\ GoodHello(message)
           /\ n \in DOMAIN h.exts /\ n \in Nat \ {0} /\ n - 1 \in Nat /\ (n - 1) + 1 = n
           /\ e \in [type : Code, value : {e.value}]
           /\ CalledOn(e) /\ Called = e.type /\ at # "idle"
           /\ kind = Parser(e.type) /\ kind # None
           /\ ~Seen(h, n - 1, e.type)
           /\ Follows(h, n, n - 1) /\ FlagsSay(h, n) /\ AnswersSay(h, n - 1) /\ WrittenInv(e)
<1>1. /\ h \in Hellos /\ message = MessageOf(h) /\ GoodHello(message)
      /\ Follows(h, n, n - 1) /\ FlagsSay(h, n) /\ AnswersSay(h, n - 1) /\ WrittenInv(e)
  BY DEF BuiltOn
<1>2. PICK N : N = Len(h.exts)
  OBVIOUS
<1>3. HelloInv /\ BodyInv
  BY DEF BytesInv
<1>4. /\ N \in Nat /\ n \in 1..N /\ n - 1 \in Nat
      /\ CalledOn(e) /\ Called = e.type /\ at # "idle" /\ kind # None
      /\ ~Seen(h, n - 1, e.type)
  BY <1>1, <1>2, <1>3, CallStandsInHello
<1>5. n \in Nat \ {0} /\ (n - 1) + 1 = n
  BY <1>4
<1>6. n \in DOMAIN h.exts
  BY <1>1, <1>2, <1>4, HelloIsKnown DEF HelloKnown
<1>7. kind = Parser(e.type) /\ e \in [type : Code, value : {e.value}]
  BY <1>4 DEF CalledOn, Writable
<1>8. QED
  BY <1>1, <1>4, <1>5, <1>6, <1>7

\* What a parser answers is what was written, and it answers if that can be answered.
LEMMA ParseIsBuilt ==
    ASSUME NEW h, BuiltOn(h), BytesInv, ParseBody
    PROVE  BuiltOn(h)'
<1>1. /\ pc = "body" /\ ParseStep /\ pc' = pc /\ message' = message
      /\ meta' = meta /\ sni_host' = sni_host
  BY DEF ParseBody, walkvars
<1>2. PICK n, e : n = Len(meta.extension_order) /\ e = h.exts[n]
  OBVIOUS
<1>3. /\ h \in Hellos /\ message = MessageOf(h) /\ GoodHello(message)
      /\ CalledOn(e) /\ at # "idle"
      /\ Follows(h, n, n - 1) /\ FlagsSay(h, n) /\ AnswersSay(h, n - 1) /\ WrittenInv(e)
  BY <1>1, <1>2, BodyIsBuilt
<1>4. WrittenInv(e)'
  BY <1>1, <1>3, WrittenKept DEF BytesInv
<1>5. WrittenInv(h.exts[n])'
  BY <1>2, <1>4
<1>6. FlagsSay(h, n)' /\ AnswersSay(h, n - 1)' /\ Len(meta.extension_order)' = n
  BY <1>1, <1>2, <1>3 DEF FlagsSay, AnswersSay
<1>7. QED
  BY <1>1, <1>3, <1>5, <1>6 DEF BuiltOn

\* The n-th body can be answered as well.
LEMMA FollowsOn ==
    ASSUME NEW h, NEW n \in Nat \ {0}, Follows(h, n, n - 1), Buildable(h.exts[n])
    PROVE  Follows(h, n, n)
<1>1. \A k \in 1..n : k \in 1..(n - 1) \/ k = n
  OBVIOUS
<1>2. QED
  BY <1>1 DEF Follows

\* The metadata says what the value of an extension is, but of a name what is read of it.
LEMMA ReportedIs ==
    ASSUME NEW e, e \in [type : Code, value : {e.value}]
    PROVE  /\ e.type # Ext.server_name => Reported(e).value = e.value
           /\ e.type = Ext.server_name /\ IsUtf8(e.value[1]) =>
                Reported(e).value = StripDot(e.value[1])
           /\ e.type = Ext.server_name /\ ~IsUtf8(e.value[1]) => Reported(e).value = None
<1>1. CASE e.type # Ext.server_name
  BY <1>1 DEF Reported
<1>2. CASE e.type = Ext.server_name
  <2>1. PICK host : host = IF IsUtf8(e.value[1]) THEN StripDot(e.value[1]) ELSE None
    OBVIOUS
  <2>2. Reported(e) = [e EXCEPT !.value = host]
    BY <1>2, <2>1 DEF Reported
  <2>3. Reported(e).value = host
    BY <2>2
  <2>4. QED
    BY <1>2, <2>1, <2>3
<1>3. QED
  BY <1>1, <1>2

\* A list, formats or a limit goes to the field of its type.
LEMMA ListIsBuilt ==
    ASSUME NEW h, BuiltOn(h), BytesInv, TakeList
    PROVE  BuiltOn(h)'
<1>1. /\ pc = "body" /\ at = "some" /\ kind # "server_name" /\ pc' = "walk"
      /\ meta' = [meta EXCEPT ![Field(Called)] = out] /\ message' = message
      /\ sni_host' = sni_host
  BY DEF TakeList
<1>2. PICK n, e : n = Len(meta.extension_order) /\ e = h.exts[n]
  OBVIOUS
<1>3. /\ h \in Hellos /\ message = MessageOf(h) /\ GoodHello(message)
      /\ n \in Nat \ {0} /\ n - 1 \in Nat /\ (n - 1) + 1 = n
      /\ e \in [type : Code, value : {e.value}]
      /\ Called = e.type /\ kind = Parser(e.type) /\ kind # None
      /\ Follows(h, n, n - 1) /\ FlagsSay(h, n) /\ AnswersSay(h, n - 1) /\ WrittenInv(e)
  BY <1>1, <1>2, BodyIsBuilt
<1>4. PICK u : u = e.type
  OBVIOUS
<1>5. u \in ListTypes /\ u # Ext.server_name
  BY <1>1, <1>3, <1>4, ParsedTypes
<1>6. out = e.value /\ Buildable(e) /\ out = Reported(e).value
  BY <1>1, <1>3, <1>4, <1>5, ReportedIs DEF WrittenInv
<1>7. /\ meta'[Field(u)] = out
      /\ \A t \in ListTypes : t # u => meta'[Field(t)] = meta[Field(t)]
      /\ \A f \in MetaFields \ ListFields : meta'[f] = meta[f]
  <2>1. meta' = [meta EXCEPT ![Field(u)] = out]
    BY <1>1, <1>3, <1>4
  <2>2. MetaInv
    BY DEF BytesInv, HelloInv
  <2>3. QED
    BY <1>5, <2>1, <2>2, AnswerSays
<1>8. /\ meta'.extension_order = meta.extension_order
      /\ meta'.cipher_suites = meta.cipher_suites
      /\ meta'.psk_present = meta.psk_present /\ meta'.ech_present = meta.ech_present
      /\ meta'.early_data_present = meta.early_data_present
      /\ meta'.compress_certificate_present = meta.compress_certificate_present
  BY <1>7 DEF MetaFields, ListFields
<1>9. Len(meta.extension_order)' = n /\ FlagsSay(h, n)'
  BY <1>2, <1>3, <1>8 DEF FlagsSay
<1>10. Follows(h, n, n)
  BY <1>2, <1>3, <1>6, FollowsOn
<1>11. AnswersSay(h, n)'
  <2>1. PICK j : j = n - 1
    OBVIOUS
  <2>2. /\ j \in Nat /\ n = j + 1 /\ h.exts[n].type = u
        /\ \A t \in ListTypes : HeldTo(h, j, t, meta[Field(t)])
        /\ HeldTo(h, j, Ext.server_name, sni_host)
    BY <1>2, <1>3, <1>4, <2>1 DEF AnswersSay
  <2>3. \A t, answer : HeldTo(h, j, t, answer) /\ u # t => HeldTo(h, n, t, answer)
    BY <2>2, HeldGrows
  <2>4. \A t \in ListTypes : t # u => HeldTo(h, n, t, meta'[Field(t)])
    BY <1>7, <2>2, <2>3
  <2>5. HeldTo(h, n, Ext.server_name, sni_host')
    BY <1>1, <1>5, <2>2, <2>3
  <2>6. Distinct(h, n)
    BY <1>3 DEF Follows
  <2>7. HeldTo(h, n, u, out)
    BY <1>2, <1>3, <1>6, <2>2, <2>6, HeldNew
  <2>8. \A t \in ListTypes : HeldTo(h, n, t, meta'[Field(t)])
    BY <1>7, <2>4, <2>7
  <2>9. QED
    BY <2>5, <2>8 DEF AnswersSay
<1>12. QED
  BY <1>1, <1>3, <1>9, <1>10, <1>11 DEF BuiltOn

\* A host goes to its own, and a name that is no text leaves it empty.
LEMMA NameIsBuilt ==
    ASSUME NEW h, BuiltOn(h), BytesInv, TakeHost \/ SkipName
    PROVE  BuiltOn(h)'
<1>1. /\ pc = "body" /\ pc' = "walk" /\ message' = message /\ meta' = meta
      /\ \/ at = "some" /\ kind = "server_name" /\ sni_host' = out
         \/ at = "skip" /\ sni_host' = sni_host
  BY DEF TakeHost, SkipName, walkvars
<1>2. PICK n, e : n = Len(meta.extension_order) /\ e = h.exts[n]
  OBVIOUS
<1>3. /\ h \in Hellos /\ message = MessageOf(h) /\ GoodHello(message)
      /\ n \in Nat \ {0} /\ n - 1 \in Nat /\ (n - 1) + 1 = n
      /\ e \in [type : Code, value : {e.value}]
      /\ CalledOn(e) /\ kind = Parser(e.type) /\ kind # None
      /\ ~Seen(h, n - 1, e.type)
      /\ Follows(h, n, n - 1) /\ FlagsSay(h, n) /\ AnswersSay(h, n - 1) /\ WrittenInv(e)
  BY <1>1, <1>2, BodyIsBuilt
<1>4. kind = "server_name"
  BY <1>1, <1>3 DEF WrittenInv
<1>5. e.type = Ext.server_name /\ e.type \notin ListTypes
  BY <1>3, <1>4, ParsedTypes
<1>6. PICK j : j = n - 1
  OBVIOUS
<1>7. /\ j \in Nat /\ n = j + 1 /\ h.exts[n].type = Ext.server_name
      /\ \A t \in ListTypes : HeldTo(h, j, t, meta[Field(t)])
      /\ HeldTo(h, j, Ext.server_name, sni_host)
  BY <1>2, <1>3, <1>5, <1>6 DEF AnswersSay
<1>8. ~Seen(h, j, Ext.server_name)
  BY <1>3, <1>5, <1>6
<1>9. Buildable(e) /\ sni_host' = Reported(e).value
  <2>1. /\ at = "some" => IsUtf8(e.value[1]) /\ Buildable(e) /\ out = StripDot(e.value[1])
        /\ at = "skip" => ~IsUtf8(e.value[1]) /\ Buildable(e)
    BY <1>3, <1>4, NameIsWritten DEF BytesInv
  <2>2. /\ IsUtf8(e.value[1]) => Reported(e).value = StripDot(e.value[1])
        /\ ~IsUtf8(e.value[1]) => Reported(e).value = None
    BY <1>3, <1>5, ReportedIs
  <2>3. sni_host = None
    BY <1>7, <1>8 DEF HeldTo
  <2>4. QED
    BY <1>1, <2>1, <2>2, <2>3
<1>10. Follows(h, n, n)
  BY <1>2, <1>3, <1>9, FollowsOn
<1>11. AnswersSay(h, n)'
  <2>1. \A t, answer : HeldTo(h, j, t, answer) /\ t # Ext.server_name => HeldTo(h, n, t, answer)
    BY <1>7, HeldGrows
  <2>2. \A t \in ListTypes : HeldTo(h, n, t, meta[Field(t)])
    BY <1>5, <1>7, <2>1
  <2>3. Distinct(h, n)
    BY <1>3 DEF Follows
  <2>4. PICK host : host = sni_host'
    OBVIOUS
  <2>5. HeldTo(h, n, Ext.server_name, host)
    BY <1>2, <1>3, <1>7, <1>9, <2>3, <2>4, HeldNew
  <2>6. QED
    BY <1>1, <2>2, <2>4, <2>5 DEF AnswersSay
<1>12. Len(meta.extension_order)' = n /\ FlagsSay(h, n)'
  BY <1>1, <1>2, <1>3 DEF FlagsSay
<1>13. QED
  BY <1>1, <1>3, <1>10, <1>11, <1>12 DEF BuiltOn

\* A body is refused when it can not be answered.
LEMMA RefusedBodyIsBuilt ==
    ASSUME NEW h, BuiltOn(h), BytesInv, RejectBody
    PROVE  BuiltOn(h)'
<1>1. pc = "body" /\ at = "none" /\ pc' = "rejected" /\ message' = message
  BY DEF RejectBody
<1>2. PICK n, e : n = Len(meta.extension_order) /\ e = h.exts[n]
  OBVIOUS
<1>3. /\ h \in Hellos /\ message = MessageOf(h) /\ n \in DOMAIN h.exts
      /\ CalledOn(e) /\ WrittenInv(e)
  BY <1>1, <1>2, BodyIsBuilt
<1>4. ~Buildable(e)
  <2>1. CASE kind = "server_name"
    BY <1>1, <1>3, <2>1, NameIsWritten DEF BytesInv
  <2>2. CASE kind # "server_name"
    BY <1>1, <1>3, <2>2 DEF WrittenInv
  <2>3. QED
    BY <2>1, <2>2
<1>5. ~Rules(h)
  BY <1>2, <1>3, <1>4 DEF Rules
<1>6. QED
  BY <1>1, <1>3, <1>5 DEF BuiltOn

--------------------------------------------------------------------------------
\* At the end of the block, the metadata is what the hello is to be reported as.
LEMMA EndIsBuilt ==
    ASSUME NEW h, BuiltOn(h), BytesInv, FinishHello
    PROVE  BuiltOn(h)'
<1>1. /\ pc = "walk" /\ ~InLoop /\ pc' = "accepted" /\ message' = message
      /\ meta' = [meta EXCEPT !.host = IF meta.ech_present THEN None ELSE sni_host]
  BY DEF FinishHello
<1>2. PICK N, n : N = Len(h.exts) /\ n = Len(meta.extension_order)
  OBVIOUS
<1>3. /\ h \in Hellos /\ message = MessageOf(h) /\ GoodHello(message)
      /\ HelloKnown(h) /\ N \in Nat /\ DOMAIN h.exts = 1..N /\ n \in 0..N
      /\ InLoop <=> n < N
      /\ meta.extension_order \in Seq(Nat)
      /\ \A k \in 1..n : meta.extension_order[k] = h.exts[k].type
      /\ Follows(h, n, n) /\ FlagsSay(h, n) /\ AnswersSay(h, n)
  BY <1>1, <1>2, WalkIsBuilt
<1>4. n = N
  BY <1>1, <1>3
<1>5. Rules(h)
  <2>1. h.ciphers # <<>>
    BY <1>3, MessageIsRead
  <2>2. /\ \A k \in 1..N : Buildable(h.exts[k])
        /\ \A j, k \in 1..N : h.exts[j].type = h.exts[k].type => j = k
    BY <1>3, <1>4 DEF Follows, Distinct
  <2>3. \A k \in 1..N : h.exts[k].type = Ext.pre_shared_key => k = N
    <3>1. \A k \in 1..N : k = N \/ k \in 1..(N - 1)
      BY <1>3
    <3>2. QED
      BY <1>3, <1>4, <3>1 DEF Follows
  <2>4. QED
    BY <1>2, <1>3, <2>1, <2>2, <2>3 DEF Rules
<1>6. PICK g : g = ReportOf(h)
  OBVIOUS
<1>7. /\ g.ciphers = h.ciphers
      /\ [k \in DOMAIN g.exts |-> g.exts[k].type] = [k \in 1..N |-> h.exts[k].type]
      /\ \A t : Has(g, t) = Seen(h, N, t)
      /\ \A t, answer : HeldTo(h, N, t, answer) => Answer(g, t) = answer
  <2>1. Distinct(h, N)
    BY <1>3, <1>4 DEF Follows
  <2>2. g = [h EXCEPT !.exts = [k \in DOMAIN h.exts |-> Reported(h.exts[k])]]
    BY <1>6 DEF ReportOf
  <2>3. ReportsOf(h, N, g)
    BY <1>2, <1>3, <2>1, <2>2, ObservedIs
  <2>4. QED
    BY <2>3 DEF ReportsOf
<1>8. /\ meta.cipher_suites = g.ciphers
      /\ meta.psk_present = Has(g, Ext.pre_shared_key)
      /\ meta.ech_present = Has(g, Ext.encrypted_client_hello)
      /\ meta.early_data_present = Has(g, Ext.early_data)
      /\ meta.compress_certificate_present = Has(g, Ext.compress_certificate)
  BY <1>3, <1>4, <1>7 DEF FlagsSay
<1>9. /\ meta.alpn_protocols = Answer(g, Ext.alpn)
      /\ meta.supported_versions = Answer(g, Ext.supported_versions)
      /\ meta.key_share_groups = Answer(g, Ext.key_share)
      /\ meta.record_size_limit = Answer(g, Ext.record_size_limit)
      /\ meta.signature_algorithms = Answer(g, Ext.signature_algorithms)
      /\ meta.supported_groups = Answer(g, Ext.supported_groups)
      /\ meta.ec_point_formats = Answer(g, Ext.ec_point_formats)
  <2>1. \A t \in ListTypes : HeldTo(h, N, t, meta[Field(t)])
    BY <1>3, <1>4 DEF AnswersSay
  <2>2. \A t \in ListTypes : Answer(g, t) = meta[Field(t)]
    BY <1>7, <2>1
  <2>3. QED
    BY <2>2, FieldsAre DEF ListTypes
<1>10. sni_host = Answer(g, Ext.server_name)
  BY <1>3, <1>4, <1>7 DEF AnswersSay
<1>11. meta.extension_order = [k \in DOMAIN g.exts |-> g.exts[k].type]
  <2>1. PICK order : order = meta.extension_order
    OBVIOUS
  <2>2. order \in Seq(Nat) /\ Len(order) = N
    BY <1>2, <1>3, <1>4, <2>1
  <2>3. order = [k \in 1..N |-> order[k]]
    BY <2>2
  <2>4. \A k \in 1..N : order[k] = h.exts[k].type
    BY <1>3, <1>4, <2>1
  <2>5. QED
    BY <1>7, <2>1, <2>3, <2>4
<1>12. PICK host : host = IF meta.ech_present THEN None ELSE sni_host
  OBVIOUS
<1>13. host = VisibleHost(g)
  BY <1>8, <1>10, <1>12 DEF VisibleHost
<1>14. DOMAIN meta = MetaFields
  BY DEF BytesInv, HelloInv, MetaInv
<1>15. meta' = [f \in MetaFields |-> IF f = "host" THEN host ELSE meta[f]]
  BY <1>1, <1>12, <1>14
<1>16. meta' = Observe(g)
  <2>1. PICK seen : seen = Observe(g)
    OBVIOUS
  <2>2. /\ seen.host = VisibleHost(g)
        /\ seen.ech_present = Has(g, Ext.encrypted_client_hello)
        /\ seen.alpn_protocols = Answer(g, Ext.alpn)
        /\ seen.supported_versions = Answer(g, Ext.supported_versions)
        /\ seen.key_share_groups = Answer(g, Ext.key_share)
        /\ seen.psk_present = Has(g, Ext.pre_shared_key)
        /\ seen.early_data_present = Has(g, Ext.early_data)
        /\ seen.compress_certificate_present = Has(g, Ext.compress_certificate)
        /\ seen.record_size_limit = Answer(g, Ext.record_size_limit)
        /\ seen.signature_algorithms = Answer(g, Ext.signature_algorithms)
        /\ seen.supported_groups = Answer(g, Ext.supported_groups)
        /\ seen.ec_point_formats = Answer(g, Ext.ec_point_formats)
        /\ seen.extension_order = [k \in DOMAIN g.exts |-> g.exts[k].type]
        /\ seen.cipher_suites = g.ciphers
    BY <2>1 DEF Observe
  <2>3. seen = [f \in MetaFields |-> seen[f]]
    BY <2>1 DEF Observe, MetaFields
  <2>4. \A f \in MetaFields : f # "host" => meta[f] = seen[f]
    BY <1>8, <1>9, <1>11, <2>2 DEF MetaFields
  <2>5. seen["host"] = host
    BY <1>13, <2>2
  <2>6. QED
    BY <1>15, <2>1, <2>3, <2>4, <2>5
<1>17. QED
  BY <1>1, <1>3, <1>5, <1>6, <1>16 DEF BuiltOn

\* Every step of the parser keeps what is held of the hello.
LEMMA BuiltKept ==
    ASSUME BytesInv, BuiltInv, [BuiltNext]_<<helloVars, sent>>
    PROVE  BuiltInv'
<1>1. sent' = sent /\ [HelloNext]_helloVars
  BY DEF BuiltNext
<1>2. SUFFICES ASSUME sent # None
               PROVE  \E h : h = sent /\ BuiltOn(h)'
  BY <1>1 DEF BuiltInv
<1>3. PICK h : h = sent /\ BuiltOn(h)
  BY <1>2 DEF BuiltInv
<1>4. BuiltOn(h)'
  <2>1. CASE RejectHello \/ ReadHello
    BY <1>3, <2>1, HelloIsBuilt
  <2>2. CASE RejectExtension
    BY <1>3, <2>2, RefusalIsBuilt
  <2>3. CASE TakeFlag
    BY <1>3, <2>3, FlagIsBuilt
  <2>4. CASE CallParser
    BY <1>3, <2>4, CallIsBuilt
  <2>5. CASE ParseBody
    BY <1>3, <2>5, ParseIsBuilt
  <2>6. CASE TakeHost \/ SkipName
    BY <1>3, <2>6, NameIsBuilt
  <2>7. CASE TakeList
    BY <1>3, <2>7, ListIsBuilt
  <2>8. CASE RejectBody
    BY <1>3, <2>8, RefusedBodyIsBuilt
  <2>9. CASE FinishHello
    BY <1>3, <2>9, EndIsBuilt
  <2>10. CASE UNCHANGED helloVars
    BY <1>3, <2>10 DEF helloVars, walkvars, call, BuiltOn, FlagsSay, AnswersSay, WrittenInv,
       EntriesHeld
  <2>11. QED
    BY <1>1, <2>1, <2>2, <2>3, <2>4, <2>5, <2>6, <2>7, <2>8, <2>9, <2>10 DEF HelloNext
<1>5. QED
  BY <1>3, <1>4

\* A message that is built of a hello is accepted exactly when the hello follows the
\* rules, and the metadata is then the hello, field by field: no builder and no parser
\* disagree about a prefix, a byte order, an empty list or a codepoint.
THEOREM BuildersAndParserAgree == BuiltSpec => []BuiltIsObserved
<1>1. BuiltInit => BuiltInv
  <2> SUFFICES ASSUME BuiltInit, sent # None
               PROVE  BuiltOn(sent)
    BY DEF BuiltInv
  <2>1. PICK h \in Hellos : sent = h /\ StartOn(MessageOf(h))
    BY DEF BuiltInit
  <2>2. message = MessageOf(h) /\ pc = "start"
    BY <2>1 DEF StartOn
  <2>3. QED
    BY <2>1, <2>2 DEF BuiltOn
<1>2. BytesInv /\ BuiltInv /\ [BuiltNext]_<<helloVars, sent>> => BuiltInv'
  BY BuiltKept
<1>3. BuiltInv => BuiltIsObserved
  BY DEF BuiltInv, BuiltOn, BuiltIsObserved, Ended, Rules, ReportOf
<1>4. BuiltSpec => []BytesInv
  BY BuiltIsHello, BytesInvariant, PTL
<1>5. QED
  BY <1>1, <1>2, <1>3, <1>4, PTL DEF BuiltSpec

--------------------------------------------------------------------------------
(* The pre-filter on the messages that are built. *)

\* The three bytes of a length are read as the length.
LEMMA U24Is ==
    ASSUME NEW k \in Nat, NEW z, z = U24(k)
    PROVE  z \in Seq(Nat) /\ Len(z) = 3 /\ 65536 * z[1] + 256 * z[2] + z[3] = k
<1>1. PICK a \in Nat, b \in Nat, c \in Nat :
          a = k \div 65536 /\ b = (k \div 256) % 256 /\ c = k % 256
  OBVIOUS
<1>2. PICK d \in Nat : d = k \div 256
  OBVIOUS
<1>3. k = 256 * d + c
  BY <1>1, <1>2
<1>4. a = d \div 256
  BY <1>1, <1>2
<1>5. d = 256 * a + b
  BY <1>1, <1>2, <1>4
<1>6. z = <<a, b, c>>
  BY <1>1 DEF U24
<1>7. z \in Seq(Nat) /\ Len(z) = 3 /\ z[1] = a /\ z[2] = b /\ z[3] = c
  BY <1>6
<1>8. 65536 * a + 256 * b + c = k
  BY <1>3, <1>5
<1>9. QED
  BY <1>7, <1>8

\* The length that a built message claims is that of what stands behind it.
LEMMA ClaimIs ==
    ASSUME NEW h \in Hellos, NEW m, m = MessageOf(h)
    PROVE  GoodHeader(m) /\ Len(m) \in Nat /\ 4 + ClaimedLength(m) = Len(m)
<1>1. HelloKnown(h)
  BY HelloIsKnown
<1>2. PICK exts : exts = BlockOf(h) /\ exts \in Seq(Nat)
  BY <1>1, BlockIsLaid
<1>3. PICK suites : suites = Each(U16, h.ciphers) /\ suites \in Seq(Nat)
  BY <1>1, SuitesAreWritten DEF HelloKnown
<1>4. PICK n \in Nat, l \in Nat : n = Len(suites) /\ l = Len(exts)
  BY <1>2, <1>3
<1>5. PICK rest : rest = HelloOf(suites, exts) /\ rest \in Seq(Nat)
  <2>1. HelloReads(HelloOf(suites, exts), n, l, suites, exts)
    BY <1>2, <1>3, <1>4, HelloIs
  <2>2. QED
    BY <2>1, Zenon DEF HelloReads
<1>6. PICK N \in Nat : N = Len(rest)
  BY <1>5
<1>7. PICK z : z = U24(N) /\ z \in Seq(Nat) /\ Len(z) = 3
                 /\ 65536 * z[1] + 256 * z[2] + z[3] = N
  BY U24Is
<1>8. PICK top : top = <<HelloType>> \o z /\ Joins(top, <<1>>, z)
  <2>1. <<1>> \in Seq(Nat)
    OBVIOUS
  <2>2. \A t \in Seq(Nat) : Joins(t \o z, t, z)
    BY <1>7, JoinAt
  <2>3. Joins(<<1>> \o z, <<1>>, z)
    BY <2>1, <2>2, Zenon
  <2>4. QED
    BY <2>3, Zenon DEF HelloType
<1>9. /\ top \in Seq(Nat) /\ Len(top) = 4 /\ top[1] = HelloType
      /\ top[2] = z[1] /\ top[3] = z[2] /\ top[4] = z[3]
  <2>1. Len(<<1>>) = 1 /\ <<1>>[1] = 1
    OBVIOUS
  <2>2. QED
    BY <1>7, <1>8, <2>1 DEF Joins, HelloType
<1>10. m = top \o rest
  <2>1. m = Message(exts, LegacyVersion, <<>>, suites, <<0>>)
    BY <1>2, <1>3, Zenon DEF MessageOf
  <2>2. m = <<HelloType>> \o U24(Len(HelloOf(suites, exts))) \o HelloOf(suites, exts)
    BY <2>1, Zenon DEF Message, HelloOf
  <2>3. m = <<HelloType>> \o U24(N) \o rest
    BY <1>5, <1>6, <2>2, Zenon
  <2>4. m = <<HelloType>> \o z \o rest
    BY <1>7, <2>3
  <2>5. QED
    BY <1>8, <2>4
<1>11. Joins(m, top, rest)
  BY <1>5, <1>9, <1>10, JoinAt
<1>12. /\ Len(m) = 4 + N /\ m[1] = HelloType
       /\ m[2] = z[1] /\ m[3] = z[2] /\ m[4] = z[3]
  BY <1>5, <1>6, <1>9, <1>11 DEF Joins
<1>13. ClaimedLength(m) = N
  BY <1>7, <1>12 DEF ClaimedLength, Number, Skip, CursorOn
<1>14. GoodHeader(m)
  BY <1>12 DEF GoodHeader, Fits, Remaining, CursorOn
<1>15. QED
  BY <1>12, <1>13, <1>14

\* A message that is built goes through verify_handshake_type exactly if it is within
\* the cap, header and all: none that the parser may take is dropped for its length.
THEOREM FilterMeasuresTheWhole == BuiltSpec => []BuiltPassFilter
<1> DEFINE Inv == sent # None => sent \in Hellos /\ message = MessageOf(sent)
<1>1. BuiltInit => Inv
  BY DEF BuiltInit, StartOn
<1>2. Inv /\ [BuiltNext]_<<helloVars, sent>> => Inv'
  BY DEF BuiltNext, HelloNext, RejectHello, ReadHello, RejectExtension, NewExtension, TakeFlag,
     CallParser, ParseBody, TakeHost, TakeList, SkipName, RejectBody, FinishHello, helloVars
<1>3. Inv => BuiltPassFilter
  <2> SUFFICES ASSUME Inv, sent # None
               PROVE  VerifyHandshakeType(message) <=> Len(message) <= MaxHandshakeBytes
    BY DEF BuiltPassFilter
  <2>1. GoodHeader(message) /\ 4 + ClaimedLength(message) = Len(message)
    BY ClaimIs
  <2>2. QED
    BY <2>1 DEF VerifyHandshakeType
<1>4. QED
  BY <1>1, <1>2, <1>3, PTL DEF BuiltSpec

================================================================================
