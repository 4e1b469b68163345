-------------------------------- MODULE Cursor --------------------------------
(***************************************************************************)
(* struct Cursor of crates/aegiuw-core/src/sni.rs: the bounds-checked      *)
(* reader every parser of the file is written with.  A cursor is the slice *)
(* it reads and how many of its bytes are behind it.                       *)
(***************************************************************************)
EXTENDS Integers, Sequences

Byte == 0..255

CursorOn(bytes) == [bytes |-> bytes, pos |-> 0]

Remaining(c) == Len(c.bytes) - c.pos

Fits(c, n) == n <= Remaining(c)

\* The big-endian number of 1, 2 or 3 bytes at the cursor.
Number(c, width) ==
    LET b(k) == c.bytes[c.pos + k]
    IN  CASE width = 1 -> b(1)
          [] width = 2 -> 256 * b(1) + b(2)
          [] width = 3 -> 65536 * b(1) + 256 * b(2) + b(3)

Slice(c, n) == SubSeq(c.bytes, c.pos + 1, c.pos + n)

Skip(c, n) == [c EXCEPT !.pos = @ + n]

\* read_u8_prefixed and read_u16_prefixed, by the width of the prefix.
PrefixFits(c, width) == Fits(c, width) /\ Fits(c, width + Number(c, width))

Prefixed(c, width) == Slice(Skip(c, width), Number(c, width))

AfterPrefixed(c, width) == Skip(c, width + Number(c, width))

================================================================================
