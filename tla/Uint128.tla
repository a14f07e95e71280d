------------------------------- MODULE Uint128 -------------------------------
(***************************************************************************)
(* from_uint128 (src/extension/maxminddb.c 579-608): the decoder's        *)
(* reconstruction of a 128-bit unsigned integer.  The engine hands it      *)
(* either a big-endian byte array (MMDB_UINT128_IS_BYTE_ARRAY) or a native *)
(* 128-bit scalar; the function splits it into a high and a low uint64_t   *)
(* half, renders both with snprintf "%016X%016X" into a malloc'd buffer of *)
(* 33 bytes and parses that text with PyLong_FromString(.., 16).           *)
(*                                                                         *)
(* The widths are constants so that TLC can check every input at a scaled *)
(* width: a byte of ByteBits bits, a half of HalfBytes bytes, a digit of   *)
(* DigitBits bits, the "%0<PadWidth>X" padding and the buffer size         *)
(* NumStrSize.  The code's widths are 8, 8, 4, 16 and 33.  The function   *)
(* is a pure operator, checked against the reference over every input.     *)
(***************************************************************************)
EXTENDS Integers, Sequences, SequencesExt, Bitwise

CONSTANTS ByteBits, HalfBytes, DigitBits, PadWidth, NumStrSize,
          Builds          \* the compile-time forms built: "bytes", "scalar"

ASSUME /\ ByteBits \in Nat \ {0} /\ HalfBytes \in Nat \ {0}
       /\ DigitBits \in Nat \ {0} /\ PadWidth \in Nat /\ NumStrSize \in Nat
       /\ Builds \subseteq {"bytes", "scalar"}

WordBits == ByteBits * HalfBytes      \* uint64_t
Word     == 2^WordBits
Byte     == 2^ByteBits
Base     == 2^DigitBits               \* one hex digit
Nil      == -1                        \* NULL PyObject *

\* Every value the engine can hand over, in either build.
Inputs ==
    [build : {"bytes"} \cap Builds, bytes : [1..(2 * HalfBytes) -> 0..(Byte - 1)]]
    \cup [build : {"scalar"} \cap Builds, value : 0..(Word * Word - 1)]

(***************************************************************************)
(* The two halves.  "high = (high << 8) | byte" on a uint64_t: the shift   *)
(* keeps WordBits bits.                                                    *)
(***************************************************************************)
ShiftIn(acc, b) == ((acc * Byte) % Word) | b

\* for (i = first; i < last; i++) acc = (acc << 8) | uint128[i];
ByteLoop(bytes, first, last) ==
    FoldLeft(ShiftIn, 0, [j \in 1..(last - first) |-> bytes[first + j]])

HalvesFromBytes(bytes) ==
    <<ByteLoop(bytes, 0, HalfBytes), ByteLoop(bytes, HalfBytes, 2 * HalfBytes)>>

\* high = uint128 >> 64; low = (uint64_t)uint128;
HalvesFromScalar(v) == <<shiftR(v, WordBits), v % Word>>

Halves(in) ==
    IF in.build = "bytes" THEN HalvesFromBytes(in.bytes)
                          ELSE HalvesFromScalar(in.value)

(***************************************************************************)
(* "%0<PadWidth>X": the digits of n, most significant first, left-padded   *)
(* with zeros to at least PadWidth digits (never truncated).               *)
(***************************************************************************)
RECURSIVE Digits(_)
Digits(n) == IF n < Base THEN <<n>> ELSE Digits(n \div Base) \o <<n % Base>>

RenderUnpadded(n) == Digits(n)

RenderHex(n) ==
    LET d == Digits(n)
    IN  [j \in 1..(PadWidth - Len(d)) |-> 0] \o d

\* snprintf(num_str, 33, ...) writes at most 32 characters and a NUL.
NumStr(high, low) ==
    LET s == RenderHex(high) \o RenderHex(low)
    IN  SubSeq(s, 1, IF Len(s) < NumStrSize THEN Len(s) ELSE NumStrSize - 1)

ParseHexBase10(s) ==
    IF \E j \in DOMAIN s : s[j] >= 10 THEN Nil
    ELSE FoldLeft(LAMBDA acc, d : acc * 10 + d, 0, s)

\* PyLong_FromString(num_str, NULL, 16)
ParseHex(s) == FoldLeft(LAMBDA acc, d : acc * Base + d, 0, s)

(***************************************************************************)
(* The whole function on a decoded entry: split, render into the 33-byte  *)
(* buffer, parse, free.  Its one other outcome, malloc(33) failing with    *)
(* PyErr_NoMemory, is the MemoryError of a scalar node in EntryDecoder.    *)
(***************************************************************************)
FromUint128(in) ==
    LET h == Halves(in) IN ParseHex(NumStr(h[1], h[2]))

-----------------------------------------------------------------------------
(***************************************************************************)
(* Reference (spec, "128-bit integer reconstruction"): the bytes are       *)
(* big-endian, so the integer is high * 2^64 + low with the first half the *)
(* high one; the scalar form is the integer itself.                        *)
(***************************************************************************)
BigEndian(bytes) == FoldLeft(LAMBDA acc, b : acc * Byte + b, 0, bytes)

Reference(in) == IF in.build = "bytes" THEN BigEndian(in.bytes) ELSE in.value

(***************************************************************************)
(* from_uint128 returns exactly the 128-bit value the engine decoded, in   *)
(* both builds and for every input: the two byte loops split at the right  *)
(* byte, the shifts keep 64 bits, the halves are zero-padded so the low    *)
(* one cannot borrow digits of the high one, and the 33-byte buffer holds  *)
(* all 32 digits.                                                          *)
(***************************************************************************)
Uint128Correct ==
    \A in \in Inputs : FromUint128(in) = Reference(in)
=============================================================================
