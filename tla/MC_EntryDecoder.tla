--------------------------- MODULE MC_EntryDecoder ---------------------------
(***************************************************************************)
(* Model-checking instance of EntryDecoder: every node list of up to       *)
(* MaxLen nodes over two key texts, one invalid UTF-8 text, containers of  *)
(* up to MaxSize children, one scalar and one unknown tag.  Five nodes     *)
(* hold a map of two pairs, a map nested in a map, an array in a map and   *)
(* a map in an array, and a duplicate key.                                 *)
(***************************************************************************)
EXTENDS EntryDecoder

MaxLen == 5
MaxSize == 2

MCKeyStrs == {"a", "b"}
MCBadUtf8 == "bad"
MCNoStr == ""

NodeSet ==
  [type : ContainerTypes, size : 0..MaxSize, str : {MCNoStr}]
  \cup [type : {"utf8_string"}, size : {0}, str : MCKeyStrs \cup {MCBadUtf8}]
  \cup [type : {"scalar", "unknown"}, size : {0}, str : {MCNoStr}]

AllLists == UNION {[1..n -> NodeSet] : n \in 1..MaxLen}

\* Lists that keep the pre-order contract libmaxminddb guarantees.
WellFormedLists == {l \in AllLists : WellFormed(l)}

\* Lists that end before the tree their first node announces is complete.
TruncatedLists ==
  UNION {{SubSeq(l, 1, j) : j \in 1..(Len(l) - 1)} : l \in WellFormedLists}

\* Lists that keep the contract except that some map key is a scalar.
NonStringKeyLists == {l \in AllLists : NonStringKey(l)}

CorruptLists == TruncatedLists \cup NonStringKeyLists

(***************************************************************************)
(* from_uint128, the conversion the decoder runs for a uint128 node, at a  *)
(* scaled width: 2-bit bytes, 3 bytes per half, 2-bit digits.  The 12-bit  *)
(* values take 6 digits, as the code's 128-bit values take 32, so          *)
(* "%03X%03X" and a 7-byte buffer play the roles of "%016X%016X" and       *)
(* malloc(33).  Both builds (byte array and native scalar) are checked.    *)
(***************************************************************************)
U128 == INSTANCE Uint128 WITH ByteBits <- 2, HalfBytes <- 3, DigitBits <- 2,
                              PadWidth <- 3, NumStrSize <- 7,
                              Builds <- {"bytes", "scalar"}

\* When a decode returns, every uint128 node it may have met was turned into
\* exactly the integer the engine read, in both builds and for every value
\* (from_uint128's split, padding and parse).
Uint128Correct == Finished => U128!Uint128Correct

=============================================================================
