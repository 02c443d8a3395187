------------------------------ MODULE Coverage ------------------------------
(***************************************************************************)
(* The coverage map of afl-fuzz, one level above its bytes.  The map is a  *)
(* set of bits; bit j of byte i stands for "edge i was taken a number of   *)
(* times that falls in bucket j".  trace_bits is the set of bits of the    *)
(* last execution, a virgin map the set of bits not seen yet.              *)
(***************************************************************************)
EXTENDS Naturals

CONSTANTS Bit,      \* the bits of the map
          Byte,     \* the bytes of the map
          ByteOf    \* the byte each bit belongs to

ASSUME ByteOfAssumption == ByteOf \in [Bit -> Byte]

(* classify_counts() replaces every hit count by its bucket, a power of    *)
(* two, so the trace of an execution has at most one bit in a byte.        *)
Classified(t) == \A b, c \in t : ByteOf[b] = ByteOf[c] => b = c

Trace == {t \in SUBSET Bit : Classified(t)}

(* The bytes of the trace t that has_new_bits() lists in new_bits.         *)
NewBytes(t, virgin) == {ByteOf[b] : b \in t \cap virgin}

(* The bits that write_coverage_diff() stores for them: new_bits keeps the *)
(* whole byte of the trace, not just the bits that are new.                *)
CovDiff(t, virgin) == {b \in t : ByteOf[b] \in NewBytes(t, virgin)}

(* The return value of has_new_bits(): 2 when a byte of the trace was      *)
(* never touched, 1 when only hit counts are new, 0 when nothing is.       *)
HasNewBits(t, virgin) ==
    IF t \cap virgin = {} THEN 0
    ELSE IF \E b \in t : \A c \in Bit : ByteOf[c] = ByteOf[b] => c \in virgin
         THEN 2 ELSE 1

(* What remains virgin after has_new_bits(virgin_map, true).               *)
Unseen(t, virgin) == virgin \ t
=============================================================================
