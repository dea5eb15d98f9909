------------------------------- MODULE Widths -------------------------------
(***************************************************************************)
(* The unsigned integer types of the protocol.  The code computes in       *)
(* uint16_t, uint32_t and uint64_t; a type is represented by the number of *)
(* values it has, so that TLC can use narrow ones whose wrap-around is     *)
(* reached after a few frames, and the proofs leave them open.             *)
(***************************************************************************)
EXTENDS Integers

CONSTANTS
    U16Mod,     \* number of values of uint16_t, 2^16 in the code
    U32Mod,     \* number of values of uint32_t, 2^32 in the code
    U64Mod      \* number of values of uint64_t, 2^64 in the code

ASSUME WidthsAssumption ==
    /\ U16Mod \in Nat /\ U16Mod > 1 /\ U16Mod % 2 = 0
    /\ U32Mod \in Nat /\ U32Mod > 1
    /\ U64Mod \in Nat /\ U64Mod > 1

(* A wide counter wraps where a narrow one does. *)
ASSUME NestedWidths == U64Mod % U16Mod = 0

U16Max == U16Mod - 1
U32Max == U32Mod - 1
U64Max == U64Mod - 1

U16 == 0 .. U16Max
U64 == 0 .. U64Max

(* static_cast<int16_t>: the two's complement reading of the low 16 bits. *)
Int16(x) ==
    LET r == x % U16Mod
    IN  IF r < U16Mod \div 2 THEN r ELSE r - U16Mod
=============================================================================
