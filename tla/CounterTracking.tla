--------------------------- MODULE CounterTracking ---------------------------
(***************************************************************************)
(* superFrameRecalculator against what it is for.  The senders count their *)
(* superframes without end; a fragment carries the low 16 bits of that     *)
(* count, and the receiver sees some of the numbers, in an order of the    *)
(* network's choosing.  A number it sees is less than 2^15 away from the   *)
(* one it saw before, the comment above the function says as much.         *)
(***************************************************************************)
EXTENDS SuperFrameCounter

CONSTANT MaxNumber      \* bound: largest number a run looks at

ASSUME MaxNumberAssumption == MaxNumber \in Nat

VARIABLES
    truth,  \* the number seen last, in full
    base    \* what it exceeds its delivery order by: a multiple of 2^16

vars == <<counterVars, truth, base>>

Init ==
    /\ CounterInit
    /\ truth = 0
    /\ base = 0

WithinReach(n) ==
    -(U16Mod \div 2) <= n - truth /\ n - truth < U16Mod \div 2

See(n) ==
    /\ mSuperFrameFirstTime \/ WithinReach(n)
    /\ SuperFrameRecalculator(n % U16Mod)
    /\ truth' = n
    /\ base' = IF mSuperFrameFirstTime THEN n - (n % U16Mod) ELSE base

(* The model checker's steps; the theorem is about every natural number.   *)
BoundedNext == \E n \in 0 .. MaxNumber : See(n)
BoundedSpec == Init /\ [][BoundedNext]_vars

Next == \E n \in Nat : See(n)
Spec == Init /\ [][Next]_vars

(* The 64 bit delivery order of every superframe is its number in the      *)
(* stream, counted from the same base and modulo 2^64, through any number  *)
(* of wraps of the 16 bit number, forward and backward: two superframes    *)
(* get the same order only if they are the same, and are ordered as they   *)
(* were sent.                                                              *)
OrderIsNumber ==
    ~mSuperFrameFirstTime =>
        /\ mSuperFrameRecalc = (truth - base) % U64Mod
        /\ mOldSuperFrameNumber = truth % U16Mod
        /\ base % U16Mod = 0
=============================================================================
