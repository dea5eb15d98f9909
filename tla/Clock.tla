-------------------------------- MODULE Clock --------------------------------
(***************************************************************************)
(* std::chrono::steady_clock, which sender side and receiver side share in *)
(* the models.  MaxNow is a bound of the model checker only; the proofs    *)
(* never use it.                                                           *)
(***************************************************************************)
EXTENDS Naturals

CONSTANT MaxNow         \* bound: the last instant a run looks at
VARIABLE now            \* microseconds since the clock's epoch, scaled

ASSUME MaxNowAssumption == MaxNow \in Nat

ClockInit == now = 0

Tick == now < MaxNow /\ now' = now + 1
=============================================================================
