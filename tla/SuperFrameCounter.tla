-------------------------- MODULE SuperFrameCounter --------------------------
(***************************************************************************)
(* superFrameRecalculator: the receiver widens the 16 bit superframe       *)
(* number of a fragment to the 64 bit counter that orders its buckets, by  *)
(* adding the signed 16 bit distance to the number it saw before.          *)
(***************************************************************************)
EXTENDS Widths

VARIABLES
    mSuperFrameFirstTime,   \* no number was seen yet
    mOldSuperFrameNumber,   \* the 16 bit number seen last
    mSuperFrameRecalc       \* the 64 bit counter it was widened to

counterVars == <<mSuperFrameFirstTime, mOldSuperFrameNumber, mSuperFrameRecalc>>

CounterInit ==
    /\ mSuperFrameFirstTime = TRUE
    /\ mOldSuperFrameNumber = 0
    /\ mSuperFrameRecalc = 0

CounterTypeOK ==
    /\ mSuperFrameFirstTime \in BOOLEAN
    /\ mOldSuperFrameNumber \in U16
    /\ mSuperFrameRecalc \in U64

(* A change computed without the int16_t cast jumps by 2^16 at a wrap. *)
UncastChange(lSuperFrame) == lSuperFrame - mOldSuperFrameNumber

ChangeValue(lSuperFrame) == Int16(lSuperFrame - mOldSuperFrameNumber)

(* What superFrameRecalculator returns for this number. *)
DeliveryOrderCandidate(lSuperFrame) ==
    IF mSuperFrameFirstTime
    THEN lSuperFrame
    ELSE (mSuperFrameRecalc + ChangeValue(lSuperFrame)) % U64Mod

SuperFrameRecalculator(lSuperFrame) ==
    /\ mSuperFrameFirstTime' = FALSE
    /\ mOldSuperFrameNumber' = lSuperFrame
    /\ mSuperFrameRecalc' = DeliveryOrderCandidate(lSuperFrame)
=============================================================================
