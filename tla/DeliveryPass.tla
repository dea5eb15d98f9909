----------------------------- MODULE DeliveryPass -----------------------------
(***************************************************************************)
(* One pass over mBucketMap, the loop that runToCompletionMethod and       *)
(* receiverWorker share: visit the active buckets in ascending delivery    *)
(* order, deliver those that are due, and close the delivered ones at the  *)
(* end.  With a head-of-line time-out the pass stops at the first bucket   *)
(* that is neither the expected complete one nor timed out; without it     *)
(* every bucket is looked at.                                              *)
(*                                                                         *)
(* What delivering a bucket means, a callback or a queue, and what starts  *)
(* a pass is left to the modules that extend this one.                     *)
(***************************************************************************)
EXTENDS Assembly

CONSTANT HolTimeoutMs   \* mHeadOfLineBlockingTimeoutms, 0 switches HOL off

ASSUME HolAssumption == HolTimeoutMs \in Nat

VARIABLES
    mDeliveryHOLFirstRun,       \* no head was set yet
    mNextExpectedFrameNumber,   \* the head: the order expected next
    lTimeNow,                   \* the instant the pass compares time-outs with
    todo,                       \* orders the iterator has still to visit
    lDeleteList                 \* orders delivered in this pass

headVars == <<mDeliveryHOLFirstRun, mNextExpectedFrameNumber>>
passVars == <<headVars, lTimeNow, todo, lDeleteList>>

PassInit ==
    /\ mDeliveryHOLFirstRun = TRUE
    /\ mNextExpectedFrameNumber = 0
    /\ lTimeNow = 0
    /\ todo = {}
    /\ lDeleteList = {}

HolMode == HolTimeoutMs # 0

MinOrder(S) == CHOOSE k \in S : \A j \in S : k <= j

BucketAt(k) == mBucketList[mBucketMap[k]]

(* mHeadOfLineBlockingTimeoutms * 1000, in uint32_t. *)
HolTimeout == (HolTimeoutMs * UsPerMs) % U32Mod

(* A complete bucket taken for the expected one. *)
CompleteOnly(k) == Complete(BucketAt(k))

ExpectedAndComplete(k) == k = mNextExpectedFrameNumber /\ Complete(BucketAt(k))

TimedOut(k) == BucketAt(k).mTimeout <= lTimeNow

(* A time-out that forgets the head-of-line time-out. *)
BucketTimedOutOnly(k) == TimedOut(k)

HolTimedOut(k) == BucketAt(k).mTimeout + HolTimeout <= lTimeNow

Due(k) ==
    IF HolMode THEN ExpectedAndComplete(k) \/ HolTimedOut(k)
               ELSE Complete(BucketAt(k)) \/ TimedOut(k)

(***************************************************************************)
(* The start of the pass.  In HOL mode its first visit sets the head when  *)
(* none is set, if headMayBeSet, and otherwise ends the pass.              *)
(***************************************************************************)
BeginPass(headMayBeSet) ==
    /\ lDeleteList' = {}
    /\ IF HolMode /\ mDeliveryHOLFirstRun /\ DOMAIN mBucketMap # {}
       THEN IF headMayBeSet
            THEN /\ mDeliveryHOLFirstRun' = FALSE
                 /\ mNextExpectedFrameNumber' = MinOrder(DOMAIN mBucketMap)
                 /\ todo' = DOMAIN mBucketMap
            ELSE /\ todo' = {}
                 /\ UNCHANGED headVars
       ELSE /\ todo' = DOMAIN mBucketMap
            /\ UNCHANGED headVars

(* A pass that ends after the first superframe it delivers. *)
DeliverOneBucket(k) ==
    /\ todo # {} /\ k = MinOrder(todo)
    /\ Due(k)
    /\ todo' = {}
    /\ lDeleteList' = lDeleteList \cup {k}
    /\ mNextExpectedFrameNumber' =
           IF HolMode THEN (k + 1) % U64Mod ELSE mNextExpectedFrameNumber
    /\ UNCHANGED <<mDeliveryHOLFirstRun, lTimeNow>>

(* Deliver the bucket visited; both HOL branches leave the head behind it. *)
DeliverBucket(k) ==
    /\ todo # {} /\ k = MinOrder(todo)
    /\ Due(k)
    /\ todo' = todo \ {k}
    /\ lDeleteList' = lDeleteList \cup {k}
    /\ mNextExpectedFrameNumber' =
           IF HolMode THEN (k + 1) % U64Mod ELSE mNextExpectedFrameNumber
    /\ UNCHANGED <<mDeliveryHOLFirstRun, lTimeNow>>

(* Not due: HOL mode blocks here, the other mode looks at the next bucket. *)
PassOver ==
    /\ todo # {}
    /\ ~Due(MinOrder(todo))
    /\ todo' = IF HolMode THEN {} ELSE todo \ {MinOrder(todo)}
    /\ UNCHANGED <<headVars, lTimeNow, lDeleteList>>

(* Slots of the buckets that were delivered in this pass. *)
DeliveredSlots == {mBucketMap[k] : k \in lDeleteList}

(* The end of the pass: the delete list is worked off. *)
CloseDelivered ==
    /\ todo = {}
    /\ mBucketList' = [s \in Slots |->
           IF s \in DeliveredSlots THEN ClosedBucket(mBucketList[s].mDeliveryOrder)
                                   ELSE mBucketList[s]]
    /\ mBucketMap' = MapErase(lDeleteList)
    /\ lDeleteList' = {}
    /\ UNCHANGED <<counterVars, mStreams, headVars, todo>>

(***************************************************************************)
(* The superframe handed to the application for bucket k.  order is not    *)
(* handed over; it is there to state properties.                           *)
(***************************************************************************)
SuperFrame(k) ==
    LET b == BucketAt(k)
    IN  [order |-> k, openedAt |-> b.openedAt, mBroken |-> ~Complete(b),
         mSuperFrameNo |-> b.mSavedSuperFrameNo, mFrameSize |-> b.data.frameSize,
         chunks |-> b.data.chunks, mPts |-> b.mPts, mDts |-> b.mDts,
         kind |-> b.kind, mStreamID |-> b.mStream, mSource |-> b.mSource]
=============================================================================
