------------------------ MODULE ThreadedReceiver_proofs ------------------------
(***************************************************************************)
(* The threaded receiver: the hand-over between its threads and the stop,  *)
(* which depend on control alone, then the types, the agreement of map and *)
(* ring, that nothing is given up before its time-outs, and that the       *)
(* threads together implement the FrameChannel, for every constant.  What  *)
(* the last rests on is said of Handed, the superframes delivered and on   *)
(* their way: the worker appends to it, and the callback only moves the    *)
(* boundary inside it between those delivered and those that are not.      *)
(***************************************************************************)
EXTENDS ThreadedReceiver, HandedFrames_proofs

(***************************************************************************)
(* The hand-over.  NoSleepThroughStop is not inductive: deliveryWorker     *)
(* must not find mSuperFrameReady cleared once stopReceiver has set it and *)
(* it is on its way to the wait or in it.  It cleared the flag itself only *)
(* if it took the superframe, and then it meets ~mThreadActive first.      *)
(***************************************************************************)
StopClearsFirst == stopPc # "none" => ~mThreadActive

ReadyThroughStop ==
    stopPc \in {"signalled", "polling", "asleep", "stopped", "gaveUp", "destroyed"}
      /\ deliveryPc \in {"lock", "wait"} => mSuperFrameReady

HandOverInv ==
    /\ ReadyWhileQueued
    /\ NoLostWakeup
    /\ NoSleepThroughStop
    /\ StopClearsFirst
    /\ ReadyThroughStop

LEMMA HandOverInvInit == Init => HandOverInv
  BY DEF Init, HandOverInv, ReadyWhileQueued, NoLostWakeup, NoSleepThroughStop,
         StopClearsFirst, ReadyThroughStop

LEMMA HandOverInvNext == HandOverInv /\ [Next]_vars => HandOverInv'
<1>. SUFFICES ASSUME HandOverInv, [Next]_vars
              PROVE  HandOverInv'
  OBVIOUS
<1>. USE DEF HandOverInv, ReadyWhileQueued, NoLostWakeup, NoSleepThroughStop,
             StopClearsFirst, ReadyThroughStop, queueVars, stopVars
<1>1. ASSUME UNCHANGED threadVars
      PROVE  HandOverInv'
  BY <1>1 DEF threadVars
<1>2. CASE WorkerSample
  BY <1>2 DEF WorkerSample
<1>3. CASE WorkerLock
  BY <1>3 DEF WorkerLock
<1>4. ASSUME NEW k, WorkerEnqueue(k)
      PROVE  HandOverInv'
  BY <1>4 DEF WorkerEnqueue
<1>5. CASE WorkerNotify
  BY <1>5 DEF WorkerNotify, NotifyOne
<1>6. CASE WorkerClose
  BY <1>6 DEF WorkerClose
<1>7. CASE WorkerExit
  BY <1>7 DEF WorkerExit
<1>8. CASE DeliveryLoop
  BY <1>8 DEF DeliveryLoop
<1>9. CASE DeliveryWait
  BY <1>9 DEF DeliveryWait
<1>10. CASE DeliveryTake
  BY <1>10 DEF DeliveryTake
<1>11. CASE DeliveryCallback
  BY <1>11 DEF DeliveryCallback
<1>12. CASE SpuriousWakeup
  BY <1>12 DEF SpuriousWakeup
<1>13. CASE StopBegin
  BY <1>13 DEF StopBegin
<1>14. CASE StopSignal
  BY <1>14 DEF StopSignal
<1>15. CASE StopNotify
  BY <1>15 DEF StopNotify, NotifyOne
<1>16. CASE StopReturns
  BY <1>16 DEF StopReturns
<1>17. CASE StopPolls
  BY <1>17 DEF StopPolls, StopSleeps, StopPoll
<1>18. CASE Destroy
  BY <1>18 DEF Destroy
<1>19. CASE CallbackLocksMutex
  BY <1>19 DEF CallbackLocksMutex
<1>20. CASE UNCHANGED vars
  BY <1>1, <1>20 DEF vars
<1>. QED
  BY <1>1, <1>2, <1>3, <1>4, <1>5, <1>6, <1>7, <1>8, <1>9, <1>10, <1>11, <1>12,
     <1>13, <1>14, <1>15, <1>16, <1>17, <1>18, <1>19, <1>20
     DEF Next, Worker, Delivery, StopContinues, ReceiveFragment, WorkerPassOver,
         TimePasses, SenderSteps

(* A superframe in the queue is always announced by mSuperFrameReady.      *)
THEOREM ReadyWhileQueuedAlways == Spec => []ReadyWhileQueued
<1>1. HandOverInv => ReadyWhileQueued
  BY DEF HandOverInv
<1>. QED
  BY HandOverInvInit, HandOverInvNext, <1>1, PTL DEF Spec

(* No notification of deliveryWorker is lost.                              *)
THEOREM NoLostWakeupAlways == Spec => []NoLostWakeup
<1>1. HandOverInv => NoLostWakeup
  BY DEF HandOverInv
<1>. QED
  BY HandOverInvInit, HandOverInvNext, <1>1, PTL DEF Spec

(* deliveryWorker never sleeps through a stopReceiver.                     *)
THEOREM NoSleepThroughStopAlways == Spec => []NoSleepThroughStop
<1>1. HandOverInv => NoSleepThroughStop
  BY DEF HandOverInv
<1>. QED
  BY HandOverInvInit, HandOverInvNext, <1>1, PTL DEF Spec

(***************************************************************************)
(* Once mThreadActive is cleared, deliveryWorker comes from its callback to*)
(* the test of its loop and leaves it.                                     *)
(***************************************************************************)
LastCallback == ~mThreadActive /\ InCallback
PastCallbacks == ~mThreadActive /\ deliveryPc \in {"top", "exited"}

LEMMA LastCallbackStep ==
    ASSUME [Next]_vars, LastCallback \/ PastCallbacks
    PROVE  /\ ~mThreadActive'
           /\ LastCallback => deliveryPc' \in {deliveryPc, "callback", "locking", "top"}
           /\ PastCallbacks => deliveryPc' \in {"top", "exited"}
<1>. USE DEF LastCallback, PastCallbacks, InCallback
<1>1. CASE Delivery
  BY <1>1 DEF Delivery, DeliveryLoop, DeliveryWait, DeliveryTake, CallbackLocksMutex,
     DeliveryCallback
<1>2. CASE StopBegin \/ WorkerNotify \/ StopNotify
  BY <1>2 DEF StopBegin, WorkerNotify, StopNotify, NotifyOne
<1>3. ASSUME UNCHANGED <<mThreadActive, deliveryPc>>
      PROVE  /\ ~mThreadActive'
             /\ LastCallback => deliveryPc' \in {deliveryPc, "callback", "locking", "top"}
             /\ PastCallbacks => deliveryPc' \in {"top", "exited"}
  BY <1>3
<1>4. ASSUME ~Delivery, ~StopBegin, ~WorkerNotify, ~StopNotify
      PROVE  UNCHANGED <<mThreadActive, deliveryPc>>
  BY <1>4 DEF Next, ReceiveFragment, Worker, WorkerSample, WorkerLock, WorkerEnqueue,
     WorkerPassOver, WorkerClose, WorkerExit, SpuriousWakeup, StopContinues, StopSignal,
     StopReturns, StopPolls, StopSleeps, StopPoll, Destroy, TimePasses, SenderSteps,
     vars, threadVars
<1>. QED
  BY <1>1, <1>2, <1>3, <1>4

(* However many superframes are queued and wherever the threads are, the   *)
(* callback in progress when mThreadActive is cleared is the last one.     *)
THEOREM OneCallbackIsLeftAlways == Spec => OneCallbackIsLeft
<1>1. LastCallback /\ [Next]_vars => LastCallback' \/ PastCallbacks'
  BY LastCallbackStep DEF LastCallback, PastCallbacks, InCallback
<1>2. PastCallbacks /\ [Next]_vars => PastCallbacks'
  BY LastCallbackStep DEF PastCallbacks
<1>3. LastCallback <=> ~mThreadActive /\ InCallback
  BY DEF LastCallback
<1>4. PastCallbacks => ~InCallback
  BY DEF PastCallbacks, InCallback
<1>. QED
  BY <1>1, <1>2, <1>3, <1>4, PTL DEF Spec, OneCallbackIsLeft

(***************************************************************************)
(* The data: every superframe on its way is a record, so that it cannot be *)
(* taken for none.                                                         *)
(***************************************************************************)
ThreadsInv ==
    /\ mThreadActive \in BOOLEAN /\ mSuperFrameReady \in BOOLEAN
    /\ workerPc \in {"top", "sleep", "pass", "notify", "exited"}
    /\ deliveryPc \in {"top", "lock", "wait", "callback", "locking", "exited"}
    /\ stopPc \in {"none", "cleared", "signalled", "polling", "asleep", "stopped",
                   "gaveUp", "destroyed"}
    /\ lLockProtect \in 0 .. MaxPolls
    /\ stopPc \notin {"gaveUp", "destroyed"} => lLockProtect > 0
    /\ mNetMtxFree => todo = {} /\ lDeleteList = {}
    /\ mSuperFrameQueue \in Seq(SuperFrameRecord)
    /\ deliveryPc \in {"callback", "locking"} <=> lSuperframe # NoSuperFrame

IInv ==
    /\ SenderIInv
    /\ now \in Nat
    /\ AssemblyInv
    /\ PassInv
    /\ ThreadsInv

LEMMA NoSuperFrameIsNone == NoSuperFrame \notin SuperFrameRecord
<1>1. \A r \in SuperFrameRecord : "order" \in DOMAIN r
  BY DEF SuperFrameRecord
<1>2. DOMAIN NoSuperFrame = {}
  BY DEF NoSuperFrame
<1>. QED
  BY <1>1, <1>2

LEMMA IInvInit == Init => IInv
<1>. SUFFICES ASSUME Init
              PROVE  IInv
  OBVIOUS
<1>1. SenderIInv /\ now \in Nat
  BY SenderIInvInit DEF Init, LinkInit, ClockInit
<1>2. AssemblyInv /\ PassInv
  BY AssemblyInvInit, PassInvInit DEF Init
<1>3. ThreadsInv
  <2>1. <<>> \in Seq(SuperFrameRecord)
    OBVIOUS
  <2>2. todo = {} /\ lDeleteList = {}
    BY DEF Init, PassInit
  <2>3. lLockProtect \in 0 .. MaxPolls /\ lLockProtect > 0
    BY ThreadedAssumption DEF Init
  <2>. QED
    BY <2>1, <2>2, <2>3 DEF Init, ThreadsInv
<1>. QED
  BY <1>1, <1>2, <1>3 DEF IInv

LEMMA ReceiveFragmentKeeps ==
    ASSUME StreamsHaveEntries, IInv, NEW f \in InFlight,
           ReceiveFragment(f, f.id[1])
    PROVE  IInv'
<1>1. IsFragment(f) /\ f.id[1] \in Nat
  BY InFlightAreFragments, ThreadedAssumption DEF IInv
<1>2. PICK m \in Messages : Unpack(f, f.id[1], m)
  BY DEF ReceiveFragment
<1>3. AssemblyInv'
  BY <1>1, <1>2, UnpackKeepsAssemblyInv DEF IInv
<1>4. PassInv'
  BY UnpackKeepsPassInv DEF ReceiveFragment, IInv, ThreadsInv
<1>5. SenderIInv' /\ now' \in Nat
  BY StutterKeeps DEF ReceiveFragment, linkVars, IInv
<1>6. ThreadsInv'
  BY DEF ReceiveFragment, IInv, ThreadsInv, threadVars, queueVars, stopVars, passVars,
         mNetMtxFree
<1>. QED
  BY <1>3, <1>4, <1>5, <1>6 DEF IInv

(* Steps that touch neither the buckets nor the pass nor the senders. *)
LEMMA ThreadStepKeeps ==
    ASSUME IInv, UNCHANGED <<linkVars, assemblyVars, passVars>>, ThreadsInv'
    PROVE  IInv'
  BY StutterKeeps DEF linkVars, assemblyVars, IInv

LEMMA WorkerKeeps == ASSUME IInv, Worker PROVE IInv'
<1>1. CASE WorkerSample
  <2>1. lTimeNow' \in Nat
    BY <1>1, ThreadedAssumption DEF WorkerSample, IInv
  <2>2. PassInv' /\ ThreadsInv'
    BY <1>1, <2>1 DEF WorkerSample, IInv, PassInv, ThreadsInv, mNetMtxFree, headVars,
          queueVars, stopVars, assemblyVars
  <2>3. AssemblyInv' /\ SenderIInv' /\ now' \in Nat
    BY <1>1, StutterKeeps DEF WorkerSample, linkVars, IInv
  <2>. QED
    BY <2>2, <2>3 DEF IInv
<1>2. CASE WorkerLock
  <2>1. PassInv'
    BY <1>2, StutterKeeps, BeginPassKeeps DEF WorkerLock, IInv, assemblyVars, PassInv
  <2>2. ThreadsInv'
    BY <1>2
       DEF WorkerLock, BeginPass, IInv, ThreadsInv, mNetMtxFree, passVars, queueVars, stopVars
  <2>3. AssemblyInv' /\ SenderIInv' /\ now' \in Nat
    BY <1>2, StutterKeeps DEF WorkerLock, linkVars, IInv
  <2>. QED
    BY <2>1, <2>2, <2>3 DEF IInv
<1>3. ASSUME NEW k \in DOMAIN mBucketMap, WorkerEnqueue(k)
      PROVE  IInv'
  <2>1. SuperFrame(k) \in SuperFrameRecord
    BY SuperFrameType DEF IInv
  <2>2. PassInv'
    BY <1>3, DeliverBucketKeeps DEF WorkerEnqueue, assemblyVars, IInv
  <2>3. AssemblyInv' /\ SenderIInv' /\ now' \in Nat
    BY <1>3, StutterKeeps DEF WorkerEnqueue, linkVars, IInv
  <2>4. ThreadsInv'
    BY <1>3, <2>1 DEF WorkerEnqueue, IInv, ThreadsInv, mNetMtxFree, stopVars
  <2>. QED
    BY <2>2, <2>3, <2>4 DEF IInv
<1>4. CASE WorkerNotify
  <2>1. ThreadsInv'
    BY <1>4
       DEF WorkerNotify, NotifyOne, IInv, ThreadsInv, mNetMtxFree, passVars, queueVars, stopVars
  <2>. QED
    BY <1>4, <2>1, ThreadStepKeeps DEF WorkerNotify
<1>5. CASE WorkerPassOver
  <2>1. PassInv'
    BY <1>5, PassOverKeeps DEF WorkerPassOver, assemblyVars, IInv
  <2>2. ThreadsInv'
    BY <1>5
       DEF WorkerPassOver, IInv, ThreadsInv, mNetMtxFree, threadVars, queueVars, stopVars
  <2>3. AssemblyInv' /\ SenderIInv' /\ now' \in Nat
    BY <1>5, StutterKeeps DEF WorkerPassOver, linkVars, IInv
  <2>. QED
    BY <2>1, <2>2, <2>3 DEF IInv
<1>6. CASE WorkerClose
  <2>1. AssemblyInv' /\ PassInv'
    BY <1>6, CloseDeliveredKeeps DEF WorkerClose, IInv, PassInv
  <2>2. ThreadsInv'
    BY <1>6 DEF WorkerClose, CloseDelivered, IInv, ThreadsInv, queueVars, stopVars
  <2>3. SenderIInv' /\ now' \in Nat
    BY <1>6, StutterKeeps DEF WorkerClose, linkVars, IInv
  <2>. QED
    BY <2>1, <2>2, <2>3 DEF IInv
<1>7. CASE WorkerExit
  <2>1. ThreadsInv'
    BY <1>7
       DEF WorkerExit, IInv, ThreadsInv, mNetMtxFree, passVars, queueVars, stopVars
  <2>. QED
    BY <1>7, <2>1, ThreadStepKeeps DEF WorkerExit
<1>. QED
  BY <1>1, <1>2, <1>3, <1>4, <1>5, <1>6, <1>7 DEF Worker

LEMMA DeliveryKeeps == ASSUME IInv, Delivery \/ SpuriousWakeup PROVE IInv'
<1>1. UNCHANGED <<linkVars, assemblyVars, passVars>>
  BY DEF Delivery, SpuriousWakeup, DeliveryLoop, DeliveryWait, DeliveryTake,
         CallbackLocksMutex, DeliveryCallback
<1>2. CASE DeliveryLoop \/ DeliveryWait \/ CallbackLocksMutex \/ SpuriousWakeup
  <2>1. ThreadsInv'
    BY <1>2 DEF DeliveryLoop, DeliveryWait, CallbackLocksMutex, SpuriousWakeup, IInv,
          ThreadsInv, mNetMtxFree, passVars, queueVars, stopVars
  <2>. QED
    BY <1>1, <2>1, ThreadStepKeeps
<1>3. CASE DeliveryTake
  <2>1. CASE mSuperFrameQueue = <<>>
    <3>1. ThreadsInv'
      BY <1>3, <2>1 DEF DeliveryTake, IInv, ThreadsInv, mNetMtxFree, passVars, stopVars
    <3>. QED
      BY <1>1, <3>1, ThreadStepKeeps
  <2>2. CASE mSuperFrameQueue # <<>>
    <3>1. Head(mSuperFrameQueue) \in SuperFrameRecord
          /\ Tail(mSuperFrameQueue) \in Seq(SuperFrameRecord)
      BY <2>2 DEF IInv, ThreadsInv
    <3>2. lSuperframe' # NoSuperFrame
      BY <1>3, <2>2, <3>1, NoSuperFrameIsNone DEF DeliveryTake
    <3>3. ThreadsInv'
      BY <1>3, <2>2, <3>1, <3>2
         DEF DeliveryTake, IInv, ThreadsInv, mNetMtxFree, passVars, stopVars
    <3>. QED
      BY <1>1, <3>3, ThreadStepKeeps
  <2>. QED
    BY <2>1, <2>2
<1>4. CASE DeliveryCallback
  <2>1. ThreadsInv'
    BY <1>4
       DEF DeliveryCallback, InCallback, IInv, ThreadsInv, mNetMtxFree, passVars, queueVars, stopVars
  <2>. QED
    BY <1>1, <2>1, ThreadStepKeeps
<1>. QED
  BY <1>2, <1>3, <1>4 DEF Delivery

LEMMA StopKeeps ==
    ASSUME IInv, StopBegin \/ StopContinues \/ StopPolls
    PROVE  IInv'
<1>1. UNCHANGED <<linkVars, assemblyVars, passVars>>
  BY DEF StopBegin, StopContinues, StopSignal, StopNotify, StopReturns, StopPolls,
         StopSleeps, StopPoll, Destroy
<1>2. CASE StopPolls
  <2>1. stopPc = "asleep" => lLockProtect \in 1 .. MaxPolls
    BY DEF IInv, ThreadsInv
  <2>2. lLockProtect' \in 0 .. MaxPolls /\ (stopPc' # "gaveUp" => lLockProtect' > 0)
    <3>1. CASE StopSleeps
      BY <3>1 DEF StopSleeps, IInv, ThreadsInv
    <3>2. CASE StopPoll
      <4>1. lLockProtect \in 1 .. MaxPolls /\ lLockProtect' = lLockProtect - 1
            /\ (lLockProtect' = 0 => stopPc' = "gaveUp")
        BY <2>1, <3>2 DEF StopPoll
      <4>2. MaxPolls \in Nat
        BY ThreadedAssumption
      <4>. QED
        BY <4>1, <4>2
    <3>. QED
      BY <1>2, <3>1, <3>2 DEF StopPolls
  <2>3. ThreadsInv'
    BY <1>2, <2>2 DEF StopPolls, StopSleeps, StopPoll, IInv, ThreadsInv, mNetMtxFree,
          passVars, queueVars
  <2>. QED
    BY <1>1, <2>3, ThreadStepKeeps
<1>3. CASE StopBegin \/ StopContinues
  <2>1. ThreadsInv'
    BY <1>3 DEF StopBegin, StopContinues, StopSignal, StopNotify, StopReturns, Destroy,
          NotifyOne, IInv, ThreadsInv, mNetMtxFree, passVars, queueVars
  <2>. QED
    BY <1>1, <2>1, ThreadStepKeeps
<1>. QED
  BY <1>2, <1>3

LEMMA IInvNext == ASSUME StreamsHaveEntries PROVE IInv /\ [Next]_vars => IInv'
<1>. SUFFICES ASSUME IInv, [Next]_vars
              PROVE  IInv'
  OBVIOUS
<1>1. CASE UNCHANGED vars
  <2>1. ThreadsInv'
    BY <1>1
       DEF vars, threadVars, passVars, queueVars, stopVars, IInv, ThreadsInv, mNetMtxFree
  <2>. QED
    BY <1>1, <2>1, ThreadStepKeeps DEF vars
<1>2. CASE TimePasses \/ SenderSteps
  <2>1. SenderIInv' /\ now' \in Nat
    BY <1>2, LinkKeeps DEF TimePasses, SenderSteps, IInv
  <2>2. AssemblyInv' /\ PassInv'
    BY <1>2, StutterKeeps DEF TimePasses, SenderSteps, assemblyVars, IInv
  <2>3. ThreadsInv'
    BY <1>2
       DEF TimePasses, SenderSteps, threadVars, passVars, queueVars, stopVars, IInv,
          ThreadsInv, mNetMtxFree
  <2>. QED
    BY <2>1, <2>2, <2>3 DEF IInv
<1>. QED
  BY <1>1, <1>2, ReceiveFragmentKeeps, WorkerKeeps, DeliveryKeeps, StopKeeps DEF Next

(* The threads' state stays within its types, in every reachable state.    *)
THEOREM TypeOKAlways == ASSUME StreamsHaveEntries PROVE Spec => []TypeOK
<1>1. IInv => TypeOK
  BY AssemblyInvTypes DEF IInv, PassInv, ThreadsInv, TypeOK, InCallback
<1>. QED
  BY IInvInit, IInvNext, <1>1, PTL DEF Spec

(* The receiving thread and receiverWorker, which share the map and the    *)
(* ring under mNetMtx, never make them disagree.                           *)
THEOREM MapMatchesBucketsAlways ==
    ASSUME StreamsHaveEntries PROVE Spec => []MapMatchesBuckets
<1>1. IInv => MapMatchesBuckets
  BY DEF IInv, AssemblyInv, RingInv
<1>. QED
  BY IInvInit, IInvNext, <1>1, PTL DEF Spec

(***************************************************************************)
(* Time-outs: a pass compares with an instant that was planned before it   *)
(* waited for the mutex and that has come by then.                         *)
(***************************************************************************)
ClockInv ==
    /\ TimeOutsSet
    /\ workerPc \in {"pass", "notify"} => lTimeNow <= now

LEMMA ClockInvInit == Init => ClockInv
  BY TimeOutsSetInit DEF Init, ClockInv

LEMMA ClockInvNext ==
    ASSUME StreamsHaveEntries PROVE IInv /\ ClockInv /\ [Next]_vars => ClockInv'
<1>. SUFFICES ASSUME IInv, ClockInv, [Next]_vars
              PROVE  ClockInv'
  OBVIOUS
<1>1. now \in Nat /\ lTimeNow \in Nat
  BY DEF IInv, PassInv
<1>2. ASSUME UNCHANGED mBucketList, workerPc' \in {"pass", "notify"} => lTimeNow' <= now'
      PROVE  ClockInv'
  BY <1>2, StutterKeepsTimeOuts DEF ClockInv
<1>3. ASSUME NEW f \in InFlight, ReceiveFragment(f, f.id[1])
      PROVE  ClockInv'
  <2>1. PICK m \in Messages : Unpack(f, f.id[1], m)
    BY <1>3 DEF ReceiveFragment
  <2>2. IsFragment(f)
    BY <1>3, InFlightAreFragments, ThreadedAssumption DEF IInv
  <2>3. TimeOutsSet'
    BY <2>1, <2>2, UnpackKeepsTimeOuts DEF IInv, ClockInv
  <2>4. UNCHANGED <<now, lTimeNow, workerPc>>
    BY <1>3 DEF ReceiveFragment, linkVars, passVars, threadVars
  <2>. QED
    BY <2>3, <2>4 DEF ClockInv
<1>4. ASSUME NEW k, WorkerEnqueue(k)
      PROVE  ClockInv'
  <2>1. UNCHANGED <<now, lTimeNow, mBucketList>> /\ workerPc = "pass"
    BY <1>4 DEF WorkerEnqueue, DeliverBucket, linkVars, assemblyVars
  <2>. QED
    BY <1>2, <2>1 DEF ClockInv
<1>5. CASE WorkerClose
  BY <1>5, CloseKeepsTimeOuts DEF WorkerClose, ClockInv
<1>6. CASE WorkerSample \/ WorkerLock \/ WorkerNotify \/ WorkerPassOver \/ WorkerExit
  <2>1. UNCHANGED mBucketList
    BY <1>6 DEF WorkerSample, WorkerLock, WorkerNotify, WorkerPassOver, WorkerExit,
          assemblyVars
  <2>2. workerPc' \in {"pass", "notify"} => lTimeNow' <= now'
    BY <1>1, <1>6 DEF WorkerSample, WorkerLock, WorkerNotify, WorkerPassOver,
          WorkerExit, PassOver, linkVars, threadVars, passVars, ClockInv
  <2>. QED
    BY <1>2, <2>1, <2>2
<1>7. CASE Delivery \/ SpuriousWakeup \/ StopBegin \/ StopContinues \/ StopPolls
           \/ UNCHANGED vars
  <2>1. UNCHANGED <<now, lTimeNow, workerPc, mBucketList>>
    BY <1>7 DEF Delivery, DeliveryLoop, DeliveryWait, DeliveryTake, CallbackLocksMutex,
          DeliveryCallback, SpuriousWakeup, StopBegin, StopContinues, StopSignal,
          StopNotify, StopReturns, StopPolls, StopSleeps, StopPoll, Destroy, vars,
          linkVars, assemblyVars, passVars, threadVars
  <2>. QED
    BY <1>2, <2>1 DEF ClockInv
<1>8. CASE TimePasses \/ SenderSteps
  <2>1. now' \in Nat /\ now' >= now
    BY <1>1, <1>8 DEF TimePasses, SenderSteps, Send, Number, Tick
  <2>2. UNCHANGED <<lTimeNow, workerPc, mBucketList>>
    BY <1>8 DEF TimePasses, SenderSteps, assemblyVars, passVars, threadVars
  <2>. QED
    BY <1>1, <1>2, <2>1, <2>2 DEF ClockInv
<1>. QED
  BY <1>3, <1>4, <1>5, <1>6, <1>7, <1>8 DEF Next, Worker

InTime(d) ==
    d \in SuperFrameRecord /\ (d.mBroken => now >= d.openedAt + GiveUpAfter)

AllInTime(superframes) ==
    /\ superframes \in Seq(SuperFrameRecord)
    /\ \A i \in 1 .. Len(superframes) : InTime(superframes[i])

GiveUpInv ==
    /\ ClockInv
    /\ AllInTime(delivered)
    /\ AllInTime(mSuperFrameQueue)
    /\ lSuperframe # NoSuperFrame => InTime(lSuperframe)

LEMMA InTimeLater ==
    ASSUME now \in Nat, now' \in Nat, now' >= now
    PROVE  \A d : InTime(d) => InTime(d)'
<1>1. GiveUpAfter \in Nat
  BY ProductType, AssemblyAssumption, HolAssumption DEF GiveUpAfter
<1>2. \A d \in SuperFrameRecord : d.openedAt \in Nat
  BY DEF SuperFrameRecord
<1>. SUFFICES ASSUME NEW d, InTime(d)
              PROVE  InTime(d)'
  OBVIOUS
<1>3. d \in SuperFrameRecord /\ d.openedAt \in Nat
  BY <1>2 DEF InTime
<1>. QED
  BY <1>1, <1>3 DEF InTime, GiveUpAfter

LEMMA AllInTimeLater ==
    ASSUME now \in Nat, now' \in Nat, now' >= now
    PROVE  \A q : AllInTime(q) => AllInTime(q)'
  BY InTimeLater DEF AllInTime

LEMMA AllInTimeAppend ==
    ASSUME NEW q, AllInTime(q), NEW d, InTime(d)
    PROVE  AllInTime(Append(q, d))
<1>1. q \in Seq(SuperFrameRecord) /\ d \in SuperFrameRecord
  BY DEF AllInTime, InTime
<1>2. /\ Append(q, d) \in Seq(SuperFrameRecord)
      /\ \A i \in 1 .. Len(Append(q, d)) :
            Append(q, d)[i] = d \/ (i \in 1 .. Len(q) /\ Append(q, d)[i] = q[i])
  BY <1>1
<1>. QED
  BY <1>2 DEF AllInTime

LEMMA AllInTimeTail ==
    ASSUME NEW q, AllInTime(q), q # <<>>
    PROVE  AllInTime(Tail(q)) /\ InTime(Head(q))
<1>1. q \in Seq(SuperFrameRecord)
  BY DEF AllInTime
<1>2. /\ Tail(q) \in Seq(SuperFrameRecord) /\ Len(Tail(q)) = Len(q) - 1
      /\ Len(q) \in Nat /\ Len(q) > 0 /\ Head(q) = q[1]
      /\ \A i \in 1 .. Len(Tail(q)) : Tail(q)[i] = q[i + 1]
  BY <1>1
<1>. QED
  BY <1>2 DEF AllInTime

(* Superframes are moved on by receiverWorker and deliveryWorker only. *)
LEMMA OtherStepsHandNothingOn ==
    ASSUME [Next]_vars
    PROVE  \/ \E k \in DOMAIN mBucketMap : WorkerEnqueue(k)
           \/ DeliveryTake \/ DeliveryCallback
           \/ UNCHANGED <<delivered, mSuperFrameQueue, lSuperframe>>
  BY DEF Next, ReceiveFragment, Worker, WorkerSample, WorkerLock, WorkerNotify,
     WorkerPassOver, WorkerClose, WorkerExit, Delivery, DeliveryLoop, DeliveryWait,
     CallbackLocksMutex, SpuriousWakeup, StopBegin, StopContinues, StopSignal, StopNotify,
     StopReturns, StopPolls, StopSleeps, StopPoll, Destroy, TimePasses, SenderSteps, vars,
     threadVars, queueVars

LEMMA GiveUpInvInit == Init => GiveUpInv
<1>. SUFFICES ASSUME Init
              PROVE  GiveUpInv
  OBVIOUS
<1>1. AllInTime(<<>>)
  BY DEF AllInTime
<1>. QED
  BY <1>1, ClockInvInit DEF Init, GiveUpInv

LEMMA GiveUpInvNext ==
    ASSUME StreamsHaveEntries, TimeOutsFit, IInv, GiveUpInv, [Next]_vars
    PROVE  GiveUpInv'
<1>1. now \in Nat /\ lTimeNow \in Nat
  BY DEF IInv, PassInv
<1>2. ClockInv'
  BY ClockInvNext DEF GiveUpInv
<1>3. now' \in Nat /\ now' >= now
  <2>1. CASE TimePasses \/ SenderSteps
    BY <1>1, <2>1 DEF TimePasses, SenderSteps, Send, Number, Tick
  <2>2. CASE UNCHANGED now
    BY <1>1, <2>2
  <2>. QED
    BY <2>1, <2>2 DEF Next, ReceiveFragment, Worker, WorkerSample, WorkerLock,
       WorkerEnqueue, WorkerNotify, WorkerPassOver, WorkerClose, WorkerExit, Delivery,
       DeliveryLoop, DeliveryWait, DeliveryTake, CallbackLocksMutex, DeliveryCallback,
       SpuriousWakeup, StopBegin, StopContinues, StopSignal, StopNotify, StopReturns,
       StopPolls, StopSleeps, StopPoll,
       Destroy, vars, linkVars
<1>4. /\ \A d : InTime(d) => InTime(d)'
      /\ \A q : AllInTime(q) => AllInTime(q)'
  BY <1>1, <1>3, InTimeLater, AllInTimeLater
<1>5. ASSUME UNCHANGED <<delivered, mSuperFrameQueue, lSuperframe>>
      PROVE  GiveUpInv'
  BY <1>2, <1>4, <1>5 DEF GiveUpInv
<1>6. ASSUME NEW k \in DOMAIN mBucketMap, WorkerEnqueue(k)
      PROVE  GiveUpInv'
  <2>. DEFINE d == SuperFrame(k)
  <2>1. lTimeNow <= now /\ Due(k)
    BY <1>6 DEF WorkerEnqueue, DeliverBucket, GiveUpInv, ClockInv
  <2>2. InTime(d)
    BY <1>1, <2>1, SuperFrameType, BrokenIsLate
       DEF IInv, GiveUpInv, ClockInv, InTime, GiveUpAfter
  <2>3. mSuperFrameQueue' = Append(mSuperFrameQueue, d)
        /\ UNCHANGED <<delivered, lSuperframe>>
    BY <1>6 DEF WorkerEnqueue
  <2>. HIDE DEF d
  <2>4. AllInTime(Append(mSuperFrameQueue, d))
    BY <2>2, AllInTimeAppend DEF GiveUpInv
  <2>. QED
    BY <1>2, <1>4, <2>3, <2>4 DEF GiveUpInv
<1>7. CASE DeliveryTake
  <2>1. mSuperFrameQueue # <<>> =>
            AllInTime(Tail(mSuperFrameQueue)) /\ InTime(Head(mSuperFrameQueue))
    BY AllInTimeTail DEF GiveUpInv
  <2>2. AllInTime(mSuperFrameQueue') /\ (lSuperframe' # NoSuperFrame => InTime(lSuperframe'))
    BY <1>7, <2>1 DEF DeliveryTake, GiveUpInv
  <2>. QED
    BY <1>2, <1>4, <1>7, <2>2 DEF DeliveryTake, GiveUpInv
<1>8. CASE DeliveryCallback
  <2>1. lSuperframe # NoSuperFrame
    BY <1>8 DEF DeliveryCallback, InCallback, IInv, ThreadsInv
  <2>2. AllInTime(Append(delivered, lSuperframe))
    BY <2>1, AllInTimeAppend DEF GiveUpInv
  <2>. QED
    BY <1>2, <1>4, <1>8, <2>2 DEF DeliveryCallback, queueVars, GiveUpInv
<1>. QED
  BY <1>5, <1>6, <1>7, <1>8, OtherStepsHandNothingOn

(* The superframe at a place of Handed is one handed over, the one taken   *)
(* or one still queued.                                                    *)
LEMMA HandedInTime ==
    ASSUME GiveUpInv, NEW i \in 1 .. Len(Handed)
    PROVE  InTime(Handed[i])
<1>. DEFINE taken == IF lSuperframe = NoSuperFrame THEN <<>> ELSE <<lSuperframe>>
<1>1. AllInTime(delivered) /\ AllInTime(taken) /\ AllInTime(mSuperFrameQueue)
  <2>1. lSuperframe # NoSuperFrame => AllInTime(<<lSuperframe>>)
    BY DEF GiveUpInv, AllInTime, InTime
  <2>2. AllInTime(<<>>)
    BY DEF AllInTime
  <2>. QED
    BY <2>1, <2>2 DEF GiveUpInv
<1>2. Handed = delivered \o taken \o mSuperFrameQueue
  BY DEF Handed
<1>. HIDE DEF taken
<1>3. ASSUME NEW p, AllInTime(p), NEW q, AllInTime(q)
      PROVE  AllInTime(p \o q)
  <2>1. p \in Seq(SuperFrameRecord) /\ q \in Seq(SuperFrameRecord)
    BY <1>3 DEF AllInTime
  <2>2. /\ p \o q \in Seq(SuperFrameRecord) /\ Len(p \o q) = Len(p) + Len(q)
        /\ Len(p) \in Nat /\ Len(q) \in Nat
        /\ \A j \in 1 .. Len(p) + Len(q) :
              (p \o q)[j] = IF j <= Len(p) THEN p[j] ELSE q[j - Len(p)]
    BY <2>1
  <2>. QED
    BY <1>3, <2>2 DEF AllInTime
<1>4. AllInTime(Handed)
  BY <1>1, <1>2, <1>3
<1>. QED
  BY <1>4 DEF AllInTime

(* No superframe is handed over broken before its time-outs have passed,   *)
(* although receiverWorker compares with an instant it planned earlier.    *)
THEOREM NoEarlyGiveUpAlways ==
    ASSUME StreamsHaveEntries, TimeOutsFit PROVE Spec => []NoEarlyGiveUp
<1>1. GiveUpInv => NoEarlyGiveUp
  BY HandedInTime DEF NoEarlyGiveUp, InTime
<1>2. IInv /\ GiveUpInv /\ [Next]_vars => GiveUpInv'
  BY GiveUpInvNext
<1>. QED
  BY IInvInit, IInvNext, GiveUpInvInit, <1>1, <1>2, PTL DEF Spec

(***************************************************************************)
(* The superframes on their way.  Whether they are in the queue, taken or  *)
(* delivered, they are the same sequence: receiverWorker appends to it,    *)
(* deliveryWorker moves along it, and nobody else touches it.              *)
(***************************************************************************)
OnTheWay ==
    /\ delivered \in Seq(SuperFrameRecord)
    /\ lSuperframe # NoSuperFrame => lSuperframe \in SuperFrameRecord

LEMMA HandedIs ==
    ASSUME OnTheWay, ThreadsInv
    PROVE  /\ Handed \in Seq(SuperFrameRecord) /\ Len(delivered) \in Nat
           /\ Len(Handed) \in Nat
           /\ \A i \in 1 .. Len(delivered) :
                 i \in 1 .. Len(Handed) /\ Handed[i] = delivered[i]
           /\ lSuperframe # NoSuperFrame =>
                 /\ Len(delivered) + 1 \in 1 .. Len(Handed)
                 /\ Handed[Len(delivered) + 1] = lSuperframe
<1>. DEFINE S == SuperFrameRecord
            taken == IF lSuperframe = NoSuperFrame THEN <<>> ELSE <<lSuperframe>>
<1>1. taken \in Seq(S) /\ (lSuperframe # NoSuperFrame => Len(taken) = 1 /\ taken[1] = lSuperframe)
  BY DEF OnTheWay
<1>2. delivered \in Seq(S) /\ mSuperFrameQueue \in Seq(S)
  BY DEF OnTheWay, ThreadsInv
<1>3. Handed = (delivered \o taken) \o mSuperFrameQueue
  BY DEF Handed
<1>. HIDE DEF S, taken
<1>4. /\ delivered \o taken \in Seq(S)
      /\ Len(delivered \o taken) = Len(delivered) + Len(taken)
      /\ \A i \in 1 .. Len(delivered) + Len(taken) : (delivered \o taken)[i] =
            IF i <= Len(delivered) THEN delivered[i] ELSE taken[i - Len(delivered)]
  BY <1>1, <1>2, ConcatProperties
<1>5. /\ Handed \in Seq(S)
      /\ Len(Handed) = Len(delivered) + Len(taken) + Len(mSuperFrameQueue)
      /\ \A i \in 1 .. Len(delivered) + Len(taken) : Handed[i] = (delivered \o taken)[i]
  <2>1. /\ Handed \in Seq(S)
        /\ Len(Handed) = Len(delivered \o taken) + Len(mSuperFrameQueue)
        /\ \A i \in 1 .. Len(delivered \o taken) + Len(mSuperFrameQueue) : Handed[i] =
              IF i <= Len(delivered \o taken) THEN (delivered \o taken)[i]
                 ELSE mSuperFrameQueue[i - Len(delivered \o taken)]
    BY <1>2, <1>3, <1>4, ConcatProperties
  <2>2. Len(delivered) \in Nat /\ Len(taken) \in Nat /\ Len(mSuperFrameQueue) \in Nat
    BY <1>1, <1>2
  <2>. QED
    BY <1>4, <2>1, <2>2
<1>6. PICK a \in Nat, b \in Nat, c \in Nat :
          a = Len(delivered) /\ b = Len(taken) /\ c = Len(mSuperFrameQueue)
  BY <1>1, <1>2
<1>7. ASSUME lSuperframe # NoSuperFrame
      PROVE  /\ Len(delivered) + 1 \in 1 .. Len(Handed)
             /\ Handed[Len(delivered) + 1] = lSuperframe
  <2>1. b = 1 /\ taken[1] = lSuperframe
    BY <1>1, <1>6, <1>7
  <2>2. a + 1 \in 1 .. a + b /\ a + 1 \in 1 .. a + b + c /\ ~(a + 1 <= a) /\ (a + 1) - a = 1
    BY <2>1
  <2>3. Handed[a + 1] = (delivered \o taken)[a + 1]
    BY <1>5, <1>6, <2>2
  <2>4. (delivered \o taken)[a + 1] = taken[1]
    BY <1>4, <1>6, <2>2
  <2>. QED
    BY <1>5, <1>6, <2>1, <2>2, <2>3, <2>4
<1>8. \A i \in 1 .. Len(delivered) : i \in 1 .. Len(Handed) /\ Handed[i] = delivered[i]
  <2>1. \A i \in 1 .. a : i \in 1 .. a + b /\ i \in 1 .. a + b + c /\ i <= a
    OBVIOUS
  <2>. QED
    BY <1>4, <1>5, <1>6, <2>1
<1>. QED
  BY <1>5, <1>6, <1>7, <1>8 DEF S

LEMMA EnqueueAppends ==
    ASSUME OnTheWay, ThreadsInv, NEW k, SuperFrame(k) \in SuperFrameRecord, WorkerEnqueue(k)
    PROVE  Handed' = Append(Handed, SuperFrame(k)) /\ OnTheWay'
<1>. DEFINE S == SuperFrameRecord
            d == SuperFrame(k)
            taken == IF lSuperframe = NoSuperFrame THEN <<>> ELSE <<lSuperframe>>
<1>1. delivered \in Seq(S) /\ taken \in Seq(S) /\ mSuperFrameQueue \in Seq(S) /\ d \in S
  BY DEF OnTheWay, ThreadsInv
<1>2. mSuperFrameQueue' = Append(mSuperFrameQueue, d) /\ UNCHANGED <<delivered, lSuperframe>>
  BY DEF WorkerEnqueue
<1>3. /\ Handed = (delivered \o taken) \o mSuperFrameQueue
      /\ Handed' = (delivered \o taken) \o Append(mSuperFrameQueue, d)
  BY <1>2 DEF Handed
<1>4. OnTheWay'
  BY <1>2 DEF OnTheWay
<1>. HIDE DEF S, d, taken
<1>5. delivered \o taken \in Seq(S) /\ <<d>> \in Seq(S)
  BY <1>1
<1>6. Append(mSuperFrameQueue, d) = mSuperFrameQueue \o <<d>>
  BY <1>1
<1>7. Handed \in Seq(S) /\ Handed' = Handed \o <<d>>
  BY <1>1, <1>3, <1>5, <1>6, ConcatAssociative, ConcatProperties
<1>8. Handed' = Append(Handed, d)
  BY <1>1, <1>7
<1>. QED
  BY <1>4, <1>8 DEF d

LEMMA DeliveryMovesOn ==
    ASSUME OnTheWay, ThreadsInv, DeliveryTake \/ DeliveryCallback
    PROVE  Handed' = Handed /\ OnTheWay'
<1>. DEFINE S == SuperFrameRecord
<1>1. delivered \in Seq(S) /\ mSuperFrameQueue \in Seq(S)
  BY DEF OnTheWay, ThreadsInv
<1>2. CASE DeliveryTake
  <2>1. deliveryPc = "lock" /\ lSuperframe = NoSuperFrame /\ UNCHANGED delivered
    BY <1>2 DEF DeliveryTake, ThreadsInv
  <2>2. CASE mSuperFrameQueue = <<>>
    BY <1>2, <2>1, <2>2 DEF DeliveryTake, Handed, OnTheWay
  <2>3. CASE mSuperFrameQueue # <<>>
    <3>1. lSuperframe' = Head(mSuperFrameQueue) /\ mSuperFrameQueue' = Tail(mSuperFrameQueue)
      BY <1>2, <2>3 DEF DeliveryTake
    <3>2. /\ Head(mSuperFrameQueue) \in S /\ Tail(mSuperFrameQueue) \in Seq(S)
          /\ mSuperFrameQueue = <<Head(mSuperFrameQueue)>> \o Tail(mSuperFrameQueue)
      BY <1>1, <2>3
    <3>3. lSuperframe' # NoSuperFrame
      BY <3>1, <3>2, NoSuperFrameIsNone
    <3>4. Handed = delivered \o mSuperFrameQueue
      BY <1>1, <2>1, ConcatEmptySeq DEF Handed
    <3>5. Handed' = (delivered \o <<Head(mSuperFrameQueue)>>) \o Tail(mSuperFrameQueue)
      BY <2>1, <3>1, <3>3 DEF Handed
    <3>6. <<Head(mSuperFrameQueue)>> \in Seq(S)
      BY <3>2
    <3>7. Handed' = delivered \o (<<Head(mSuperFrameQueue)>> \o Tail(mSuperFrameQueue))
      BY <1>1, <3>2, <3>5, <3>6, ConcatAssociative
    <3>. QED
      BY <2>1, <3>1, <3>2, <3>4, <3>7 DEF OnTheWay
  <2>. QED
    BY <2>2, <2>3
<1>3. CASE DeliveryCallback
  <2>1. lSuperframe # NoSuperFrame /\ lSuperframe \in S
    BY <1>3 DEF DeliveryCallback, InCallback, ThreadsInv, OnTheWay
  <2>2. /\ delivered' = Append(delivered, lSuperframe) /\ lSuperframe' = NoSuperFrame
        /\ UNCHANGED mSuperFrameQueue
    BY <1>3 DEF DeliveryCallback, queueVars
  <2>3. delivered' \in Seq(S) /\ delivered' = delivered \o <<lSuperframe>>
    BY <1>1, <2>1, <2>2
  <2>4. Handed = (delivered \o <<lSuperframe>>) \o mSuperFrameQueue
    BY <2>1 DEF Handed
  <2>5. Handed' = (delivered' \o <<>>) \o mSuperFrameQueue
    BY <2>2 DEF Handed
  <2>6. delivered' \o <<>> = delivered'
    BY <2>3, ConcatEmptySeq
  <2>. QED
    BY <2>2, <2>3, <2>4, <2>5, <2>6 DEF OnTheWay
<1>. QED
  BY <1>2, <1>3

(***************************************************************************)
(* What they hold and the order they are in, as in the other mode.         *)
(***************************************************************************)
AllRight(hs) == \A i \in 1 .. Len(hs) : HandedRight(hs[i], {})

OrderInv ==
    /\ OnTheWay
    /\ LinkInv
    /\ PassInOrder
    /\ BucketsSound({})
    /\ \E hs : /\ hs = Handed /\ AllRight(hs) /\ KeepsOrder(hs)
               /\ HolMode => InSequence(hs)

LEMMA OrderInvInit == Init => OrderInv
<1>. SUFFICES ASSUME Init
              PROVE  OrderInv
  OBVIOUS
<1>1. Ordered(0, <<>>) /\ PassInOrder /\ NothingYet(<<>>)
  BY OrderedInit DEF Init
<1>2. KeepsOrder(<<>>) /\ AllRight(<<>>) /\ InSequence(<<>>)
  BY <1>1, 0 \in Int DEF KeepsOrder, AllRight, InSequence
<1>3. LinkInv
  BY LinkInvInit DEF Init
<1>4. BucketsSound({})
  BY DEF Init, AssemblyInit, BucketsSound, Sound, ClosedBucket
<1>5. OnTheWay /\ Handed = <<>>
  <2>1. delivered = <<>> /\ lSuperframe = NoSuperFrame /\ mSuperFrameQueue = <<>>
    BY DEF Init
  <2>2. <<>> \o <<>> = <<>>
    OBVIOUS
  <2>. QED
    BY <2>1, <2>2 DEF OnTheWay, Handed
<1>. QED
  BY <1>1, <1>2, <1>3, <1>4, <1>5 DEF OrderInv

(* The senders take nothing back. *)
LEMMA StreamGrows ==
    ASSUME SenderIInv, [Next]_vars
    PROVE  \A s \in Sources : \A n \in 1 .. Len(sent[s]) :
               n \in 1 .. Len(sent'[s]) /\ sent'[s][n] = sent[s][n]
<1>1. CASE SenderSteps
  BY <1>1, LinkGrows DEF SenderSteps
<1>2. CASE UNCHANGED sent
  BY <1>2
<1>. QED
  BY <1>1, <1>2 DEF Next, ReceiveFragment, Worker, WorkerSample, WorkerLock,
     WorkerEnqueue, WorkerNotify, WorkerPassOver, WorkerClose, WorkerExit, Delivery,
     DeliveryLoop, DeliveryWait, DeliveryTake, CallbackLocksMutex, DeliveryCallback,
     SpuriousWakeup, StopBegin, StopContinues, StopSignal, StopNotify, StopReturns,
     StopPolls, StopSleeps, StopPoll,
     Destroy, TimePasses, vars, linkVars, senderVars

LEMMA RightStays ==
    ASSUME SenderIInv, [Next]_vars, NEW hs, AllRight(hs)
    PROVE  AllRight(hs)'
<1>1. \A d : HandedRight(d, {}) => HandedRight(d, {})'
  BY StreamGrows, HandedStaysRight
<1>. QED
  BY <1>1 DEF AllRight

(* Steps that move no superframe on. *)
LEMMA SameSuperFrames ==
    ASSUME UNCHANGED <<delivered, mSuperFrameQueue, lSuperframe>>
    PROVE  Handed' = Handed /\ (OnTheWay => OnTheWay')
  BY DEF Handed, OnTheWay

LEMMA ReceiveKeepsOrder ==
    ASSUME StreamsHaveEntries, OneSource, StreamWithinReach, IInv, OrderInv,
           NEW f \in InFlight, ReceiveFragment(f, f.id[1])
    PROVE  OrderInv'
<1>1. PICK hs : /\ hs = Handed /\ AllRight(hs) /\ KeepsOrder(hs)
                /\ HolMode => InSequence(hs)
  BY DEF OrderInv
<1>2. PICK m \in Messages : Unpack(f, f.id[1], m)
  BY DEF ReceiveFragment
<1>3. /\ mNetMtxFree /\ (mSuperFrameFirstTime => MayJoinAt(f))
      /\ UNCHANGED <<linkVars, passVars>>
      /\ UNCHANGED <<delivered, mSuperFrameQueue, lSuperframe>>
  BY DEF ReceiveFragment, threadVars, queueVars
<1>4. todo = {} /\ lDeleteList = {}
  BY <1>3 DEF IInv, ThreadsInv
<1>5. IsFragment(f)
  BY InFlightAreFragments, ThreadedAssumption DEF IInv
<1>6. PICK s \in Sources : \E n \in 1 .. Len(sent[s]) :
          f \in SentFragments(s, n) /\ UnderWay(s, n)
  BY InFlightIsUnderWay DEF IInv
<1>7. PICK n \in 1 .. Len(sent[s]) : f \in SentFragments(s, n) /\ UnderWay(s, n)
  BY <1>6
<1>8. KeepsOrder(hs)'
  <2>1. /\ \E base \in Int : Ordered(base, hs)'
        /\ mSuperFrameFirstTime' => NothingYet(hs)'
    BY <1>1, <1>2, <1>3, <1>4, <1>5, <1>7, UnpackKeepsOrder DEF IInv, OrderInv, KeepsOrder
  <2>. QED
    BY <2>1 DEF KeepsOrder
<1>9. LinkInv' /\ PassInOrder'
  BY <1>3, <1>4, LinkInvStutter DEF OrderInv, PassInOrder, passVars
<1>10. BucketsSound({})'
  <2>1. NumbersSuffice
    BY Reach DEF NumbersSuffice
  <2>2. UNCHANGED senderVars /\ f \in InFlight \cup {}
    BY <1>3 DEF linkVars
  <2>3. \A g \in {} : IsFragment(g) /\ g.len > 0
    OBVIOUS
  <2>. QED
    BY <1>2, <2>1, <2>2, <2>3, UnpackKeepsSound, ThreadedAssumption DEF IInv, OrderInv
<1>11. AllRight(hs)'
  <2>1. Next
    BY DEF Next
  <2>. QED
    BY <1>1, <2>1, RightStays DEF IInv
<1>12. Handed' = hs /\ OnTheWay'
  BY <1>1, <1>3, SameSuperFrames DEF OrderInv
<1>. QED
  BY <1>1, <1>8, <1>9, <1>10, <1>11, <1>12 DEF OrderInv

LEMMA EnqueueKeepsOrder ==
    ASSUME OneSource, StreamWithinReach, RingOutlastsWindow, HolMode => InOrderMode,
           IInv, ClockInv, OrderInv, [Next]_vars,
           NEW k \in DOMAIN mBucketMap, WorkerEnqueue(k)
    PROVE  OrderInv'
<1>1. PICK hs : /\ hs = Handed /\ AllRight(hs) /\ KeepsOrder(hs)
                /\ HolMode => InSequence(hs)
  BY DEF OrderInv
<1>2. DeliverBucket(k) /\ UNCHANGED <<linkVars, assemblyVars>> /\ lTimeNow <= now
  BY DEF WorkerEnqueue, ClockInv
<1>3. PICK d : d = SuperFrame(k)
  OBVIOUS
<1>4. PICK hs2 : hs2 = Append(hs, d)
  OBVIOUS
<1>5. d \in SuperFrameRecord /\ HandedRight(d, {})
  BY <1>3, SuperFrameType, HandedIsSent DEF IInv, OrderInv
<1>6. Handed' = hs2 /\ OnTheWay'
  BY <1>1, <1>3, <1>4, <1>5, EnqueueAppends DEF IInv, OrderInv
<1>7. hs \in Seq(SuperFrameRecord)
  BY <1>1, HandedIs DEF IInv, OrderInv
<1>8. KeepsOrder(hs2)'
  <2>1. PICK base \in Int : Ordered(base, hs)
    BY <1>1 DEF KeepsOrder
  <2>2. Ordered(base, hs2)' /\ (mSuperFrameFirstTime' => NothingYet(hs2)')
    BY <1>1, <1>2, <1>3, <1>4, <1>7, <2>1, DeliverKeepsOrder
       DEF IInv, ClockInv, OrderInv, KeepsOrder
  <2>. QED
    BY <2>2 DEF KeepsOrder
<1>9. HolMode => InSequence(hs2)
  BY <1>1, <1>2, <1>3, <1>4, <1>7, DeliverInSequence DEF IInv, OrderInv
<1>10. AllRight(hs2)'
  <2>1. AllRight(hs2)
    <3>1. \A i \in 1 .. Len(hs2) : hs2[i] = d \/ (i \in 1 .. Len(hs) /\ hs2[i] = hs[i])
      BY <1>4, <1>5, <1>7
    <3>. QED
      BY <1>1, <1>5, <3>1 DEF AllRight
  <2>. QED
    BY <2>1, RightStays DEF IInv
<1>11. LinkInv' /\ PassInOrder'
  BY <1>2, LinkInvStutter, DeliverKeepsPass DEF OrderInv
<1>12. BucketsSound({})'
  BY <1>2, StutterSound DEF linkVars, assemblyVars, OrderInv
<1>. QED
  BY <1>6, <1>8, <1>9, <1>10, <1>11, <1>12 DEF OrderInv

LEMMA OrderInvNext ==
    ASSUME StreamsHaveEntries, OneSource, StreamWithinReach, RingOutlastsWindow,
           HolMode => InOrderMode, IInv, IInv', ClockInv, OrderInv, [Next]_vars
    PROVE  OrderInv'
<1>1. PICK hs : /\ hs = Handed /\ AllRight(hs) /\ KeepsOrder(hs)
                /\ HolMode => InSequence(hs)
  BY DEF OrderInv
<1>2. PICK base \in Int : Ordered(base, hs)
  BY <1>1 DEF KeepsOrder
<1>3. ASSUME Handed' = Handed, OnTheWay', LinkInv', PassInOrder', BucketsSound({})',
             Ordered(base, hs)', mSuperFrameFirstTime' => NothingYet(hs)'
      PROVE  OrderInv'
  <2>1. KeepsOrder(hs)'
    BY <1>3 DEF KeepsOrder
  <2>2. AllRight(hs)'
    BY <1>1, RightStays DEF IInv
  <2>. QED
    BY <1>1, <1>3, <2>1, <2>2 DEF OrderInv
<1>4. ASSUME UNCHANGED assemblyVars
      PROVE  mSuperFrameFirstTime' => NothingYet(hs)'
  BY <1>1, <1>4 DEF KeepsOrder, NothingYet, assemblyVars, counterVars
(* Steps that leave the pass alone, but for its clock. *)
<1>5. ASSUME Handed' = Handed, OnTheWay',
             UNCHANGED <<linkVars, assemblyVars, headVars, lDeleteList, todo>>
      PROVE  OrderInv'
  <2>1. Ordered(base, hs)' /\ LinkInv'
    BY <1>2, <1>5, OrderedStutter, LinkInvStutter DEF OrderInv
  <2>2. PassInOrder'
    BY <1>5 DEF OrderInv, PassInOrder, headVars, assemblyVars
  <2>3. BucketsSound({})'
    BY <1>5, StutterSound DEF OrderInv, linkVars, assemblyVars
  <2>. QED
    BY <1>3, <1>4, <1>5, <2>1, <2>2, <2>3
<1>6. CASE DeliveryTake \/ DeliveryCallback
  <2>1. UNCHANGED <<linkVars, assemblyVars, headVars, lDeleteList, todo>>
    BY <1>6 DEF DeliveryTake, DeliveryCallback, passVars
  <2>. QED
    BY <1>5, <1>6, <2>1, DeliveryMovesOn DEF IInv, OrderInv
<1>7. CASE WorkerLock
  <2>1. workerPc = "sleep" /\ UNCHANGED <<linkVars, assemblyVars>>
        /\ UNCHANGED <<delivered, mSuperFrameQueue, lSuperframe>>
    BY <1>7 DEF WorkerLock, queueVars
  <2>2. Handed' = Handed /\ OnTheWay'
    BY <2>1, SameSuperFrames DEF OrderInv
  <2>3. CASE UNCHANGED passVars
    BY <1>5, <2>1, <2>2, <2>3 DEF passVars
  <2>4. CASE BeginPass(HeadMayBeSet)
    <3>1. PICK may \in BOOLEAN : BeginPass(may)
      <4>1. CASE HeadMayBeSet
        <5>1. BeginPass(TRUE)
          BY <2>4, <4>1 DEF BeginPass
        <5>. QED
          BY <5>1
      <4>2. CASE ~HeadMayBeSet
        <5>1. BeginPass(FALSE)
          BY <2>4, <4>2 DEF BeginPass
        <5>. QED
          BY <5>1
      <4>. QED
        BY <4>1, <4>2
    <3>2. todo = {} /\ lDeleteList = {}
      BY <2>1 DEF IInv, ThreadsInv, mNetMtxFree
    <3>3. Ordered(base, hs)' /\ PassInOrder'
      BY <1>2, <2>1, <3>1, <3>2, BeginKeepsOrder DEF OrderInv
    <3>4. LinkInv' /\ BucketsSound({})'
      BY <2>1, LinkInvStutter, StutterSound DEF OrderInv, linkVars, assemblyVars
    <3>. QED
      BY <1>3, <1>4, <2>1, <2>2, <3>3, <3>4
  <2>. QED
    BY <1>7, <2>3, <2>4 DEF WorkerLock
<1>8. CASE WorkerPassOver
  <2>1. PassOver /\ UNCHANGED <<linkVars, assemblyVars>>
        /\ UNCHANGED <<delivered, mSuperFrameQueue, lSuperframe>>
    BY <1>8 DEF WorkerPassOver, threadVars, queueVars
  <2>2. Handed' = Handed /\ OnTheWay'
    BY <2>1, SameSuperFrames DEF OrderInv
  <2>3. Ordered(base, hs)'
    BY <1>2, <2>1, OrderedStutter DEF PassOver
  <2>4. LinkInv' /\ PassInOrder' /\ BucketsSound({})'
    BY <2>1, LinkInvStutter, PassOverKeepsOrder, StutterSound
       DEF OrderInv, linkVars, assemblyVars
  <2>. QED
    BY <1>3, <1>4, <2>1, <2>2, <2>3, <2>4
<1>9. CASE WorkerClose
  <2>1. CloseDelivered /\ UNCHANGED linkVars
        /\ UNCHANGED <<delivered, mSuperFrameQueue, lSuperframe>>
    BY <1>9 DEF WorkerClose, queueVars
  <2>2. Handed' = Handed /\ OnTheWay'
    BY <2>1, SameSuperFrames DEF OrderInv
  <2>3. Ordered(base, hs)'
    BY <1>2, <2>1, CloseKeepsOrder DEF IInv
  <2>4. LinkInv' /\ PassInOrder'
    BY <2>1, LinkInvStutter, CloseKeepsPass DEF OrderInv
  <2>5. BucketsSound({})'
    BY <2>1, CloseSound DEF OrderInv, linkVars
  <2>6. mSuperFrameFirstTime' => NothingYet(hs)'
    BY <1>1, <2>1, CloseKeepsNothing DEF KeepsOrder
  <2>. QED
    BY <1>3, <2>2, <2>3, <2>4, <2>5, <2>6
<1>10. CASE TimePasses \/ SenderSteps
  <2>1. /\ Send \/ Number \/ (Tick /\ UNCHANGED senderVars)
        /\ UNCHANGED <<assemblyVars, passVars>>
        /\ UNCHANGED <<delivered, mSuperFrameQueue, lSuperframe>>
    BY <1>10 DEF TimePasses, SenderSteps, threadVars, queueVars
  <2>2. UNCHANGED <<headVars, lDeleteList, todo, mBucketMap, mBucketList>>
    BY <2>1 DEF passVars, assemblyVars
  <2>3. Handed' = Handed /\ OnTheWay'
    BY <2>1, SameSuperFrames DEF OrderInv
  <2>4. Ordered(base, hs)'
    BY <1>1, <1>2, <2>1, <2>2, LinkKeepsOrder DEF IInv, OrderInv, KeepsOrder
  <2>5. LinkInv' /\ BucketsSound({})'
    BY <2>1, <2>2, LinkInvNext, SendSound DEF IInv, OrderInv
  <2>6. PassInOrder'
    BY <2>2 DEF OrderInv, PassInOrder, headVars
  <2>. QED
    BY <1>3, <1>4, <2>1, <2>3, <2>4, <2>5, <2>6
<1>11. CASE WorkerSample \/ WorkerNotify \/ WorkerExit \/ DeliveryLoop \/ DeliveryWait
            \/ CallbackLocksMutex \/ SpuriousWakeup \/ StopBegin \/ StopContinues
            \/ StopPolls \/ UNCHANGED vars
  <2>1. /\ UNCHANGED <<linkVars, assemblyVars, headVars, lDeleteList, todo>>
        /\ UNCHANGED <<delivered, mSuperFrameQueue, lSuperframe>>
    BY <1>11 DEF WorkerSample, WorkerNotify, WorkerExit, DeliveryLoop, DeliveryWait,
       CallbackLocksMutex, SpuriousWakeup, StopBegin, StopContinues, StopSignal,
       StopNotify, StopReturns, StopPolls, StopSleeps, StopPoll, Destroy, vars, passVars,
       threadVars, queueVars
  <2>2. Handed' = Handed /\ OnTheWay'
    BY <2>1, SameSuperFrames DEF OrderInv
  <2>. QED
    BY <1>5, <2>1, <2>2
<1>. QED
  BY <1>6, <1>7, <1>8, <1>9, <1>10, <1>11, ReceiveKeepsOrder, EnqueueKeepsOrder
     DEF Next, Worker, Delivery

(***************************************************************************)
(* The refinement.  The channel sees Send offer a packet and the callback  *)
(* hand one over; the queue is inside it.                                  *)
(***************************************************************************)
LEMMA ChannelInit == Init => Channel!Init
<1>. SUFFICES ASSUME Init
              PROVE  Channel!Init
  OBVIOUS
<1>1. \A s \in Sources : sent[s] = <<>>
  BY DEF Init, LinkInit, SenderInit
<1>2. ASSUME NEW s \in Sources
      PROVE  Offered[s] = <<>>
  <2>1. Offered \in [Sources -> Seq(Calls)] /\ Len(Offered[s]) = 0
    BY <1>1, SenderIInvInit, OfferedIs DEF Init, LinkInit
  <2>. QED
    BY <2>1, EmptySeq
<1>3. Offered = [s \in Sources |-> <<>>]
  <2>1. Offered = [s \in Sources |-> Offered[s]]
    BY DEF Offered
  <2>. QED
    BY <1>2, <2>1
<1>4. AllHanded(delivered) = <<>>
  <2>1. delivered = <<>> /\ <<>> \in Seq(SuperFrameRecord)
    BY DEF Init
  <2>. DEFINE H == {AsHanded(d) : d \in SuperFrameRecord}
  <2>2. AllHanded(<<>>) \in Seq(H) /\ Len(AllHanded(<<>>)) = 0
    BY <2>1, AllHandedIs
  <2>. HIDE DEF H
  <2>3. AllHanded(<<>>) = <<>>
    BY <2>2, EmptySeq
  <2>. QED
    BY <2>1, <2>3
<1>. QED
  BY <1>3, <1>4 DEF Channel!Init

LEMMA StutterHandsNothing ==
    ASSUME UNCHANGED sent, UNCHANGED delivered
    PROVE  UNCHANGED Channel!channelVars
<1>1. \A d : AsHanded(d)' = AsHanded(d)
  BY DEF AsHanded, NumberOf, SentAs, PacketIn, BytesIn
<1>2. AllHanded(delivered)' = AllHanded(delivered)
  BY <1>1 DEF AllHanded
<1>3. Offered' = Offered
  BY DEF Offered
<1>. QED
  BY <1>2, <1>3 DEF Channel!channelVars

(* What was delivered keeps its numbers while the stream grows. *)
LEMMA DeliveredStays ==
    ASSUME NumbersSuffice, IInv, IInv', OrderInv, [Next]_vars, UNCHANGED delivered
    PROVE  AllHanded(delivered)' = AllHanded(delivered)
<1>1. ASSUME NEW i \in 1 .. Len(delivered)
      PROVE  AsHanded(delivered[i])' = AsHanded(delivered[i])
  <2>1. PICK d : d = delivered[i]
    OBVIOUS
  <2>2. HandedRight(d, {})
    BY <2>1, HandedIs DEF IInv, OrderInv, AllRight
  <2>3. AsHanded(d)' = AsHanded(d)
    BY <2>2, StreamGrows, HandedStays DEF IInv
  <2>. QED
    BY <2>1, <2>3
<1>. QED
  BY <1>1 DEF AllHanded

LEMMA SendIsOffer ==
    ASSUME NumbersSuffice, IInv, IInv', OrderInv, SenderSteps, Send
    PROVE  Channel!Next
<1>1. PICK s \in Sources, c \in Calls : PackAndSendAccepted(s, c, now)
  BY DEF Send
<1>2. AllHanded(delivered)' = AllHanded(delivered)
  <2>1. Next /\ UNCHANGED delivered
    BY DEF Next, SenderSteps, threadVars
  <2>. QED
    BY <2>1, DeliveredStays
<1>3. Offered' = [Offered EXCEPT ![s] = Append(Offered[s], c)]
  BY <1>1, SendOffers DEF IInv
<1>4. Channel!Offer(s, c)
  BY <1>2, <1>3 DEF Channel!Offer
<1>. QED
  BY <1>4 DEF Channel!Next

LEMMA CallbackIsHand ==
    ASSUME OneSource, StreamWithinReach, RingOutlastsWindow, HolMode => InOrderMode,
           IInv, OrderInv, DeliveryCallback
    PROVE  Channel!Hand
<1>1. PICK ds, hs, d : ds = delivered /\ hs = Handed /\ d = lSuperframe
  OBVIOUS
<1>2. /\ OnTheWay /\ ThreadsInv /\ AllRight(hs) /\ KeepsOrder(hs)
      /\ HolMode => InSequence(hs)
  BY <1>1 DEF OrderInv, IInv
<1>3. lSuperframe # NoSuperFrame
  BY <1>2 DEF DeliveryCallback, InCallback, ThreadsInv
<1>4. d \in SuperFrameRecord /\ ds \in Seq(SuperFrameRecord)
  BY <1>1, <1>2, <1>3 DEF OnTheWay
<1>5. PICK l \in Nat : l = Len(ds)
  BY <1>4
<1>6. /\ hs \in Seq(SuperFrameRecord)
      /\ \A i \in 1 .. l : hs[i] = ds[i]
      /\ l + 1 \in 1 .. Len(hs) /\ hs[l + 1] = d
  BY <1>1, <1>2, <1>3, <1>5, HandedIs
<1>7. PICK h : h = AsHanded(d)
  OBVIOUS
<1>8. PICK s \in Sources : \E n \in 1 .. Len(sent[s]) :
          /\ h.source = s /\ h.n = n
          /\ \/ h.packet = {sent[s][n].call} /\ h.bytes = PacketBytes(s, n)
             \/ h.packet = {} /\ h.bytes \subseteq PacketBytes(s, n)
          /\ \A i \in 1 .. (l + 1) - 1 : AsHanded(hs[i]).n # n
          /\ HolMode /\ n > AsHanded(hs[1]).n =>
                \A i \in 1 .. (l + 1) - 1 : AsHanded(hs[i]).n < n
  BY <1>2, <1>6, <1>7, NextMayBeHanded DEF IInv, AllRight
<1>9. PICK n \in 1 .. Len(sent[s]) :
          /\ h.source = s /\ h.n = n
          /\ \/ h.packet = {sent[s][n].call} /\ h.bytes = PacketBytes(s, n)
             \/ h.packet = {} /\ h.bytes \subseteq PacketBytes(s, n)
          /\ \A i \in 1 .. (l + 1) - 1 : AsHanded(hs[i]).n # n
          /\ HolMode /\ n > AsHanded(hs[1]).n =>
                \A i \in 1 .. (l + 1) - 1 : AsHanded(hs[i]).n < n
  BY <1>8
<1>10. (l + 1) - 1 = l /\ (l > 0 => 1 \in 1 .. l)
  OBVIOUS
<1>. DEFINE H == {AsHanded(e) : e \in SuperFrameRecord}
            old == AllHanded(delivered)
<1>11. /\ old \in Seq(H) /\ Len(old) = l
       /\ \A i \in 1 .. l : old[i] = AsHanded(ds[i])
  BY <1>1, <1>4, <1>5, AllHandedIs
<1>12. \A i \in 1 .. l : old[i] = AsHanded(hs[i])
  BY <1>6, <1>11
<1>13. Len(Offered[s]) = Len(sent[s]) /\ Offered[s][n] = sent[s][n].call
  BY OfferedIs DEF IInv
<1>14. Channel!MayHand(s, n)
  <2>1. ~Channel!WasHanded(s, n)
    BY <1>9, <1>10, <1>11, <1>12 DEF Channel!WasHanded
  <2>2. HolMode => Channel!InItsTurn(s, n)
    <3>. SUFFICES ASSUME HolMode, old # <<>>, old[1].source = s, n > old[1].n,
                         NEW i \in 1 .. Len(old)
                  PROVE  old[i].n < n
      BY DEF Channel!InItsTurn
    <3>1. 1 \in 1 .. l
      BY <1>10, <1>11
    <3>. QED
      BY <1>9, <1>10, <1>11, <1>12, <3>1
  <2>. QED
    BY <1>9, <1>13, <2>1, <2>2 DEF Channel!MayHand
<1>15. Channel!Intact(h) \/ Channel!Broken(h)
  <2>1. Channel!Bytes(s, n) = PacketBytes(s, n)
    BY <1>13 DEF Channel!Bytes, PacketBytes
  <2>. QED
    BY <1>9, <1>13, <2>1 DEF Channel!Intact, Channel!Broken
<1>16. UNCHANGED sent /\ delivered' = Append(ds, d)
  BY <1>1 DEF DeliveryCallback, linkVars, senderVars
<1>17. AllHanded(delivered)' = Append(old, h)
  <2>1. \A e : AsHanded(e)' = AsHanded(e)
    BY <1>16 DEF AsHanded, NumberOf, SentAs, PacketIn, BytesIn
  <2>2. AllHanded(delivered)' = AllHanded(delivered')
    BY <2>1 DEF AllHanded
  <2>3. AllHanded(Append(ds, d)) = Append(AllHanded(ds), h)
    BY <1>4, <1>7, AllHandedAppend
  <2>. QED
    BY <1>1, <1>16, <2>2, <2>3
<1>18. PICK new : new = Append(old, h)
  OBVIOUS
<1>19. h \in H
  BY <1>4, <1>7
<1>. HIDE DEF H
<1>20. DOMAIN new = 1 .. l + 1 /\ DOMAIN old = 1 .. l /\ new[l + 1] = h
  BY <1>11, <1>18, <1>19
<1>21. l + 1 \in DOMAIN new \ DOMAIN old
  BY <1>20
<1>22. Offered' = Offered
  BY <1>16 DEF Offered
<1>. QED
  BY <1>9, <1>14, <1>15, <1>17, <1>18, <1>20, <1>21, <1>22 DEF Channel!Hand

(* The receiving thread, the worker, the queue and deliveryWorker implement*)
(* the FrameChannel: every superframe is handed over at most once, with    *)
(* what its sender put in it, and under HOL in the order of the stream,    *)
(* whatever the interleaving of the threads and wherever a stop finds      *)
(* them, for streams within reach of the ring and of one sender.           *)
THEOREM IsFrameChannelAlways ==
    ASSUME StreamsHaveEntries, OneSource, StreamWithinReach, RingOutlastsWindow,
           HolMode => InOrderMode
    PROVE  Spec => IsFrameChannel
<1>1. NumbersSuffice
  BY Reach DEF NumbersSuffice
<1>2. IInv /\ [Next]_vars => IInv'
  BY IInvNext
<1>3. IInv /\ IInv' /\ ClockInv /\ OrderInv /\ [Next]_vars => OrderInv'
  BY OrderInvNext
<1>4. IInv /\ IInv' /\ OrderInv /\ [Next]_vars
         => [Channel!Next]_(Channel!channelVars)
  <2>. SUFFICES ASSUME IInv, IInv', OrderInv, [Next]_vars
                PROVE  [Channel!Next]_(Channel!channelVars)
    OBVIOUS
  <2>1. CASE DeliveryCallback
    BY <2>1, CallbackIsHand DEF Channel!Next
  <2>2. CASE SenderSteps
    <3>1. CASE Send
      BY <1>1, <2>2, <3>1, SendIsOffer
    <3>2. CASE Number
      <4>1. UNCHANGED sent /\ UNCHANGED delivered
        BY <2>2, <3>2 DEF SenderSteps, Number, SetSuperFrameNo, threadVars
      <4>. QED
        BY <4>1, StutterHandsNothing
    <3>. QED
      BY <2>2, <3>1, <3>2 DEF SenderSteps
  <2>3. ASSUME UNCHANGED sent, UNCHANGED delivered
        PROVE  UNCHANGED Channel!channelVars
    BY <2>3, StutterHandsNothing
  <2>4. ASSUME NEW f, ReceiveFragment(f, f.id[1])
        PROVE  UNCHANGED sent /\ UNCHANGED delivered
    BY <2>4 DEF ReceiveFragment, linkVars, senderVars, threadVars
  <2>5. ASSUME NEW k, WorkerEnqueue(k)
        PROVE  UNCHANGED sent /\ UNCHANGED delivered
    BY <2>5 DEF WorkerEnqueue, linkVars, senderVars
  <2>6. CASE WorkerSample \/ WorkerLock \/ WorkerNotify \/ WorkerPassOver \/ WorkerClose
             \/ WorkerExit \/ DeliveryLoop \/ DeliveryWait \/ DeliveryTake
             \/ CallbackLocksMutex \/ SpuriousWakeup \/ StopBegin \/ StopContinues
             \/ StopPolls \/ TimePasses \/ UNCHANGED vars
    <3>1. UNCHANGED sent /\ UNCHANGED delivered
      BY <2>6 DEF WorkerSample, WorkerLock, WorkerNotify, WorkerPassOver, WorkerClose,
         WorkerExit, DeliveryLoop, DeliveryWait, DeliveryTake, CallbackLocksMutex,
         SpuriousWakeup, StopBegin, StopContinues, StopSignal, StopNotify, StopReturns,
         StopPolls, StopSleeps, StopPoll, Destroy,
         TimePasses, vars, linkVars, senderVars, threadVars
    <3>. QED
      BY <3>1, <2>3
  <2>. QED
    BY <2>1, <2>2, <2>3, <2>4, <2>5, <2>6 DEF Next, Worker, Delivery
<1>. QED
  BY IInvInit, <1>2, ClockInvInit, ClockInvNext, OrderInvInit, <1>3, ChannelInit, <1>4,
     PTL DEF Spec, IsFrameChannel, Channel!Spec
=============================================================================
