--------------------------- MODULE ThreadedReceiver ---------------------------
(***************************************************************************)
(* Senders, the link and a receiver in mode THREADED.  receiveFragment     *)
(* only unpacks; receiverWorker runs a pass every 10 ms and queues what is *)
(* due; deliveryWorker takes superframes from the queue and calls the      *)
(* application; the destructor, which alone calls stopReceiver, ends both  *)
(* threads and frees the buckets.  The steps of a thread are the code      *)
(* between two points where another thread can see the state: a section    *)
(* under mNetMtx or mSuperFrameMtx, an access to an atomic flag, a         *)
(* notify_one, a callback.                                                 *)
(***************************************************************************)
EXTENDS HandedFrames

CONSTANTS
    WorkerSleep,    \* WORKER_THREAD_SLEEP_US, in clock ticks
    StopIsCalled,   \* is the receiver destroyed at some time
    MaxPolls,       \* polls of stopReceiver before it gives up, 1000
    CallbackLocks   \* may the callback need efp_receive_mutex, which
                    \* efp_end_receive holds around the destructor

ASSUME ThreadedAssumption ==
    /\ WorkerSleep \in Nat /\ MaxPolls \in Nat \ {0} /\ Sources \subseteq Nat
    /\ StopIsCalled \in BOOLEAN /\ CallbackLocks \in BOOLEAN

VARIABLES
    mThreadActive,      \* the threads are to go on
    workerPc,           \* where receiverWorker is
    deliveryPc,         \* where deliveryWorker is
    stopPc,             \* where the destructor is
    lLockProtect,       \* the polls stopReceiver has left
    mSuperFrameQueue,   \* superframes on their way to deliveryWorker
    mSuperFrameReady,   \* the condition deliveryWorker waits for
    lSuperframe,        \* the superframe deliveryWorker took, if any
    delivered           \* the superframes the application was called back with

queueVars == <<mSuperFrameQueue, mSuperFrameReady>>
stopVars == <<stopPc, lLockProtect>>
threadVars == <<mThreadActive, workerPc, deliveryPc, stopVars, queueVars,
                lSuperframe, delivered>>
vars == <<linkVars, assemblyVars, passVars, threadVars>>

NoSuperFrame == <<>>

Init ==
    /\ LinkInit /\ AssemblyInit /\ PassInit
    /\ mThreadActive = TRUE
    /\ workerPc = "top" /\ deliveryPc = "top"
    /\ stopPc = "none" /\ lLockProtect = MaxPolls
    /\ mSuperFrameQueue = <<>>
    /\ mSuperFrameReady = FALSE
    /\ lSuperframe = NoSuperFrame
    /\ delivered = <<>>

mIsWorkerThreadActive == workerPc # "exited"
mIsDeliveryThreadActive == deliveryPc # "exited"

mNetMtxFree == workerPc \notin {"pass", "notify"}

(***************************************************************************)
(* receiveFragment.  receiverNotRunning, a fragment of type 0, one of an   *)
(* unknown type and one shorter than its header change nothing.  A caller  *)
(* that destroys the receiver calls it no more; in the C API               *)
(* efp_receive_mutex sees to that.                                         *)
(***************************************************************************)
ReceiveFragment(f, lFromSource) ==
    /\ stopPc = "none" /\ mNetMtxFree
    /\ mIsWorkerThreadActive /\ mIsDeliveryThreadActive
    /\ mSuperFrameFirstTime => MayJoinAt(f)
    /\ \E m \in Messages : Unpack(f, lFromSource, m)
    /\ UNCHANGED <<linkVars, passVars, threadVars>>

(***************************************************************************)
(* receiverWorker.  The time a pass works with is the time it planned to   *)
(* wake up at, lTimeSample + lTimeCompensation, or the time of the sample  *)
(* when it is late; either lies up to WorkerSleep after the sample, and    *)
(* the pass itself at or after it.                                         *)
(***************************************************************************)
WorkerSample ==
    /\ workerPc = "top" /\ mThreadActive
    /\ \E lTimeCompensation \in 0 .. WorkerSleep :
          /\ now + lTimeCompensation <= MaxNow      \* bound
          /\ lTimeNow' = now + lTimeCompensation
    /\ workerPc' = "sleep"
    /\ UNCHANGED <<linkVars, assemblyVars, headVars, todo, lDeleteList,
                   mThreadActive, deliveryPc, stopVars, queueVars, lSuperframe,
                   delivered>>

(* A head that waits for a second superframe for ever. *)
HeadNeedsTwo == Cardinality(DOMAIN mBucketMap) > 1

(* The head is set once there is something to compare it with. *)
HeadMayBeSet ==
    \/ Cardinality(DOMAIN mBucketMap) > 1
    \/ \E k \in DOMAIN mBucketMap : TimedOut(k)

WorkerLock ==
    /\ workerPc = "sleep" /\ now >= lTimeNow
    /\ IF DOMAIN mBucketMap = {}
       THEN workerPc' = "top" /\ UNCHANGED passVars
       ELSE workerPc' = "pass" /\ BeginPass(HeadMayBeSet) /\ UNCHANGED lTimeNow
    /\ UNCHANGED <<linkVars, assemblyVars, mThreadActive, deliveryPc, stopVars,
                   queueVars, lSuperframe, delivered>>

(* A queue that is filled from the wrong end. *)
WorkerEnqueueInFront(k) ==
    /\ workerPc = "pass"
    /\ DeliverBucket(k)
    /\ mSuperFrameQueue' = <<SuperFrame(k)>> \o mSuperFrameQueue
    /\ mSuperFrameReady' = TRUE
    /\ workerPc' = "notify"
    /\ UNCHANGED <<linkVars, assemblyVars, mThreadActive, deliveryPc, stopVars,
                   lSuperframe, delivered>>

WorkerEnqueue(k) ==
    /\ workerPc = "pass"
    /\ DeliverBucket(k)
    /\ mSuperFrameQueue' = Append(mSuperFrameQueue, SuperFrame(k))
    /\ mSuperFrameReady' = TRUE
    /\ workerPc' = "notify"
    /\ UNCHANGED <<linkVars, assemblyVars, mThreadActive, deliveryPc, stopVars,
                   lSuperframe, delivered>>

(* A notification that reaches nobody. *)
NotifyNobody == UNCHANGED deliveryPc

(* notify_one reaches deliveryWorker only if it is waiting by now. *)
NotifyOne == deliveryPc' = IF deliveryPc = "wait" THEN "lock" ELSE deliveryPc

WorkerNotify ==
    /\ workerPc = "notify"
    /\ NotifyOne
    /\ workerPc' = "pass"
    /\ UNCHANGED <<linkVars, assemblyVars, passVars, mThreadActive, stopVars,
                   queueVars, lSuperframe, delivered>>

WorkerPassOver ==
    /\ workerPc = "pass"
    /\ PassOver
    /\ UNCHANGED <<linkVars, assemblyVars, threadVars>>

WorkerClose ==
    /\ workerPc = "pass"
    /\ CloseDelivered
    /\ UNCHANGED lTimeNow
    /\ workerPc' = "top"
    /\ UNCHANGED <<linkVars, mThreadActive, deliveryPc, stopVars, queueVars,
                   lSuperframe, delivered>>

WorkerExit ==
    /\ workerPc = "top" /\ ~mThreadActive
    /\ workerPc' = "exited"
    /\ UNCHANGED <<linkVars, assemblyVars, passVars, mThreadActive, deliveryPc,
                   stopVars, queueVars, lSuperframe, delivered>>

(* What a thread does with a receiver that was freed under it is undefined,*)
(* and not followed.                                                       *)
ReceiverExists == stopPc # "destroyed"

Worker ==
    /\ ReceiverExists
    /\ \/ WorkerSample \/ WorkerLock \/ WorkerNotify \/ WorkerPassOver
       \/ \E k \in DOMAIN mBucketMap : WorkerEnqueue(k)
       \/ WorkerClose \/ WorkerExit

(***************************************************************************)
(* deliveryWorker.                                                         *)
(***************************************************************************)
(* A thread that empties the queue before it ends. *)
DeliveryLoopDrains ==
    /\ deliveryPc = "top"
    /\ deliveryPc' = IF mThreadActive \/ mSuperFrameQueue # <<>> THEN "lock" ELSE "exited"
    /\ UNCHANGED <<linkVars, assemblyVars, passVars, mThreadActive, workerPc,
                   stopVars, queueVars, lSuperframe, delivered>>

DeliveryLoop ==
    /\ deliveryPc = "top"
    /\ deliveryPc' = IF mThreadActive THEN "lock" ELSE "exited"
    /\ UNCHANGED <<linkVars, assemblyVars, passVars, mThreadActive, workerPc,
                   stopVars, queueVars, lSuperframe, delivered>>

(* The predicate is tested and the wait begun under mSuperFrameMtx. *)
DeliveryWait ==
    /\ deliveryPc = "lock" /\ ~mSuperFrameReady
    /\ deliveryPc' = "wait"
    /\ UNCHANGED <<linkVars, assemblyVars, passVars, mThreadActive, workerPc,
                   stopVars, queueVars, lSuperframe, delivered>>

(* A semaphore that is closed after each superframe. *)
DeliveryTakeAndClose ==
    /\ deliveryPc = "lock" /\ mSuperFrameReady
    /\ IF mSuperFrameQueue = <<>>
       THEN /\ deliveryPc' = "top"
            /\ UNCHANGED <<mSuperFrameQueue, lSuperframe>>
       ELSE /\ deliveryPc' = "callback"
            /\ lSuperframe' = Head(mSuperFrameQueue)
            /\ mSuperFrameQueue' = Tail(mSuperFrameQueue)
    /\ mSuperFrameReady' = FALSE
    /\ UNCHANGED <<linkVars, assemblyVars, passVars, mThreadActive, workerPc,
                   stopVars, delivered>>

DeliveryTake ==
    /\ deliveryPc = "lock" /\ mSuperFrameReady
    /\ IF mSuperFrameQueue = <<>>
       THEN /\ deliveryPc' = "top"
            /\ UNCHANGED <<mSuperFrameQueue, lSuperframe>>
       ELSE /\ deliveryPc' = "callback"
            /\ lSuperframe' = Head(mSuperFrameQueue)
            /\ mSuperFrameQueue' = Tail(mSuperFrameQueue)
    /\ mSuperFrameReady' = (mSuperFrameQueue' # <<>>)
    /\ UNCHANGED <<linkVars, assemblyVars, passVars, mThreadActive, workerPc,
                   stopVars, delivered>>

(* Inside the callback, or in it waiting for efp_receive_mutex. *)
InCallback == deliveryPc \in {"callback", "locking"}

(* A callback may call a function of the C API that takes that mutex. *)
CallbackLocksMutex ==
    /\ CallbackLocks /\ deliveryPc = "callback"
    /\ deliveryPc' = "locking"
    /\ UNCHANGED <<linkVars, assemblyVars, passVars, mThreadActive, workerPc,
                   stopVars, queueVars, lSuperframe, delivered>>

(* A superframe whose ownership is not dropped after the callback. *)
DeliveryCallbackKeeps ==
    /\ InCallback
    /\ deliveryPc = "locking" => stopPc = "none"
    /\ delivered' = Append(delivered, lSuperframe)
    /\ deliveryPc' = "top"
    /\ UNCHANGED <<linkVars, assemblyVars, passVars, mThreadActive, workerPc,
                   stopVars, queueVars, lSuperframe>>

(* The callback returns; one that waits for efp_receive_mutex cannot while *)
(* efp_end_receive destroys the receiver.                                  *)
DeliveryCallback ==
    /\ InCallback
    /\ deliveryPc = "locking" => stopPc = "none"
    /\ delivered' = Append(delivered, lSuperframe)
    /\ lSuperframe' = NoSuperFrame
    /\ deliveryPc' = "top"
    /\ UNCHANGED <<linkVars, assemblyVars, passVars, mThreadActive, workerPc,
                   stopVars, queueVars>>

Delivery ==
    /\ ReceiverExists
    /\ \/ DeliveryLoop \/ DeliveryWait \/ DeliveryTake
       \/ CallbackLocksMutex \/ DeliveryCallback

(* A condition variable may wake a thread that nobody notified. *)
SpuriousWakeup ==
    /\ deliveryPc = "wait"
    /\ deliveryPc' = "lock"
    /\ UNCHANGED <<linkVars, assemblyVars, passVars, mThreadActive, workerPc,
                   stopVars, queueVars, lSuperframe, delivered>>

(***************************************************************************)
(* The destructor, called by the application or by efp_end_receive:        *)
(* stopReceiver, and then delete[] of mBucketList.                         *)
(***************************************************************************)
StopBegin ==
    /\ StopIsCalled /\ stopPc = "none"
    /\ mThreadActive' = FALSE
    /\ stopPc' = "cleared"
    /\ UNCHANGED <<linkVars, assemblyVars, passVars, workerPc, deliveryPc,
                   lLockProtect, queueVars, lSuperframe, delivered>>

(* A stop that notifies without setting the condition. *)
StopSignalUnset ==
    /\ stopPc = "cleared"
    /\ stopPc' = "signalled"
    /\ UNCHANGED <<linkVars, assemblyVars, passVars, mThreadActive, workerPc,
                   deliveryPc, lLockProtect, queueVars, lSuperframe, delivered>>

StopSignal ==
    /\ stopPc = "cleared"
    /\ mSuperFrameReady' = TRUE
    /\ stopPc' = "signalled"
    /\ UNCHANGED <<linkVars, assemblyVars, passVars, mThreadActive, workerPc,
                   deliveryPc, lLockProtect, mSuperFrameQueue, lSuperframe, delivered>>

StopNotify ==
    /\ stopPc = "signalled"
    /\ NotifyOne
    /\ stopPc' = "polling"
    /\ UNCHANGED <<linkVars, assemblyVars, passVars, mThreadActive, workerPc,
                   lLockProtect, queueVars, lSuperframe, delivered>>

StopReturns ==
    /\ stopPc = "polling"
    /\ ~mIsWorkerThreadActive /\ ~mIsDeliveryThreadActive
    /\ stopPc' = "stopped"
    /\ UNCHANGED <<linkVars, assemblyVars, passVars, mThreadActive, workerPc,
                   deliveryPc, lLockProtect, queueVars, lSuperframe, delivered>>

StopSleeps ==
    /\ stopPc = "polling"
    /\ mIsWorkerThreadActive \/ mIsDeliveryThreadActive
    /\ stopPc' = "asleep"
    /\ UNCHANGED <<linkVars, assemblyVars, passVars, mThreadActive, workerPc,
                   deliveryPc, lLockProtect, queueVars, lSuperframe, delivered>>

(* The sleep of a millisecond or more is over.  After the last one it is   *)
(* failedStoppingReceiver, whatever the threads did or do meanwhile.       *)
StopPoll ==
    /\ stopPc = "asleep"
    /\ lLockProtect' = lLockProtect - 1
    /\ stopPc' = IF lLockProtect' = 0 THEN "gaveUp" ELSE "polling"
    /\ UNCHANGED <<linkVars, assemblyVars, passVars, mThreadActive, workerPc,
                   deliveryPc, queueVars, lSuperframe, delivered>>

(* Whatever stopReceiver returned, the buckets are freed. *)
Destroy ==
    /\ stopPc \in {"stopped", "gaveUp"}
    /\ stopPc' = "destroyed"
    /\ UNCHANGED <<linkVars, assemblyVars, passVars, mThreadActive, workerPc,
                   deliveryPc, lLockProtect, queueVars, lSuperframe, delivered>>

StopPolls == StopSleeps \/ StopPoll
StopContinues == StopSignal \/ StopNotify \/ StopReturns \/ Destroy

(***************************************************************************)
(* The specification.                                                      *)
(***************************************************************************)
TimePasses ==
    /\ Tick
    /\ UNCHANGED <<senderVars, assemblyVars, passVars, threadVars>>

SenderSteps ==
    /\ Send \/ Number
    /\ UNCHANGED <<assemblyVars, passVars, threadVars>>

Next ==
    \/ \E f \in InFlight : ReceiveFragment(f, f.id[1])
    \/ Worker
    \/ Delivery \/ SpuriousWakeup
    \/ StopBegin \/ StopContinues \/ StopPolls
    \/ TimePasses
    \/ SenderSteps

Spec == Init /\ [][Next]_vars

(***************************************************************************)
(* The two threads are scheduled, the clock goes on, a callback returns    *)
(* unless it has to wait for efp_receive_mutex, and a destructor that has  *)
(* begun goes on.  Nothing is assumed of the link, the senders, spurious   *)
(* wake-ups, of whether the receiver is destroyed, and of what the threads *)
(* get done between two polls.  The polls need not go on either: what must *)
(* happen does not rest on their limit.                                    *)
(***************************************************************************)
Fairness ==
    /\ WF_vars(Worker) /\ WF_vars(Delivery)
    /\ WF_vars(TimePasses)
    /\ WF_vars(StopContinues)

FairSpec == Spec /\ Fairness

(***************************************************************************)
(* Correctness.                                                            *)
(***************************************************************************)

(* The threads' variables stay within their types; an iterator or a delete *)
(* list exists only inside a pass and names active buckets.                *)
TypeOK ==
    /\ AssemblyTypeOK
    /\ mThreadActive \in BOOLEAN /\ mSuperFrameReady \in BOOLEAN
    /\ workerPc \in {"top", "sleep", "pass", "notify", "exited"}
    /\ deliveryPc \in {"top", "lock", "wait", "callback", "locking", "exited"}
    /\ stopPc \in {"none", "cleared", "signalled", "polling", "asleep", "stopped",
                   "gaveUp", "destroyed"}
    /\ lLockProtect \in 0 .. MaxPolls
    /\ todo \cup lDeleteList \subseteq DOMAIN mBucketMap
    /\ mNetMtxFree => todo = {} /\ lDeleteList = {}
    /\ InCallback <=> lSuperframe # NoSuperFrame

(* mSuperFrameReady is set whenever the queue holds a superframe:          *)
(* deliveryWorker, which tests only the flag, never waits over a superframe*)
(* that is there to be taken.                                              *)
ReadyWhileQueued == mSuperFrameQueue # <<>> => mSuperFrameReady

(* deliveryWorker never waits while mSuperFrameReady is set, unless the    *)
(* thread that set it has its notify_one still to do: no wake-up is lost   *)
(* between the test of the flag and the wait.                              *)
NoLostWakeup ==
    deliveryPc = "wait" /\ mSuperFrameReady =>
        workerPc = "notify" \/ stopPc = "signalled"

(* Once stopReceiver has notified the condition variable, deliveryWorker   *)
(* never waits again: whatever it was doing it finds mSuperFrameReady set  *)
(* or mThreadActive cleared, so that it cannot sleep through the stop.     *)
NoSleepThroughStop ==
    stopPc \in {"polling", "asleep", "stopped", "gaveUp", "destroyed"} =>
        deliveryPc # "wait"

(* stopReceiver has at most one callback to wait for: the one in progress  *)
(* once mThreadActive is cleared is the last, however many superframes are *)
(* left in the queue, so that their number does not use up its polls.      *)
OneCallbackIsLeft ==
    [](~mThreadActive /\ InCallback => [](~InCallback => []~InCallback))

(* "If our worker is active we need to stop it": when the destructor frees *)
(* mBucketList and the members, deliveryWorker is in no callback, from     *)
(* which it would come back to them.                                       *)
NoCallbackOutlives == stopPc = "destroyed" => ~InCallback

(* The superframes handed over and those on their way, in order. *)
Handed ==
    delivered \o (IF lSuperframe = NoSuperFrame THEN <<>> ELSE <<lSuperframe>>)
              \o mSuperFrameQueue

Channel ==
    INSTANCE FrameChannel WITH
        Packets <- Calls, InOrder <- HolMode,
        offered <- Offered, handed <- AllHanded(delivered)

(* The receiving thread, the worker, the queue and deliveryWorker together *)
(* implement the same FrameChannel as the run-to-completion receiver: what *)
(* passes through the queue is neither repeated nor overtaken nor changed, *)
(* and nothing the worker does to a bucket reaches a superframe handed on. *)
IsFrameChannel == Channel!Spec

(* A superframe is handed over broken only when its time-outs have passed, *)
(* although the worker compares them with a time sampled before it waited  *)
(* for mNetMtx.                                                            *)
GiveUpAfter == (BucketTimeoutMs + (IF HolMode THEN HolTimeoutMs ELSE 0)) * UsPerMs

NoEarlyGiveUp ==
    \A i \in 1 .. Len(Handed) :
        Handed[i].mBroken => now >= Handed[i].openedAt + GiveUpAfter

(* Every superframe of which a fragment was accepted reaches the           *)
(* application, complete or broken, unless the receiver is stopped.        *)
HasBucket(n) ==
    \E s \in Sources : n <= Len(sent[s]) /\
        \E k \in DOMAIN mBucketMap : BucketAt(k).mSavedSuperFrameNo = sent[s][n].sfn

IsDelivered(n) ==
    \E s \in Sources : n <= Len(sent[s]) /\
        \E i \in 1 .. Len(delivered) : delivered[i].mSuperFrameNo = sent[s][n].sfn

AcceptedIsDelivered ==
    \A n \in 1 .. MaxFrames : HasBucket(n) ~> (IsDelivered(n) \/ ~mThreadActive)

(* Both threads end of their own once the destructor has begun, without    *)
(* the limit of the polls: unless it is reached first, receiverWorker      *)
(* leaves its loop, and deliveryWorker its wait, its callback and its loop,*)
(* but for a callback that waits for efp_receive_mutex.                    *)
GivenUp == stopPc \in {"gaveUp", "destroyed"}

ThreadsEnd ==
    /\ ~mThreadActive ~> ~mIsWorkerThreadActive \/ GivenUp
    /\ ~mThreadActive ~> ~mIsDeliveryThreadActive \/ deliveryPc = "locking" \/ GivenUp
=============================================================================
