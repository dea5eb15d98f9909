--------------------------- MODULE RunToCompletion ---------------------------
(***************************************************************************)
(* Senders, the link and a receiver in mode RUN_TO_COMPLETION: every call  *)
(* of receiveFragment unpacks one fragment and then runs a pass that calls *)
(* the application back, all under mReceiveMtx, so that calls do not       *)
(* overlap; the senders and the clock go on meanwhile.                     *)
(***************************************************************************)
EXTENDS HandedFrames

CONSTANT Noise      \* fragments that no sender of the model made

ASSUME RunToCompletionAssumption ==
    Sources \subseteq Nat /\ \A f \in Noise : IsFragment(f)

VARIABLES
    pc,             \* "idle", or "pass" inside runToCompletionMethod
    lMessage,       \* what the call in progress will return
    delivered       \* the superframes the application was called back with

vars == <<linkVars, assemblyVars, passVars, pc, lMessage, delivered>>

Init ==
    /\ LinkInit /\ AssemblyInit /\ PassInit
    /\ pc = "idle"
    /\ lMessage = "none"
    /\ delivered = <<>>

(* receiveFragment up to the start of the pass, with a fragment of type 1, *)
(* 2 or 3.  One of type 0, of an unknown type or shorter than its header   *)
(* returns here and changes nothing.                                       *)
ReceiveFragment(f, lFromSource) ==
    /\ pc = "idle"
    /\ mSuperFrameFirstTime => MayJoinAt(f)
    /\ \E m \in Messages : Unpack(f, lFromSource, m) /\ lMessage' = m
    /\ pc' = "unpacked"
    /\ UNCHANGED <<linkVars, passVars, delivered>>

(* The pass samples the clock and sets the head speculatively. *)
StartPass ==
    /\ pc = "unpacked"
    /\ lTimeNow' = now
    /\ BeginPass(TRUE)
    /\ pc' = "pass"
    /\ UNCHANGED <<linkVars, assemblyVars, lMessage, delivered>>

DeliverToApplication(k) ==
    /\ pc = "pass"
    /\ DeliverBucket(k)
    /\ delivered' = Append(delivered, SuperFrame(k))
    /\ UNCHANGED <<linkVars, assemblyVars, pc, lMessage>>

VisitNotDue ==
    /\ pc = "pass"
    /\ PassOver
    /\ UNCHANGED <<linkVars, assemblyVars, pc, lMessage, delivered>>

(* The end of runToCompletionMethod and of receiveFragment. *)
Return ==
    /\ pc = "pass"
    /\ CloseDelivered
    /\ lTimeNow' = 0
    /\ pc' = "idle"
    /\ lMessage' = "none"
    /\ UNCHANGED <<linkVars, delivered>>

Environment ==
    /\ Send \/ Number \/ (Tick /\ UNCHANGED senderVars)
    /\ UNCHANGED <<assemblyVars, passVars, pc, lMessage, delivered>>

Next ==
    \/ \E f \in InFlight \cup Noise : ReceiveFragment(f, f.id[1])
    \/ StartPass
    \/ \E k \in DOMAIN mBucketMap : DeliverToApplication(k)
    \/ VisitNotDue
    \/ Return
    \/ Environment

Spec == Init /\ [][Next]_vars

(***************************************************************************)
(* Correctness.                                                            *)
(***************************************************************************)

(* Every variable stays within its type, and a pass that is not running    *)
(* leaves no iterator and no delete list behind.                           *)
TypeOK ==
    /\ SenderTypeOK
    /\ AssemblyTypeOK
    /\ now \in Nat
    /\ mDeliveryHOLFirstRun \in BOOLEAN
    /\ mNextExpectedFrameNumber \in U64
    /\ lTimeNow \in Nat
    /\ todo \cup lDeleteList \subseteq DOMAIN mBucketMap
    /\ pc \in {"idle", "unpacked", "pass"}
    /\ pc # "pass" => todo = {} /\ lDeleteList = {}
    /\ lMessage \in Messages \cup {"none"}

(* A superframe with a fragment that none of the senders made. *)
HoldsNoise(d) == \E c \in d.chunks, f \in Noise : c.id = f.id

(* A superframe marked intact is what one call of packAndSend was given:   *)
(* every byte in its place and no other, its size, both time stamps, the   *)
(* content, the code, the stream and the source, in whatever order the     *)
(* fragments came and however often.  A broken one holds bytes of one      *)
(* packet only, in their places.  Fragments of another origin spoil the    *)
(* superframe they got into and no other.                                  *)
DeliveredIsWhatWasSent ==
    \A i \in 1 .. Len(delivered) : LET d == delivered[i] IN
        \/ HoldsNoise(d)
        \/ \E s \in Sources : \E n \in 1 .. Len(sent[s]) :
              /\ SentAs(d, s, n)
              /\ d.chunks \subseteq ChunksOf(s, n)
              /\ ~d.mBroken => d.chunks = ChunksOf(s, n)
                               /\ PacketIn(d) = sent[s][n].call

Channel ==
    INSTANCE FrameChannel WITH
        Packets <- Calls, InOrder <- HolMode,
        offered <- Offered, handed <- AllHanded(delivered)

(* Fragments, buckets, the head and its time-outs implement a FrameChannel:*)
(* whatever the link loses, repeats or reorders, each packet is handed over*)
(* at most once, late fragments do not bring it back, an intact one is the *)
(* one offered, a broken one holds bytes of that packet only, and with a   *)
(* head-of-line time-out they come in the order of the source, apart from  *)
(* those older than the first one, to which the head was set.              *)
IsFrameChannel == Channel!Spec

(* The 64 bit orders of two delivered superframes are as far apart as the  *)
(* superframes were in the stream, also across the wrap of the 16 bit      *)
(* number and whichever of them came first.                                *)
OrdersFollowTheStream ==
    \A i, j \in 1 .. Len(delivered) : \A s \in Sources :
        \A m, n \in 1 .. Len(sent[s]) :
            SentAs(delivered[i], s, m) /\ SentAs(delivered[j], s, n) =>
                (delivered[i].order - delivered[j].order) % U64Mod = (m - n) % U64Mod

(* When receiveFragment returns, no superframe is left behind that the     *)
(* fragment made deliverable: without HOL no complete one, with HOL not    *)
(* the expected one unless an older bucket stands before it.  Nothing else *)
(* would deliver it until another fragment arrives.                        *)
NothingDueIsKept ==
    pc = "idle" => \A k \in DOMAIN mBucketMap :
        IF HolMode
        THEN ~(k = MinOrder(DOMAIN mBucketMap) /\ ExpectedAndComplete(k)
               /\ ~mDeliveryHOLFirstRun)
        ELSE ~Complete(BucketAt(k))

(* A superframe is given up, that is delivered broken, only when its       *)
(* bucket time-out, and in HOL mode the head-of-line time-out on top, have *)
(* passed since its first fragment.                                        *)
GiveUpAfter == (BucketTimeoutMs + (IF HolMode THEN HolTimeoutMs ELSE 0)) * UsPerMs

NoEarlyGiveUp ==
    \A i \in 1 .. Len(delivered) :
        delivered[i].mBroken => now >= delivered[i].openedAt + GiveUpAfter

(* tooOldFragment is returned only for a superframe that was delivered.    *)
TooOldMeansDelivered ==
    lMessage = "tooOldFragment" =>
        \E i \in 1 .. Len(delivered) :
            delivered[i].mSuperFrameNo = mOldSuperFrameNumber

(***************************************************************************)
(* What the documentation says and the code does not do.                   *)
(***************************************************************************)

(* The head moves forward (README, "moving the head forward in HOL mode"), *)
(* so that no superframe is expected that was already delivered.           *)
HeadPassedDelivered ==
    HolMode => \A i \in 1 .. Len(delivered) :
        delivered[i].order < mNextExpectedFrameNumber

(* The comment in unpackType2: without its type2 fragment a superframe has *)
(* an illegal PTS, DTS and code, "meaning you can't use them".             *)
MissingType2MeansIllegalCode ==
    \A i \in 1 .. Len(delivered) :
        delivered[i].mPts = U64Max => delivered[i].kind.code = "UINT32_MAX"
=============================================================================
