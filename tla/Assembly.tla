------------------------------- MODULE Assembly -------------------------------
(***************************************************************************)
(* The receiver's bucket list: unpackType1, unpackType2 and unpackType3    *)
(* place a fragment into the bucket of its superframe, a slot of a ring    *)
(* indexed by the low bits of the superframe number, and open, refuse or   *)
(* drop the bucket.  mBucketMap orders the active buckets for delivery.    *)
(*                                                                         *)
(* The three methods differ in where a fragment's position and the sizes   *)
(* come from and are otherwise the same code, so they are modelled as one  *)
(* operation with those differences as operators.                          *)
(***************************************************************************)
EXTENDS SuperFrameCounter, Clock, Contents, FiniteSets

CONSTANTS
    RingSize,           \* CIRCULAR_BUFFER_SIZE + 1
    NStreams,           \* entries of mStreams
    BucketTimeoutMs,    \* mBucketTimeoutms
    UsPerMs,            \* clock ticks per millisecond, 1000 in the code
    AllocMayFail        \* may posix_memalign fail

ASSUME AssemblyAssumption ==
    /\ RingSize \in Nat \ {0} /\ U16Mod % RingSize = 0
    /\ NStreams \in Nat /\ BucketTimeoutMs \in Nat /\ UsPerMs \in Nat
    /\ AllocMayFail \in BOOLEAN

VARIABLES
    mBucketList,    \* the ring of buckets
    mBucketMap,     \* mDeliveryOrder of each active bucket |-> its slot
    mStreams        \* the content and code last seen on each stream

assemblyVars == <<counterVars, mBucketList, mBucketMap, mStreams>>

Slots == 0 .. RingSize - 1
Slot(lSuperFrameNo) == lSuperFrameNo % RingSize

(***************************************************************************)
(* A bucket.  data stands for mBucketData: frameSize is mFrameSize, cap    *)
(* the bytes allocated, and chunks tells for each write of the superframe  *)
(* which bytes of which packet were put where.  The code leaves the fields *)
(* of a closed bucket as they are, but reads none of them except           *)
(* mDeliveryOrder before it sets them again, so the model forgets them.    *)
(* openedAt is a history variable.                                         *)
(***************************************************************************)
NoData == [frameSize |-> 0, cap |-> 0, chunks |-> {}]

ClosedBucket(order) ==
    [mActive |-> FALSE, mDeliveryOrder |-> order, mSavedSuperFrameNo |-> 0,
     mTimeout |-> 0, mFragmentCounter |-> 0, mOfFragmentNo |-> 0,
     mFragmentSize |-> 0, mHaveReceivedFragment |-> {}, mPts |-> U64Max,
     mDts |-> U64Max, kind |-> Unknown, mStream |-> 0, mSource |-> 0,
     data |-> NoData, openedAt |-> 0]

AssemblyInit ==
    /\ CounterInit
    /\ mBucketList = [s \in Slots |-> ClosedBucket(U64Max)]
    /\ mBucketMap = [k \in {} |-> 0]
    /\ mStreams = [s \in 0 .. NStreams - 1 |-> Unknown]

Complete(b) == b.mFragmentCounter = b.mOfFragmentNo

(***************************************************************************)
(* What the three fragment types say about themselves.  A type3 fragment   *)
(* is the one before the last, and a type2 fragment the last.              *)
(***************************************************************************)
IsFragment(f) ==
    /\ f.type \in 1 .. 3 /\ f.sfn \in U16 /\ f.stream \in 0 .. NStreams - 1
    /\ f.frag \in Nat /\ f.of \in Nat /\ f.off \in Nat /\ f.len \in Nat
    /\ f.id \in Nat \X Nat
    /\ f.type \in 2 .. 3 => f.type1PacketSize \in Nat /\ f.frag <= f.of
    /\ f.type = 2 => /\ f.pts \in U64 /\ f.dtsPtsDiff \in Nat
                     /\ f.content \in Contents /\ f.code \in Codes

Payload(f) == [content |-> f.content, code |-> f.code]

(* hDtsPtsDiff back to a decode time stamp. *)
Dts(f) == IF f.dtsPtsDiff = U32Max THEN U64Max
                                   ELSE (f.pts - f.dtsPtsDiff) % U64Mod

FragmentSize(f) == IF f.type = 1 THEN f.len ELSE f.type1PacketSize

(* lInsertDataPointer *)
InsertAt(f, fragmentSize) == fragmentSize * f.frag

(* A type1 fragment that reserves no room for the last fragment. *)
ReserveWithoutTail(f) ==
    IF f.type = 1 THEN FragmentSize(f) * f.of
                  ELSE FragmentSize(f) * f.frag + f.len

(* The size a bucket is allocated with, by the type of its first fragment. *)
ReserveThis(f) ==
    IF f.type = 1 THEN FragmentSize(f) * (f.of + 1)
                  ELSE FragmentSize(f) * f.frag + f.len

(* mFrameSize after the first fragment: type1 does not know the tail yet. *)
FrameSizeOnOpen(f) ==
    IF f.type = 1 THEN FragmentSize(f) * f.of ELSE ReserveThis(f)

(* A type3 fragment that leaves mFrameSize to the type2 fragment. *)
FrameSizeOnAcceptType2Only(b, f) ==
    IF f.type = 2 /\ f.len # 0 THEN b.mFragmentSize * f.frag + f.len
                               ELSE b.data.frameSize

(* mFrameSize after a later fragment: types 2 and 3 end the superframe. *)
FrameSizeOnAccept(b, f) ==
    IF f.type = 3 \/ (f.type = 2 /\ f.len # 0)
    THEN b.mFragmentSize * f.frag + f.len
    ELSE b.data.frameSize

(* std::copy_n of the fragment's bytes to position at; a copy of no bytes  *)
(* leaves no trace.                                                        *)
Chunks(f, at) ==
    IF f.len = 0 THEN {}
    ELSE {[at |-> at, off |-> f.off, len |-> f.len, id |-> f.id]}

(* A bucket that is due as soon as it is opened. *)
NoBucketTimeout == 0

(* mBucketTimeoutms * 1000 is computed in uint32_t. *)
BucketTimeout == (BucketTimeoutMs * UsPerMs) % U32Mod

(***************************************************************************)
(* mBucketMap.                                                             *)
(***************************************************************************)
MapInsert(order, slot) ==
    [k \in DOMAIN mBucketMap \cup {order} |->
        IF k = order THEN slot ELSE mBucketMap[k]]

MapErase(orders) == [k \in DOMAIN mBucketMap \ orders |-> mBucketMap[k]]

(***************************************************************************)
(* The ways through unpackType1, unpackType2 and unpackType3.              *)
(***************************************************************************)

(* The bucket that the first fragment of a superframe opens. *)
OpenedBucket(f, lFromSource, order, streams) ==
    [mActive |-> TRUE, mDeliveryOrder |-> order, mSavedSuperFrameNo |-> f.sfn,
     mTimeout |-> now + BucketTimeout, mFragmentCounter |-> 0,
     mOfFragmentNo |-> f.of, mFragmentSize |-> FragmentSize(f),
     mHaveReceivedFragment |-> {f.frag},
     mPts |-> IF f.type = 2 THEN f.pts ELSE U64Max,
     mDts |-> IF f.type = 2 THEN Dts(f) ELSE U64Max,
     kind |-> streams[f.stream], mStream |-> f.stream, mSource |-> lFromSource,
     data |-> [frameSize |-> FrameSizeOnOpen(f), cap |-> ReserveThis(f),
               chunks |-> Chunks(f, InsertAt(f, FragmentSize(f)))],
     openedAt |-> now]

(* The bucket after a further fragment. *)
ExtendedBucket(b, f, streams) ==
    [b EXCEPT
        !.mHaveReceivedFragment = @ \cup {f.frag},
        !.mFragmentCounter = @ + 1,
        !.mPts = IF f.type = 2 THEN f.pts ELSE @,
        !.mDts = IF f.type = 2 THEN Dts(f) ELSE @,
        !.kind = IF f.type = 2 THEN streams[f.stream] ELSE @,
        !.mStream = IF f.type = 2 THEN f.stream ELSE @,
        !.data = [frameSize |-> FrameSizeOnAccept(b, f), cap |-> @.cap,
                  chunks |-> @.chunks \cup
                      Chunks(f, InsertAt(f, IF f.type = 2 THEN f.type1PacketSize
                                                          ELSE b.mFragmentSize))]]

(* A type2 fragment updates the stream table. *)
StreamsAfter(f) ==
    IF f.type = 2 THEN [mStreams EXCEPT ![f.stream] = Payload(f)] ELSE mStreams

(* A type2 fragment shorter than its header says. *)
Truncated(f) == f.type = 2 /\ f.bytes < f.len

Bucket(f) == mBucketList[Slot(f.sfn)]

(* Every order below the bucket's last one taken for a delivered one. *)
OlderFragment(f) ==
    /\ ~Bucket(f).mActive
    /\ DeliveryOrderCandidate(f.sfn) <= Bucket(f).mDeliveryOrder
    /\ SuperFrameRecalculator(f.sfn)
    /\ UNCHANGED <<mBucketList, mBucketMap, mStreams>>

(* The superframe was delivered already, by its delivery order. *)
TooOldFragment(f) ==
    /\ ~Bucket(f).mActive
    /\ DeliveryOrderCandidate(f.sfn) = Bucket(f).mDeliveryOrder
    /\ SuperFrameRecalculator(f.sfn)
    /\ UNCHANGED <<mBucketList, mBucketMap, mStreams>>

(* A closed bucket that is opened again for the superframe it held. *)
MayOpenAgain(f) == ~Bucket(f).mActive

(* The checks that every first fragment of a superframe passes. *)
MayOpen(f) ==
    /\ ~Bucket(f).mActive
    /\ DeliveryOrderCandidate(f.sfn) # Bucket(f).mDeliveryOrder

OpenBucket(f, lFromSource) ==
    LET order == DeliveryOrderCandidate(f.sfn)
    IN  /\ MayOpen(f)
        /\ f.type = 1 => f.frag <= f.of
        /\ SuperFrameRecalculator(f.sfn)
        /\ mStreams' = StreamsAfter(f)
        /\ mBucketList' = [mBucketList EXCEPT
               ![Slot(f.sfn)] = OpenedBucket(f, lFromSource, order, StreamsAfter(f))]
        /\ mBucketMap' = MapInsert(order, Slot(f.sfn))

(* A bucket closed again that stays in the map. *)
OpenAndCloseKeepsEntry(f) ==
    LET order == DeliveryOrderCandidate(f.sfn)
    IN  /\ MayOpen(f)
        /\ SuperFrameRecalculator(f.sfn)
        /\ mStreams' = StreamsAfter(f)
        /\ mBucketList' = [mBucketList EXCEPT ![Slot(f.sfn)] = ClosedBucket(order)]
        /\ mBucketMap' = MapInsert(order, Slot(f.sfn))

(* The bucket is opened, found unusable, and closed again. *)
OpenAndClose(f) ==
    LET order == DeliveryOrderCandidate(f.sfn)
    IN  /\ MayOpen(f)
        /\ SuperFrameRecalculator(f.sfn)
        /\ mStreams' = StreamsAfter(f)
        /\ mBucketList' = [mBucketList EXCEPT ![Slot(f.sfn)] = ClosedBucket(order)]
        /\ mBucketMap' = MapErase({order})

OpenWithoutMemory(f) == AllocMayFail /\ OpenAndClose(f)

OpenOutOfBounds(f) == f.type = 1 /\ f.frag > f.of /\ OpenAndClose(f)

(* The slot still holds another superframe, a ring's length away. *)
OutOfResources(f) ==
    /\ Bucket(f).mActive
    /\ Bucket(f).mSavedSuperFrameNo # f.sfn
    /\ UNCHANGED assemblyVars

(* A position that is not compared with the bucket's last one. *)
FitsAnywhere(f) ==
    /\ Bucket(f).mActive
    /\ Bucket(f).mSavedSuperFrameNo = f.sfn

Fits(f) ==
    /\ Bucket(f).mActive
    /\ Bucket(f).mSavedSuperFrameNo = f.sfn
    /\ f.frag <= Bucket(f).mOfFragmentNo
    /\ f.of = Bucket(f).mOfFragmentNo

(* A bucket given up that stays in the map. *)
OutOfBoundsKeepsEntry(f) ==
    /\ Bucket(f).mActive
    /\ Bucket(f).mSavedSuperFrameNo = f.sfn
    /\ f.frag > Bucket(f).mOfFragmentNo \/ f.of # Bucket(f).mOfFragmentNo
    /\ mBucketList' = [mBucketList EXCEPT
           ![Slot(f.sfn)] = ClosedBucket(@.mDeliveryOrder)]
    /\ UNCHANGED <<counterVars, mStreams, mBucketMap>>

(* The fragment disagrees with the bucket, which is given up. *)
OutOfBounds(f) ==
    /\ Bucket(f).mActive
    /\ Bucket(f).mSavedSuperFrameNo = f.sfn
    /\ f.frag > Bucket(f).mOfFragmentNo \/ f.of # Bucket(f).mOfFragmentNo
    /\ mBucketList' = [mBucketList EXCEPT
           ![Slot(f.sfn)] = ClosedBucket(@.mDeliveryOrder)]
    /\ mBucketMap' = MapErase({Bucket(f).mDeliveryOrder})
    /\ UNCHANGED <<counterVars, mStreams>>

DuplicatePacket(f) ==
    /\ Fits(f)
    /\ f.frag \in Bucket(f).mHaveReceivedFragment
    /\ UNCHANGED assemblyVars

AcceptFragment(f) ==
    /\ Fits(f)
    /\ f.frag \notin Bucket(f).mHaveReceivedFragment
    /\ mStreams' = StreamsAfter(f)
    /\ mBucketList' = [mBucketList EXCEPT
           ![Slot(f.sfn)] = ExtendedBucket(@, f, StreamsAfter(f))]
    /\ UNCHANGED <<counterVars, mBucketMap>>

(* unpackType1, unpackType2 or unpackType3, with the message it returns. *)
Unpack(f, lFromSource, lMessage) ==
    \/ /\ Truncated(f) /\ lMessage = "type2FrameOutOfBounds"
       /\ UNCHANGED assemblyVars
    \/ /\ ~Truncated(f)
       /\ \/ lMessage = "tooOldFragment" /\ TooOldFragment(f)
          \/ lMessage = "noError" /\ OpenBucket(f, lFromSource)
          \/ lMessage = "memoryAllocationError" /\ OpenWithoutMemory(f)
          \/ lMessage = "bufferOutOfBounds" /\ OpenOutOfBounds(f)
          \/ lMessage = "bufferOutOfResources" /\ OutOfResources(f)
          \/ lMessage = "bufferOutOfBounds" /\ OutOfBounds(f)
          \/ lMessage = "duplicatePacketReceived" /\ DuplicatePacket(f)
          \/ lMessage = "noError" /\ AcceptFragment(f)

Messages == {"type2FrameOutOfBounds", "tooOldFragment", "noError",
             "memoryAllocationError", "bufferOutOfBounds",
             "bufferOutOfResources", "duplicatePacketReceived"}

(***************************************************************************)
(* Correctness.                                                            *)
(***************************************************************************)
Chunk == [at : Nat, off : Nat, len : Nat, id : Nat \X Nat]
Data == [frameSize : Nat, cap : Nat, chunks : SUBSET Chunk]

BucketRecord ==
    [mActive : BOOLEAN, mDeliveryOrder : U64, mSavedSuperFrameNo : U16,
     mTimeout : Nat, mFragmentCounter : Nat, mOfFragmentNo : Nat,
     mFragmentSize : Nat, mHaveReceivedFragment : SUBSET Nat, mPts : U64,
     mDts : U64, kind : Kind, mStream : Nat, mSource : Nat, data : Data,
     openedAt : Nat]

(* The receiver's state stays within its types.                            *)
AssemblyTypeOK ==
    /\ CounterTypeOK
    /\ mBucketList \in [Slots -> BucketRecord]
    /\ DOMAIN mBucketMap \subseteq U64
    /\ mBucketMap \in [DOMAIN mBucketMap -> Slots]
    /\ mStreams \in [0 .. NStreams - 1 -> Kind]

(* mBucketMap and the ring agree: its keys are the orders of the active    *)
(* buckets and of no other, and each leads to its bucket.  A pass would    *)
(* otherwise visit a bucket whose mBucketData is gone, or never visit one. *)
MapMatchesBuckets ==
    /\ \A s \in Slots : mBucketList[s].mActive =>
          /\ mBucketList[s].mDeliveryOrder \in DOMAIN mBucketMap
          /\ mBucketMap[mBucketList[s].mDeliveryOrder] = s
    /\ \A k \in DOMAIN mBucketMap :
          /\ mBucketList[mBucketMap[k]].mActive
          /\ mBucketList[mBucketMap[k]].mDeliveryOrder = k

(* mFragmentCounter, which alone decides that a superframe is complete,    *)
(* counts the fragments in mHaveReceivedFragment after the first, and they *)
(* are positions of the superframe: so the count reaches mOfFragmentNo     *)
(* only when every fragment is there, however they were repeated.          *)
FragmentsAccounted ==
    \A s \in Slots : LET b == mBucketList[s] IN b.mActive =>
        /\ b.mHaveReceivedFragment \subseteq 0 .. b.mOfFragmentNo
        /\ Cardinality(b.mHaveReceivedFragment) = b.mFragmentCounter + 1

(* The bytes of a fragment land inside the allocation of their bucket,     *)
(* although that was sized by whichever fragment came first; and the size  *)
(* reported for the superframe never exceeds it.                           *)
WritesInBounds ==
    \A s \in Slots : LET b == mBucketList[s] IN b.mActive =>
        /\ \A c \in b.data.chunks : c.at + c.len <= b.data.cap
        /\ b.data.frameSize <= b.data.cap
=============================================================================
