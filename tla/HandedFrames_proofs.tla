-------------------------- MODULE HandedFrames_proofs --------------------------
(***************************************************************************)
(* What the two receiver modes have in common.  First, unpacking: any      *)
(* fragment keeps the ring of buckets and mBucketMap in agreement and the  *)
(* fragments of every bucket accounted for.  Nothing is assumed of the     *)
(* fragment but its types: it need not come from a sender, nor in any      *)
(* order.  Then, the fragments that senders make have these types, and     *)
(* every step of a pass keeps the head, the iterator and the delete list   *)
(* sound.  A bucket holds fragments of one packet, in their places, with   *)
(* the sizes and fields that they tell of it, so that what is handed over  *)
(* is what was sent, and its time-out is set when it is opened.  Last, the *)
(* orders: each is the place of its superframe in the stream, told from a  *)
(* base that the first fragment received fixes, so that the map orders     *)
(* buckets as they were sent, the ring remembers which were handed over,   *)
(* and a superframe the head was moved past never comes; and what a        *)
(* receiver must know of those handed over for a step to implement one of  *)
(* the FrameChannel.                                                       *)
(***************************************************************************)
EXTENDS HandedFrames, Sender_proofs, ModuloLemmas, FiniteSetTheorems,
        SequenceTheorems, WellFoundedInduction, TLAPS

(***************************************************************************)
(* The inductive invariant.  MapMatchesBuckets alone is not inductive: a   *)
(* bucket that is opened must not take the map's entry of another slot, so *)
(* delivery orders have to stay congruent to superframe numbers, and that  *)
(* rests on the counter being congruent to the number seen last.           *)
(***************************************************************************)
CounterFollowsNumber == mSuperFrameRecalc % U16Mod = mOldSuperFrameNumber

OrdersKeepToTheirSlot ==
    \A s \in Slots :
        mBucketList[s].mActive => mBucketList[s].mDeliveryOrder % RingSize = s

RingTypeOK ==
    /\ mBucketList \in [Slots -> BucketRecord]
    /\ DOMAIN mBucketMap \subseteq U64
    /\ mBucketMap \in [DOMAIN mBucketMap -> Slots]

RingInv ==
    /\ RingTypeOK
    /\ OrdersKeepToTheirSlot
    /\ MapMatchesBuckets
    /\ FragmentsAccounted

CounterInv == CounterTypeOK /\ CounterFollowsNumber

StreamsTypeOK == mStreams \in [0 .. NStreams - 1 -> Kind]

AssemblyInv == CounterInv /\ RingInv /\ StreamsTypeOK

LEMMA AssemblyInvTypes == AssemblyInv => AssemblyTypeOK
  BY DEF AssemblyInv, AssemblyTypeOK, CounterInv, RingInv, RingTypeOK, StreamsTypeOK

(***************************************************************************)
(* Numbers, orders and slots.                                              *)
(***************************************************************************)
LEMMA Moduli ==
    /\ U16Mod \in Nat /\ U16Mod > 0 /\ U64Mod \in Nat /\ U64Mod > 0
    /\ U32Mod \in Nat /\ U32Mod > 0 /\ RingSize \in Nat /\ RingSize > 0
    /\ U16Mod % RingSize = 0 /\ U16Mod <= U64Mod
<1>1. /\ U16Mod \in Nat /\ U16Mod > 0 /\ U64Mod \in Nat /\ U64Mod > 0
      /\ U32Mod \in Nat /\ U32Mod > 0 /\ RingSize \in Nat /\ RingSize > 0
      /\ U16Mod % RingSize = 0 /\ U64Mod % U16Mod = 0
  BY WidthsAssumption, NestedWidths, AssemblyAssumption
<1>2. PICK k \in Int : U64Mod = U16Mod * k
  <2>1. U64Mod = U16Mod * (U64Mod \div U16Mod) + (U64Mod % U16Mod)
        /\ U64Mod \div U16Mod \in Int
    BY <1>1, DivMod, U64Mod \in Int
  <2>. QED
    BY <1>1, <2>1
<1>3. CASE k <= 0
  <2>1. U16Mod * (-k) >= 0 /\ U16Mod * k = -(U16Mod * (-k))
    BY <1>1, <1>3
  <2>. QED
    BY <1>1, <1>2, <2>1
<1>4. CASE k >= 1
  <2>1. U16Mod * (k - 1) >= 0 /\ U16Mod * k = U16Mod * (k - 1) + U16Mod
    BY <1>1, <1>4
  <2>. QED
    BY <1>1, <1>2, <2>1
<1>. QED
  BY <1>1, <1>3, <1>4

LEMMA SlotOfNumber == ASSUME NEW n \in Int PROVE Slot(n) \in Slots
  BY Moduli, DivMod DEF Slot, Slots

(* The signed reading of a number is congruent to it. *)
LEMMA Int16Congruent ==
    ASSUME NEW x \in Int, NEW a \in Int
    PROVE  Int16(x) \in Int /\ (a + Int16(x)) % U16Mod = (a + x) % U16Mod
<1>1. PICK q \in Int : x = U16Mod * q + (x % U16Mod) /\ x % U16Mod \in Int
  BY Moduli, DivMod
<1>2. PICK k \in Int : Int16(x) \in Int /\ a + x = (a + Int16(x)) + U16Mod * k
  <2>1. CASE x % U16Mod < U16Mod \div 2
    <3>1. a + x = (a + Int16(x)) + U16Mod * q /\ Int16(x) \in Int
      BY <2>1, <1>1, Moduli DEF Int16
    <3>. QED
      BY <3>1
  <2>2. CASE ~(x % U16Mod < U16Mod \div 2)
    <3>1. a + x = (a + Int16(x)) + U16Mod * (q + 1) /\ Int16(x) \in Int /\ q + 1 \in Int
      BY <2>2, <1>1, Moduli DEF Int16
    <3>. QED
      BY <3>1
  <2>. QED
    BY <2>1, <2>2
<1>. DEFINE b == a + Int16(x)
<1>3. b \in Int /\ a + x = b + U16Mod * k
  BY <1>2
<1>. HIDE DEF b
<1>4. (b + U16Mod * k) % U16Mod = b % U16Mod
  BY <1>3, Moduli, ModShift
<1>. QED
  BY <1>2, <1>3, <1>4 DEF b

(* The order a bucket is given leads back to its number and its slot. *)
LEMMA CandidateKeepsNumber ==
    ASSUME CounterInv, NEW n \in U16
    PROVE  /\ DeliveryOrderCandidate(n) \in U64
           /\ DeliveryOrderCandidate(n) % U16Mod = n
           /\ DeliveryOrderCandidate(n) % RingSize = Slot(n)
<1>. DEFINE c == DeliveryOrderCandidate(n)
<1>1. n \in Int /\ 0 <= n /\ n < U16Mod /\ mSuperFrameRecalc \in Int
      /\ mOldSuperFrameNumber \in Int /\ mSuperFrameFirstTime \in BOOLEAN
      /\ mSuperFrameRecalc % U16Mod = mOldSuperFrameNumber
  BY Moduli DEF CounterInv, CounterTypeOK, U16, U64, U16Max, U64Max,
                CounterFollowsNumber
<1>2. n % U16Mod = n
  BY <1>1, Moduli, ModIs, n = U16Mod * 0 + n
<1>3. CASE mSuperFrameFirstTime
  <2>1. c = n
    BY <1>3 DEF DeliveryOrderCandidate
  <2>. QED
    BY <2>1, <1>1, <1>2, Moduli DEF U64, U64Max, Slot
<1>4. CASE ~mSuperFrameFirstTime
  <2>. DEFINE d == Int16(n - mOldSuperFrameNumber)
              r == mSuperFrameRecalc
  <2>1. c = (r + d) % U64Mod /\ d \in Int /\ r \in Int
    BY <1>1, <1>4, Int16Congruent DEF DeliveryOrderCandidate, ChangeValue
  <2>2. c \in U64
    BY <2>1, Moduli, DivMod, r + d \in Int DEF U64, U64Max
  <2>3. c % U16Mod = (r + d) % U16Mod
    <3>. DEFINE e == r + d
    <3>1. e \in Int /\ c = e % U64Mod
      BY <2>1
    <3>. HIDE DEF e
    <3>2. (e % U64Mod) % U16Mod = e % U16Mod
      BY <3>1, Moduli, NestedWidths, ModMod
    <3>. QED
      BY <3>1, <3>2 DEF e
  <2>4. (r + d) % U16Mod = (r + (n - mOldSuperFrameNumber)) % U16Mod
    BY <1>1, Int16Congruent
  <2>5. (r + (n - mOldSuperFrameNumber)) % U16Mod
          = ((r % U16Mod) + (n - mOldSuperFrameNumber)) % U16Mod
    <3>. DEFINE e == n - mOldSuperFrameNumber
    <3>1. e \in Int
      BY <1>1
    <3>. HIDE DEF e
    <3>2. (r + e) % U16Mod = ((r % U16Mod) + e) % U16Mod
      BY <3>1, <1>1, Moduli, ModAdd
    <3>. QED
      BY <3>2 DEF e
  <2>6. (r % U16Mod) + (n - mOldSuperFrameNumber) = n
    BY <1>1
  <2>7. c % U16Mod = n
    BY <2>3, <2>4, <2>5, <2>6, <1>2
  <2>8. c % RingSize = (c % U16Mod) % RingSize
    BY <2>2, Moduli, ModMod, c \in Int DEF U64
  <2>. QED
    BY <2>2, <2>7, <2>8 DEF Slot
<1>. QED
  BY <1>1, <1>3, <1>4

(***************************************************************************)
(* The types of what the actions build.                                    *)
(***************************************************************************)
LEMMA BucketTimeoutType == BucketTimeout \in Nat
<1>1. BucketTimeoutMs * UsPerMs \in Int
  BY AssemblyAssumption
<1>. QED
  BY <1>1, Moduli, DivMod DEF BucketTimeout

LEMMA ClosedBucketType ==
    ASSUME NEW order \in U64
    PROVE  /\ ClosedBucket(order) \in BucketRecord
           /\ ~ClosedBucket(order).mActive
<1>1. U64Max \in U64 /\ 0 \in U16
  BY Moduli DEF U64, U64Max, U16, U16Max
<1>2. Unknown \in Kind
  BY DEF Unknown, Kind, Contents, Codes
<1>3. NoData \in Data
  BY DEF NoData, Data
<1>. QED
  BY <1>1, <1>2, <1>3 DEF ClosedBucket, BucketRecord

LEMMA StreamsAfterType ==
    ASSUME StreamsTypeOK, NEW f, IsFragment(f)
    PROVE  StreamsAfter(f) \in [0 .. NStreams - 1 -> Kind]
  BY DEF StreamsTypeOK, IsFragment, StreamsAfter, Payload, Kind

LEMMA DtsType ==
    ASSUME NEW f, IsFragment(f), f.type = 2
    PROVE  Dts(f) \in U64
<1>1. f.pts - f.dtsPtsDiff \in Int
  BY DEF IsFragment, U64
<1>2. (f.pts - f.dtsPtsDiff) % U64Mod \in U64
  BY <1>1, Moduli, DivMod DEF U64, U64Max
<1>. QED
  BY <1>2, Moduli DEF Dts, U64, U64Max

LEMMA ProductType == ASSUME NEW a \in Nat, NEW b \in Nat PROVE a * b \in Nat
  OBVIOUS

LEMMA ChunksType ==
    ASSUME NEW f, IsFragment(f), NEW at \in Nat
    PROVE  Chunks(f, at) \in SUBSET Chunk
  BY DEF Chunks, Chunk, IsFragment

LEMMA FragmentSizeType ==
    ASSUME NEW f, IsFragment(f)
    PROVE  /\ FragmentSize(f) \in Nat
           /\ InsertAt(f, FragmentSize(f)) \in Nat
           /\ ReserveThis(f) \in Nat
           /\ FrameSizeOnOpen(f) \in Nat
<1>1. FragmentSize(f) \in Nat /\ f.frag \in Nat /\ f.of \in Nat /\ f.len \in Nat
  BY DEF FragmentSize, IsFragment
<1>2. /\ FragmentSize(f) * f.frag \in Nat
      /\ FragmentSize(f) * f.of \in Nat
      /\ FragmentSize(f) * (f.of + 1) \in Nat
  BY <1>1, ProductType, f.of + 1 \in Nat
<1>. QED
  BY <1>1, <1>2 DEF InsertAt, ReserveThis, FrameSizeOnOpen

LEMMA OpenedBucketType ==
    ASSUME StreamsTypeOK, now \in Nat, NEW f, IsFragment(f), NEW src \in Nat,
           NEW order \in U64
    PROVE  OpenedBucket(f, src, order, StreamsAfter(f)) \in BucketRecord
<1>1. StreamsAfter(f)[f.stream] \in Kind
  BY StreamsAfterType DEF IsFragment
<1>2. (IF f.type = 2 THEN f.pts ELSE U64Max) \in U64
      /\ (IF f.type = 2 THEN Dts(f) ELSE U64Max) \in U64
  BY DtsType, Moduli DEF IsFragment, U64, U64Max
<1>3. now + BucketTimeout \in Nat
  BY BucketTimeoutType
<1>4. Chunks(f, InsertAt(f, FragmentSize(f))) \in SUBSET Chunk
  BY FragmentSizeType, ChunksType
<1>5. f.sfn \in U16 /\ f.of \in Nat /\ f.frag \in Nat /\ f.stream \in Nat
  BY AssemblyAssumption DEF IsFragment
<1>6. [frameSize |-> FrameSizeOnOpen(f), cap |-> ReserveThis(f),
       chunks |-> Chunks(f, InsertAt(f, FragmentSize(f)))] \in Data
  BY <1>4, FragmentSizeType DEF Data
<1>. QED
  BY <1>1, <1>2, <1>3, <1>5, <1>6, FragmentSizeType DEF OpenedBucket, BucketRecord

LEMMA ExtendedBucketType ==
    ASSUME StreamsTypeOK, NEW f, IsFragment(f), NEW b \in BucketRecord
    PROVE  ExtendedBucket(b, f, StreamsAfter(f)) \in BucketRecord
<1>1. StreamsAfter(f)[f.stream] \in Kind
  BY StreamsAfterType DEF IsFragment
<1>2. (IF f.type = 2 THEN f.pts ELSE b.mPts) \in U64
      /\ (IF f.type = 2 THEN Dts(f) ELSE b.mDts) \in U64
  BY DtsType DEF IsFragment, BucketRecord
<1>3. f.frag \in Nat /\ f.len \in Nat /\ f.stream \in Nat /\ b.mFragmentSize \in Nat
      /\ b.data \in Data
  BY AssemblyAssumption DEF IsFragment, BucketRecord
<1>. DEFINE size == IF f.type = 2 THEN f.type1PacketSize ELSE b.mFragmentSize
<1>4. size \in Nat
  BY <1>3 DEF IsFragment
<1>5. InsertAt(f, size) \in Nat /\ b.mFragmentSize * f.frag \in Nat
  BY <1>3, <1>4, ProductType DEF InsertAt
<1>6. Chunks(f, InsertAt(f, size)) \in SUBSET Chunk
  BY <1>5, ChunksType
<1>7. FrameSizeOnAccept(b, f) \in Nat
  BY <1>3, <1>5 DEF FrameSizeOnAccept, Data
<1>. DEFINE have == b.mHaveReceivedFragment \cup {f.frag}
            count == b.mFragmentCounter + 1
            pts == IF f.type = 2 THEN f.pts ELSE b.mPts
            dts == IF f.type = 2 THEN Dts(f) ELSE b.mDts
            kind == IF f.type = 2 THEN StreamsAfter(f)[f.stream] ELSE b.kind
            stream == IF f.type = 2 THEN f.stream ELSE b.mStream
            data == [frameSize |-> FrameSizeOnAccept(b, f), cap |-> b.data.cap,
                     chunks |-> b.data.chunks \cup Chunks(f, InsertAt(f, size))]
<1>8. data \in Data
  BY <1>3, <1>6, <1>7 DEF Data
<1>9. have \in SUBSET Nat /\ count \in Nat /\ kind \in Kind /\ stream \in Nat
  BY <1>1, <1>3 DEF BucketRecord
<1>10. ExtendedBucket(b, f, StreamsAfter(f)) =
         [b EXCEPT !.mHaveReceivedFragment = have, !.mFragmentCounter = count,
                   !.mPts = pts, !.mDts = dts, !.kind = kind,
                   !.mStream = stream, !.data = data]
  BY DEF ExtendedBucket
<1>. HIDE DEF have, count, pts, dts, kind, stream, data
<1>11. pts \in U64 /\ dts \in U64
  BY <1>2 DEF pts, dts
<1>. DEFINE b1 == [b EXCEPT !.mHaveReceivedFragment = have,
                            !.mFragmentCounter = count, !.mPts = pts]
            b2 == [b1 EXCEPT !.mDts = dts, !.kind = kind]
            b3 == [b2 EXCEPT !.mStream = stream, !.data = data]
<1>12. b1 \in BucketRecord
  BY <1>9, <1>11 DEF BucketRecord
<1>. HIDE DEF b1
<1>13. b2 \in BucketRecord
  BY <1>9, <1>11, <1>12 DEF BucketRecord
<1>. HIDE DEF b2
<1>14. b3 \in BucketRecord
  BY <1>8, <1>9, <1>13 DEF BucketRecord
<1>15. ExtendedBucket(b, f, StreamsAfter(f)) = b3
  BY <1>10 DEF b1, b2
<1>. QED
  BY <1>14, <1>15

(***************************************************************************)
(* The actions.                                                            *)
(***************************************************************************)
LEMMA AssemblyInvInit == AssemblyInit => AssemblyInv
<1>. SUFFICES ASSUME AssemblyInit
              PROVE  AssemblyInv
  OBVIOUS
<1>1. CounterInv
  <2>1. 0 % U16Mod = 0
    BY Moduli, ModIs, 0 = U16Mod * 0 + 0
  <2>. QED
    BY <2>1, Moduli DEF AssemblyInit, CounterInit, CounterInv, CounterTypeOK,
          CounterFollowsNumber, U16, U64, U16Max, U64Max
<1>2. U64Max \in U64
  BY Moduli DEF U64, U64Max
<1>3. /\ \A s \in Slots : mBucketList[s] \in BucketRecord /\ ~mBucketList[s].mActive
      /\ mBucketList \in [Slots -> BucketRecord]
      /\ DOMAIN mBucketMap = {}
  BY <1>2, ClosedBucketType DEF AssemblyInit
<1>4. mBucketMap \in [DOMAIN mBucketMap -> Slots]
  BY <1>3 DEF AssemblyInit
<1>5. RingInv
  BY <1>3, <1>4 DEF RingInv, RingTypeOK, OrdersKeepToTheirSlot, MapMatchesBuckets,
                    FragmentsAccounted
<1>6. Unknown \in Kind
  BY DEF Unknown, Kind, Contents, Codes
<1>7. StreamsTypeOK
  BY <1>6 DEF AssemblyInit, StreamsTypeOK
<1>. QED
  BY <1>1, <1>5, <1>7 DEF AssemblyInv

LEMMA CounterInvStep ==
    ASSUME CounterInv, NEW n \in U16, SuperFrameRecalculator(n)
    PROVE  CounterInv'
  BY CandidateKeepsNumber DEF SuperFrameRecalculator, CounterInv, CounterTypeOK,
        CounterFollowsNumber

(* Closing any of the active buckets, at the end of a pass or one of them  *)
(* on an error.                                                            *)
LEMMA CloseKeepsRing ==
    ASSUME RingInv, NEW D \in SUBSET DOMAIN mBucketMap,
           mBucketMap' = MapErase(D),
           mBucketList' = [s \in Slots |->
               IF s \in {mBucketMap[k] : k \in D}
               THEN ClosedBucket(mBucketList[s].mDeliveryOrder)
               ELSE mBucketList[s]]
    PROVE  RingInv'
<1>. DEFINE C == {mBucketMap[k] : k \in D}
<1>1. \A s \in Slots : mBucketList[s] \in BucketRecord
                      /\ mBucketList[s].mDeliveryOrder \in U64
  BY DEF RingInv, RingTypeOK, BucketRecord
<1>2. \A s \in Slots : s \in C => /\ mBucketList'[s] \in BucketRecord
                                 /\ ~mBucketList'[s].mActive
  BY <1>1, ClosedBucketType
<1>3. \A s \in Slots : s \notin C => mBucketList'[s] = mBucketList[s]
  OBVIOUS
<1>4. /\ DOMAIN mBucketMap' = DOMAIN mBucketMap \ D
      /\ \A k \in DOMAIN mBucketMap \ D : mBucketMap'[k] = mBucketMap[k]
      /\ \A k \in DOMAIN mBucketMap : mBucketMap[k] \in Slots
  BY DEF MapErase, RingInv, RingTypeOK
<1>5. \A k \in DOMAIN mBucketMap \ D : mBucketMap[k] \notin C
  BY <1>4 DEF RingInv, MapMatchesBuckets
<1>6. RingTypeOK'
  <2>1. mBucketList' \in [Slots -> BucketRecord]
    BY <1>1, <1>2, <1>3
  <2>2. mBucketMap' \in [DOMAIN mBucketMap' -> Slots]
    BY <1>4 DEF MapErase
  <2>. QED
    BY <1>4, <2>1, <2>2 DEF RingInv, RingTypeOK
<1>. HIDE DEF C
<1>7. OrdersKeepToTheirSlot'
  BY <1>2, <1>3 DEF RingInv, OrdersKeepToTheirSlot
<1>8. FragmentsAccounted'
  BY <1>2, <1>3 DEF RingInv, FragmentsAccounted
<1>9. MapMatchesBuckets'
  <2>1. ASSUME NEW s \in Slots, mBucketList'[s].mActive
        PROVE  /\ mBucketList'[s].mDeliveryOrder \in DOMAIN mBucketMap'
               /\ mBucketMap'[mBucketList'[s].mDeliveryOrder] = s
    <3>1. s \notin C /\ mBucketList'[s] = mBucketList[s]
      BY <2>1, <1>2, <1>3
    <3>. DEFINE k == mBucketList[s].mDeliveryOrder
    <3>2. k \in DOMAIN mBucketMap /\ mBucketMap[k] = s
      BY <2>1, <3>1 DEF RingInv, MapMatchesBuckets
    <3>3. k \notin D
      BY <3>1, <3>2 DEF C
    <3>. QED
      BY <3>1, <3>2, <3>3, <1>4
  <2>2. ASSUME NEW k \in DOMAIN mBucketMap'
        PROVE  /\ mBucketList'[mBucketMap'[k]].mActive
               /\ mBucketList'[mBucketMap'[k]].mDeliveryOrder = k
    BY <1>3, <1>4, <1>5 DEF RingInv, MapMatchesBuckets
  <2>. QED
    BY <2>1, <2>2 DEF MapMatchesBuckets
<1>. QED
  BY <1>6, <1>7, <1>8, <1>9 DEF RingInv

(* Opening a bucket takes no other bucket's entry of the map. *)
LEMMA OpenKeepsRing ==
    ASSUME RingInv, StreamsTypeOK, now \in Nat,
           NEW f, IsFragment(f), f.type = 1 => f.frag <= f.of,
           NEW src \in Nat, NEW order \in U64, order % RingSize = Slot(f.sfn),
           ~Bucket(f).mActive,
           mBucketMap' = MapInsert(order, Slot(f.sfn)),
           mBucketList' = [mBucketList EXCEPT
               ![Slot(f.sfn)] = OpenedBucket(f, src, order, StreamsAfter(f))]
    PROVE  RingInv'
<1>. DEFINE slot == Slot(f.sfn)
            b == OpenedBucket(f, src, order, StreamsAfter(f))
<1>1. slot \in Slots
  BY SlotOfNumber DEF IsFragment, U16
<1>2. b \in BucketRecord
  BY OpenedBucketType
<1>3. /\ b.mActive /\ b.mDeliveryOrder = order /\ b.mHaveReceivedFragment = {f.frag}
      /\ b.mFragmentCounter = 0 /\ b.mOfFragmentNo = f.of
  BY DEF OpenedBucket
<1>4. ~mBucketList[slot].mActive
  BY DEF Bucket
<1>5. order \notin DOMAIN mBucketMap
  <2>1. ASSUME order \in DOMAIN mBucketMap
        PROVE  FALSE
    <3>1. /\ mBucketMap[order] \in Slots
          /\ mBucketList[mBucketMap[order]].mActive
          /\ mBucketList[mBucketMap[order]].mDeliveryOrder = order
      BY <2>1 DEF RingInv, RingTypeOK, MapMatchesBuckets
    <3>2. order % RingSize = mBucketMap[order]
      BY <3>1 DEF RingInv, OrdersKeepToTheirSlot
    <3>. QED
      BY <3>1, <3>2, <1>4
  <2>. QED
    BY <2>1
<1>. HIDE DEF b, slot
<1>6. mBucketList \in [Slots -> BucketRecord]
  BY DEF RingInv, RingTypeOK
<1>7. mBucketList'[slot] = b /\ \A s \in Slots \ {slot} : mBucketList'[s] = mBucketList[s]
  BY <1>1, <1>6 DEF b, slot
<1>8. /\ DOMAIN mBucketMap' = DOMAIN mBucketMap \cup {order}
      /\ mBucketMap'[order] = slot
      /\ \A k \in DOMAIN mBucketMap : mBucketMap'[k] = mBucketMap[k]
  BY <1>5 DEF MapInsert, slot
<1>9. RingTypeOK'
  <2>1. mBucketList' \in [Slots -> BucketRecord]
    BY <1>1, <1>2, <1>6 DEF b, slot
  <2>2. mBucketMap' \in [DOMAIN mBucketMap' -> Slots]
    BY <1>1 DEF MapInsert, slot, RingInv, RingTypeOK
  <2>. QED
    BY <1>8, <2>1, <2>2 DEF RingInv, RingTypeOK
<1>10. OrdersKeepToTheirSlot'
  BY <1>3, <1>7 DEF RingInv, OrdersKeepToTheirSlot, slot
<1>11. FragmentsAccounted'
  <2>1. b.mHaveReceivedFragment \subseteq 0 .. b.mOfFragmentNo
    BY <1>3 DEF IsFragment
  <2>2. Cardinality(b.mHaveReceivedFragment) = b.mFragmentCounter + 1
    <3>1. Cardinality({f.frag}) = 1
      BY FS_Singleton
    <3>. QED
      BY <3>1, <1>3
  <2>. QED
    BY <1>7, <2>1, <2>2 DEF RingInv, FragmentsAccounted
<1>12. MapMatchesBuckets'
  <2>1. ASSUME NEW s \in Slots, mBucketList'[s].mActive
        PROVE  /\ mBucketList'[s].mDeliveryOrder \in DOMAIN mBucketMap'
               /\ mBucketMap'[mBucketList'[s].mDeliveryOrder] = s
    <3>1. CASE s = slot
      BY <3>1, <1>3, <1>7, <1>8
    <3>2. CASE s # slot
      BY <3>2, <2>1, <1>7, <1>8 DEF RingInv, MapMatchesBuckets
    <3>. QED
      BY <3>1, <3>2
  <2>2. ASSUME NEW k \in DOMAIN mBucketMap'
        PROVE  /\ mBucketList'[mBucketMap'[k]].mActive
               /\ mBucketList'[mBucketMap'[k]].mDeliveryOrder = k
    <3>1. CASE k = order
      BY <3>1, <1>3, <1>7, <1>8
    <3>2. CASE k # order
      <4>1. k \in DOMAIN mBucketMap /\ mBucketMap'[k] = mBucketMap[k]
            /\ mBucketMap[k] \in Slots
        BY <3>2, <2>2, <1>8 DEF RingInv, RingTypeOK
      <4>2. mBucketList[mBucketMap[k]].mActive
            /\ mBucketList[mBucketMap[k]].mDeliveryOrder = k
        BY <4>1 DEF RingInv, MapMatchesBuckets
      <4>3. mBucketMap[k] # slot
        BY <4>2, <1>4 DEF slot
      <4>. QED
        BY <4>1, <4>2, <4>3, <1>7
    <3>. QED
      BY <3>1, <3>2
  <2>. QED
    BY <2>1, <2>2 DEF MapMatchesBuckets
<1>. QED
  BY <1>9, <1>10, <1>11, <1>12 DEF RingInv

(* The map does not know a bucket that was opened and given up at once. *)
LEMMA OpenAndCloseKeepsRing ==
    ASSUME RingInv, NEW slot \in Slots, NEW order \in U64,
           order % RingSize = slot, ~mBucketList[slot].mActive,
           mBucketMap' = MapErase({order}),
           mBucketList' = [mBucketList EXCEPT ![slot] = ClosedBucket(order)]
    PROVE  RingInv'
<1>1. mBucketList \in [Slots -> BucketRecord]
  BY DEF RingInv, RingTypeOK
<1>2. ClosedBucket(order) \in BucketRecord /\ ~ClosedBucket(order).mActive
  BY ClosedBucketType
<1>3. order \notin DOMAIN mBucketMap
  <2>1. ASSUME order \in DOMAIN mBucketMap
        PROVE  FALSE
    <3>1. /\ mBucketMap[order] \in Slots
          /\ mBucketList[mBucketMap[order]].mActive
          /\ mBucketList[mBucketMap[order]].mDeliveryOrder = order
      BY <2>1 DEF RingInv, RingTypeOK, MapMatchesBuckets
    <3>2. order % RingSize = mBucketMap[order]
      BY <3>1 DEF RingInv, OrdersKeepToTheirSlot
    <3>. QED
      BY <3>1, <3>2
  <2>. QED
    BY <2>1
<1>4. mBucketMap' = mBucketMap
  BY <1>3 DEF MapErase, RingInv, RingTypeOK
<1>5. ~mBucketList'[slot].mActive
      /\ \A s \in Slots \ {slot} : mBucketList'[s] = mBucketList[s]
  BY <1>1, <1>2
<1>6. RingTypeOK'
  BY <1>1, <1>2, <1>4 DEF RingInv, RingTypeOK
<1>7. OrdersKeepToTheirSlot' /\ FragmentsAccounted'
  BY <1>5 DEF RingInv, OrdersKeepToTheirSlot, FragmentsAccounted
<1>8. \A k \in DOMAIN mBucketMap : mBucketMap[k] \in Slots \ {slot}
  BY DEF RingInv, RingTypeOK, MapMatchesBuckets
<1>9. MapMatchesBuckets'
  <2>1. ASSUME NEW s \in Slots, mBucketList'[s].mActive
        PROVE  /\ mBucketList'[s].mDeliveryOrder \in DOMAIN mBucketMap'
               /\ mBucketMap'[mBucketList'[s].mDeliveryOrder] = s
    BY <2>1, <1>4, <1>5 DEF RingInv, MapMatchesBuckets
  <2>2. ASSUME NEW k \in DOMAIN mBucketMap'
        PROVE  /\ mBucketList'[mBucketMap'[k]].mActive
               /\ mBucketList'[mBucketMap'[k]].mDeliveryOrder = k
    BY <2>2, <1>4, <1>5, <1>8 DEF RingInv, MapMatchesBuckets
  <2>. QED
    BY <2>1, <2>2 DEF MapMatchesBuckets
<1>. QED
  BY <1>6, <1>7, <1>9 DEF RingInv

LEMMA OutOfBoundsKeepsRing ==
    ASSUME RingInv, NEW f, IsFragment(f), OutOfBounds(f)
    PROVE  RingInv'
<1>. DEFINE slot == Slot(f.sfn)
            D == {mBucketList[slot].mDeliveryOrder}
<1>1. slot \in Slots
  BY SlotOfNumber DEF IsFragment, U16
<1>2. mBucketList \in [Slots -> BucketRecord] /\ mBucketList[slot].mActive
  BY DEF OutOfBounds, Bucket, RingInv, RingTypeOK
<1>3. mBucketList[slot].mDeliveryOrder \in DOMAIN mBucketMap
      /\ mBucketMap[mBucketList[slot].mDeliveryOrder] = slot
  BY <1>1, <1>2 DEF RingInv, MapMatchesBuckets
<1>4. {mBucketMap[k] : k \in D} = {slot}
  BY <1>3
<1>5. mBucketList' = [s \in Slots |->
          IF s \in {mBucketMap[k] : k \in D}
          THEN ClosedBucket(mBucketList[s].mDeliveryOrder) ELSE mBucketList[s]]
  BY <1>1, <1>2, <1>4 DEF OutOfBounds
<1>6. mBucketMap' = MapErase(D) /\ D \in SUBSET DOMAIN mBucketMap
  BY <1>3 DEF OutOfBounds, Bucket
<1>. HIDE DEF D
<1>. QED
  BY <1>5, <1>6, CloseKeepsRing

(* The counter and the set of fragments grow together. *)
LEMMA AcceptKeepsRing ==
    ASSUME RingInv, StreamsTypeOK, NEW f, IsFragment(f), AcceptFragment(f)
    PROVE  RingInv'
<1>. DEFINE slot == Slot(f.sfn)
            b == mBucketList[slot]
            c == ExtendedBucket(b, f, StreamsAfter(f))
<1>1. slot \in Slots
  BY SlotOfNumber DEF IsFragment, U16
<1>2. mBucketList \in [Slots -> BucketRecord] /\ b \in BucketRecord
  BY <1>1 DEF RingInv, RingTypeOK
<1>3. c \in BucketRecord
  BY <1>2, ExtendedBucketType
<1>4. /\ c.mActive = b.mActive /\ c.mDeliveryOrder = b.mDeliveryOrder
      /\ c.mHaveReceivedFragment = b.mHaveReceivedFragment \cup {f.frag}
      /\ c.mFragmentCounter = b.mFragmentCounter + 1
      /\ c.mOfFragmentNo = b.mOfFragmentNo
  BY <1>2 DEF ExtendedBucket, BucketRecord
<1>5. b.mActive /\ f.frag <= b.mOfFragmentNo /\ f.frag \notin b.mHaveReceivedFragment
      /\ f.frag \in Nat
  BY DEF AcceptFragment, Fits, Bucket, IsFragment
<1>6. mBucketList' = [mBucketList EXCEPT ![slot] = c] /\ mBucketMap' = mBucketMap
  BY <1>1, <1>2 DEF AcceptFragment
<1>. HIDE DEF b, c, slot
<1>7. mBucketList'[slot] = c /\ \A s \in Slots \ {slot} : mBucketList'[s] = mBucketList[s]
  BY <1>1, <1>2, <1>6
<1>8. \A s \in Slots : /\ mBucketList'[s].mActive = mBucketList[s].mActive
                       /\ mBucketList'[s].mDeliveryOrder = mBucketList[s].mDeliveryOrder
  BY <1>4, <1>7 DEF b
<1>9. RingTypeOK'
  BY <1>1, <1>2, <1>3, <1>6 DEF RingInv, RingTypeOK
<1>10. OrdersKeepToTheirSlot'
  BY <1>8 DEF RingInv, OrdersKeepToTheirSlot
<1>11. MapMatchesBuckets'
  <2>1. \A k \in DOMAIN mBucketMap : mBucketMap[k] \in Slots
    BY DEF RingInv, RingTypeOK
  <2>. QED
    BY <1>6, <1>8, <2>1 DEF RingInv, MapMatchesBuckets
<1>12. FragmentsAccounted'
  <2>1. /\ b.mHaveReceivedFragment \subseteq 0 .. b.mOfFragmentNo
        /\ Cardinality(b.mHaveReceivedFragment) = b.mFragmentCounter + 1
    BY <1>1, <1>5 DEF RingInv, FragmentsAccounted, b
  <2>2. b.mOfFragmentNo \in Nat /\ b.mFragmentCounter \in Nat
    BY <1>2 DEF BucketRecord
  <2>3. IsFiniteSet(b.mHaveReceivedFragment)
    <3>1. IsFiniteSet(0 .. b.mOfFragmentNo)
      BY <2>2, FS_Interval, 0 \in Int, b.mOfFragmentNo \in Int
    <3>. QED
      BY <2>1, <3>1, FS_Subset
  <2>4. Cardinality(c.mHaveReceivedFragment) = c.mFragmentCounter + 1
    <3>1. Cardinality(b.mHaveReceivedFragment \cup {f.frag})
            = Cardinality(b.mHaveReceivedFragment) + 1
      BY <1>5, <2>3, FS_AddElement
    <3>. QED
      BY <1>4, <2>1, <2>2, <3>1
  <2>5. c.mHaveReceivedFragment \subseteq 0 .. c.mOfFragmentNo
    BY <1>4, <1>5, <2>1, <2>2
  <2>. QED
    BY <1>7, <2>4, <2>5 DEF RingInv, FragmentsAccounted
<1>. QED
  BY <1>9, <1>10, <1>11, <1>12 DEF RingInv

(* One fragment, whatever becomes of it. *)
LEMMA UnpackKeepsAssemblyInv ==
    ASSUME AssemblyInv, now \in Nat, NEW f, IsFragment(f), NEW src \in Nat,
           NEW m, Unpack(f, src, m)
    PROVE  AssemblyInv'
<1>. DEFINE order == DeliveryOrderCandidate(f.sfn)
<1>1. CounterInv /\ RingInv /\ StreamsTypeOK /\ f.sfn \in U16
  BY DEF AssemblyInv, IsFragment
<1>2. order \in U64 /\ order % RingSize = Slot(f.sfn) /\ Slot(f.sfn) \in Slots
  BY <1>1, CandidateKeepsNumber, SlotOfNumber, f.sfn \in Int DEF U16
<1>3. ASSUME UNCHANGED assemblyVars
      PROVE  AssemblyInv'
  BY <1>3, <1>1 DEF assemblyVars, counterVars, AssemblyInv, CounterInv, RingInv,
        StreamsTypeOK, CounterTypeOK, CounterFollowsNumber, RingTypeOK,
        OrdersKeepToTheirSlot, MapMatchesBuckets, FragmentsAccounted
<1>4. CASE TooOldFragment(f)
  <2>1. CounterInv'
    BY <1>1, <1>4, CounterInvStep DEF TooOldFragment
  <2>. QED
    BY <1>1, <1>4, <2>1 DEF TooOldFragment, AssemblyInv, RingInv, StreamsTypeOK,
          RingTypeOK, OrdersKeepToTheirSlot, MapMatchesBuckets, FragmentsAccounted
<1>5. CASE OpenBucket(f, src)
  <2>1. CounterInv'
    BY <1>1, <1>5, CounterInvStep DEF OpenBucket
  <2>2. StreamsTypeOK'
    BY <1>1, <1>5, StreamsAfterType DEF OpenBucket, StreamsTypeOK
  <2>3. RingInv'
    BY <1>1, <1>2, <1>5, OpenKeepsRing DEF OpenBucket, MayOpen
  <2>. QED
    BY <2>1, <2>2, <2>3 DEF AssemblyInv
<1>6. CASE OpenAndClose(f)
  <2>1. CounterInv'
    BY <1>1, <1>6, CounterInvStep DEF OpenAndClose
  <2>2. StreamsTypeOK'
    BY <1>1, <1>6, StreamsAfterType DEF OpenAndClose, StreamsTypeOK
  <2>3. RingInv'
    BY <1>1, <1>2, <1>6, OpenAndCloseKeepsRing DEF OpenAndClose, MayOpen, Bucket
  <2>. QED
    BY <2>1, <2>2, <2>3 DEF AssemblyInv
<1>7. CASE OutOfBounds(f)
  <2>1. RingInv'
    BY <1>1, <1>7, OutOfBoundsKeepsRing
  <2>2. CounterInv' /\ StreamsTypeOK'
    BY <1>1, <1>7 DEF OutOfBounds, counterVars, CounterInv, CounterTypeOK,
          CounterFollowsNumber, StreamsTypeOK
  <2>. QED
    BY <2>1, <2>2 DEF AssemblyInv
<1>8. CASE AcceptFragment(f)
  <2>1. RingInv'
    BY <1>1, <1>8, AcceptKeepsRing
  <2>2. CounterInv' /\ StreamsTypeOK'
    BY <1>1, <1>8, StreamsAfterType DEF AcceptFragment, counterVars, CounterInv,
          CounterTypeOK, CounterFollowsNumber, StreamsTypeOK
  <2>. QED
    BY <2>1, <2>2 DEF AssemblyInv
<1>. QED
  BY <1>3, <1>4, <1>5, <1>6, <1>7, <1>8
     DEF Unpack, OpenWithoutMemory, OpenOutOfBounds, OutOfResources, DuplicatePacket

(* The application's stream numbers have an entry in mStreams.  The code   *)
(* does not see to it: mStreams has UINT8_MAX entries, one fewer than      *)
(* uint8_t has values.  So the theorems assume it.                         *)
StreamsHaveEntries == \A c \in Calls : c.stream \in 0 .. NStreams - 1

PassInv ==
    /\ mDeliveryHOLFirstRun \in BOOLEAN
    /\ mNextExpectedFrameNumber \in U64
    /\ lTimeNow \in Nat
    /\ todo \cup lDeleteList \subseteq DOMAIN mBucketMap

(***************************************************************************)
(* The fragments of a sender.                                              *)
(***************************************************************************)
LEMMA SentFragmentsAreFragments ==
    ASSUME StreamsHaveEntries, Sources \subseteq Nat, SenderIInv,
           NEW s \in Sources, NEW n \in 1 .. Len(sent[s]),
           NEW f \in SentFragments(s, n)
    PROVE  IsFragment(f) /\ f.id[1] \in Nat
<1>. DEFINE c == sent[s][n].call
            sfn == sent[s][n].sfn
            id == <<s, n>>
            size == c.size
            P == DataPayloadType1
            q == OfFragmentNoType1(size)
            of == OfFragmentNo(size)
            r == ReminderData(size)
            end == DataPointerAtEnd(size)
<1>1. sfn \in U16 /\ c \in Calls /\ size \in Nat /\ size <= LargestPacket
  BY SentCall DEF SentFrame
<1>2. /\ c.pts \in U64 /\ c.dts \in U64 /\ c.content \in Contents
      /\ c.code \in Codes /\ c.stream \in 0 .. NStreams - 1
  BY <1>1, CallsAssumption DEF StreamsHaveEntries
<1>3. id \in Nat \X Nat /\ id[1] = s /\ s \in Nat
  BY DEF SenderIInv
<1>4. P \in Nat /\ q \in Nat /\ r \in Nat /\ size = q * P + r
  BY <1>1, PayloadSizes, CountOfType1
<1>5. of = q + (IF Type3Needed(size) THEN 1 ELSE 0)
  BY <1>1, ArithmeticAgrees DEF CalculationError
<1>6. q * P \in Nat
  BY <1>4, ProductType
<1>7. end \in Nat /\ size - end \in Nat
  BY <1>1, <1>4, <1>6 DEF DataPointerAtEnd
<1>8. PtsDtsDiff(c) % U32Mod \in Nat
  <2>1. PtsDtsDiff(c) \in Int
    BY <1>2, Moduli, DivMod, c.pts - c.dts \in Int DEF PtsDtsDiff, U64
  <2>. QED
    BY <2>1, Moduli, DivMod
<1>9. of \in Nat /\ (Type3Needed(size) => of - 1 \in Nat)
  BY <1>4, <1>5
<1>. HIDE DEF c, sfn, id, size, P, q, of, r, end
<1>10. ASSUME NEW i \in 0 .. q - 1, f = Type1Fragment(id, c, sfn, i)
       PROVE  IsFragment(f) /\ f.id = id
  <2>1. i \in Nat /\ i * P \in Nat
    BY <1>4, <1>10, ProductType
  <2>. QED
    BY <1>1, <1>2, <1>3, <1>4, <1>9, <1>10, <2>1
       DEF Type1Fragment, IsFragment, P, of, size
<1>11. ASSUME Type3Needed(size), f = Type3Fragment(id, c, sfn)
       PROVE  IsFragment(f) /\ f.id = id
  BY <1>1, <1>2, <1>3, <1>4, <1>6, <1>9, <1>11
     DEF Type3Fragment, IsFragment, P, of, q, r, size
<1>12. ASSUME f = Type2Fragment(id, c, sfn, of, P, end)
       PROVE  IsFragment(f) /\ f.id = id
  BY <1>1, <1>2, <1>3, <1>4, <1>7, <1>8, <1>9, <1>12
     DEF Type2Fragment, IsFragment, size
<1>13. ASSUME f = Type2Fragment(id, c, sfn, 0, size, 0)
       PROVE  IsFragment(f) /\ f.id = id
  BY <1>1, <1>2, <1>3, <1>8, <1>13 DEF Type2Fragment, IsFragment, size
<1>14. f \in FragmentsOf(id, c, sfn)
  BY DEF SentFragments, id, c, sfn
<1>15. \/ \E i \in 0 .. q - 1 : f = Type1Fragment(id, c, sfn, i)
       \/ Type3Needed(size) /\ f = Type3Fragment(id, c, sfn)
       \/ f = Type2Fragment(id, c, sfn, of, P, end)
       \/ f = Type2Fragment(id, c, sfn, 0, size, 0)
  BY <1>14 DEF FragmentsOf, q, of, P, end, size
<1>. QED
  BY <1>3, <1>10, <1>11, <1>12, <1>13, <1>15

LEMMA InFlightIsSent ==
    ASSUME SenderIInv, NEW f \in InFlight
    PROVE  \E s \in Sources : \E n \in 1 .. Len(sent[s]) : f \in SentFragments(s, n)
<1>1. PICK p \in Sources \X (1 .. MaxFrames) :
          p[2] <= Len(sent[p[1]]) /\ f \in SentFragments(p[1], p[2])
  BY DEF InFlight
<1>2. Len(sent[p[1]]) \in Nat
  BY DEF SenderIInv
<1>3. p[1] \in Sources /\ p[2] \in 1 .. Len(sent[p[1]])
  BY <1>1, <1>2, SenderAssumption
<1>. QED
  BY <1>1, <1>3

LEMMA InFlightAreFragments ==
    ASSUME StreamsHaveEntries, Sources \subseteq Nat, SenderIInv, NEW f \in InFlight
    PROVE  IsFragment(f) /\ f.id[1] \in Nat
  BY InFlightIsSent, SentFragmentsAreFragments

(***************************************************************************)
(* The order that comes next.                                              *)
(***************************************************************************)
LEMMA LeastElement ==
    ASSUME NEW S \in SUBSET Nat, S # {}
    PROVE  \E x \in S : \A y \in S : x <= y
<1>. DEFINE R == OpToRel(<, Nat)
<1>1. PICK x \in S : \A y \in S : ~(<<y, x>> \in R)
  BY NatLessThanWellFounded, WFMin
<1>2. R = {ss \in Nat \X Nat : ss[1] < ss[2]}
  BY Zenon DEF OpToRel
<1>. HIDE DEF R
<1>3. \A a, b \in Nat : a < b => <<a, b>> \in R
  BY <1>2
<1>4. ASSUME NEW y \in S
      PROVE  x <= y
  <2>1. ~(y < x)
    BY <1>1, <1>3
  <2>. QED
    BY <2>1, x \in Nat, y \in Nat
<1>. QED
  BY <1>4

LEMMA MinOrderIsElement ==
    ASSUME NEW S \in SUBSET U64, S # {}
    PROVE  MinOrder(S) \in S /\ \A y \in S : MinOrder(S) <= y
<1>1. \E x \in S : \A y \in S : x <= y
  BY LeastElement DEF U64
<1>. QED
  BY <1>1 DEF MinOrder

LEMMA KeysAreOrders == AssemblyInv => DOMAIN mBucketMap \in SUBSET U64
  BY DEF AssemblyInv, RingInv, RingTypeOK

(***************************************************************************)
(* The steps of a pass.                                                    *)
(***************************************************************************)
LEMMA PassInvInit == PassInit => PassInv
  BY Moduli DEF PassInit, PassInv, U64, U64Max

LEMMA BeginPassKeeps ==
    ASSUME AssemblyInv, PassInv, NEW headMayBeSet, BeginPass(headMayBeSet),
           lTimeNow' \in Nat, UNCHANGED mBucketMap
    PROVE  PassInv'
<1>1. DOMAIN mBucketMap # {} => MinOrder(DOMAIN mBucketMap) \in U64
  BY KeysAreOrders, MinOrderIsElement
<1>. QED
  BY <1>1 DEF BeginPass, PassInv, headVars

LEMMA DeliverBucketKeeps ==
    ASSUME AssemblyInv, PassInv, NEW k, DeliverBucket(k), UNCHANGED mBucketMap
    PROVE  PassInv'
<1>1. todo \in SUBSET U64 /\ todo # {} /\ todo \subseteq DOMAIN mBucketMap
  BY KeysAreOrders DEF PassInv, DeliverBucket
<1>2. k \in todo /\ k \in U64
  BY <1>1, MinOrderIsElement DEF DeliverBucket
<1>3. (k + 1) % U64Mod \in U64
  BY <1>2, Moduli, DivMod, k + 1 \in Int DEF U64, U64Max
<1>. QED
  BY <1>1, <1>2, <1>3 DEF DeliverBucket, PassInv

LEMMA PassOverKeeps ==
    ASSUME PassInv, PassOver, UNCHANGED mBucketMap
    PROVE  PassInv'
  BY DEF PassInv, PassOver, headVars

LEMMA CloseDeliveredKeeps ==
    ASSUME AssemblyInv, PassInv, CloseDelivered, lTimeNow' \in Nat
    PROVE  AssemblyInv' /\ PassInv'
<1>1. lDeleteList \in SUBSET DOMAIN mBucketMap
  BY DEF PassInv
<1>2. RingInv'
  BY <1>1, CloseKeepsRing DEF CloseDelivered, DeliveredSlots, AssemblyInv
<1>3. CounterInv' /\ StreamsTypeOK'
  BY DEF CloseDelivered, counterVars, AssemblyInv, CounterInv, CounterTypeOK,
         CounterFollowsNumber, StreamsTypeOK
<1>4. PassInv'
  BY DEF CloseDelivered, headVars, PassInv
<1>. QED
  BY <1>2, <1>3, <1>4 DEF AssemblyInv

(* A fragment that arrives between two passes. *)
LEMMA UnpackKeepsPassInv ==
    ASSUME PassInv, todo = {}, lDeleteList = {}, UNCHANGED passVars
    PROVE  PassInv'
  BY DEF PassInv, passVars, headVars

(* Steps of the rest of the system. *)
LEMMA StutterKeeps ==
    /\ AssemblyInv /\ UNCHANGED assemblyVars => AssemblyInv'
    /\ PassInv /\ UNCHANGED <<mBucketMap, passVars>> => PassInv'
    /\ SenderIInv /\ UNCHANGED senderVars => SenderIInv'
<1>1. AssemblyInv /\ UNCHANGED assemblyVars => AssemblyInv'
  BY DEF assemblyVars, counterVars, AssemblyInv, CounterInv, RingInv,
        StreamsTypeOK, CounterTypeOK, CounterFollowsNumber, RingTypeOK,
        OrdersKeepToTheirSlot, MapMatchesBuckets, FragmentsAccounted
<1>2. PassInv /\ UNCHANGED <<mBucketMap, passVars>> => PassInv'
  BY DEF PassInv, passVars, headVars
<1>3. SenderIInv /\ UNCHANGED senderVars => SenderIInv'
  BY DEF senderVars, SenderIInv, NoCalculationError, SentFit,
         NumbersConsecutive, LastNumbered, NumberedFromFirst
<1>. QED
  BY <1>1, <1>2, <1>3

LEMMA LinkKeeps ==
    ASSUME SenderIInv, now \in Nat,
           (Send \/ Number \/ (Tick /\ UNCHANGED senderVars))
    PROVE  SenderIInv' /\ now' \in Nat
<1>1. CASE Send
  <2>1. PICK s \in Sources, c \in Calls : PackAndSendAccepted(s, c, now)
    BY <1>1 DEF Send
  <2>. QED
    BY <1>1, <2>1, AcceptedKeepsSenderIInv DEF Send
<1>2. CASE Number
  <2>1. PICK s \in Sources, n \in StartNumbers : SetSuperFrameNo(s, n)
    BY <1>2 DEF Number
  <2>. QED
    BY <1>2, <2>1, NumberKeepsSenderIInv DEF Number
<1>3. CASE Tick /\ UNCHANGED senderVars
  BY <1>3, StutterKeeps DEF Tick
<1>. QED
  BY <1>1, <1>2, <1>3

(***************************************************************************)
(* The superframes that a pass hands on.                                   *)
(***************************************************************************)
SuperFrameRecord ==
    [order : U64, openedAt : Nat, mBroken : BOOLEAN, mSuperFrameNo : U16,
     mFrameSize : Nat, chunks : SUBSET Chunk, mPts : U64, mDts : U64,
     kind : Kind, mStreamID : Nat, mSource : Nat]

LEMMA SuperFrameType ==
    ASSUME AssemblyInv, NEW k \in DOMAIN mBucketMap
    PROVE  SuperFrame(k) \in SuperFrameRecord
<1>. DEFINE b == BucketAt(k)
<1>1. b \in BucketRecord /\ k \in U64
  BY DEF AssemblyInv, RingInv, RingTypeOK, BucketAt
<1>. HIDE DEF b
<1>2. b.data \in Data
  BY <1>1 DEF BucketRecord
<1>3. b.data.frameSize \in Nat /\ b.data.chunks \in SUBSET Chunk
  BY <1>2 DEF Data
<1>. DEFINE broken == ~Complete(b)
<1>4. broken \in BOOLEAN
  BY DEF Complete
<1>5. SuperFrame(k) =
        [order |-> k, openedAt |-> b.openedAt, mBroken |-> broken,
         mSuperFrameNo |-> b.mSavedSuperFrameNo, mFrameSize |-> b.data.frameSize,
         chunks |-> b.data.chunks, mPts |-> b.mPts, mDts |-> b.mDts,
         kind |-> b.kind, mStreamID |-> b.mStream, mSource |-> b.mSource]
  BY DEF SuperFrame, b
<1>. HIDE DEF broken
<1>. QED
  BY <1>1, <1>3, <1>4, <1>5 DEF SuperFrameRecord, BucketRecord

(***************************************************************************)
(* What a bucket holds.                                                    *)
(***************************************************************************)

(* mFragmentSize of a packet's bucket, whichever fragment opened it. *)
Piece(size) == IF FitsType2(size) THEN size ELSE DataPayloadType1

(* The position of the fragment that tells where the packet ends. *)
EndAt(size) ==
    IF ~FitsType2(size) /\ Type3Needed(size) THEN LastFragmentNo(size) - 1
                                             ELSE LastFragmentNo(size)

(* The last fragment is not needed when its payload is empty. *)
EndKnown(size, have) ==
    EndAt(size) \in have \/ (~FitsType2(size) /\ ReminderData(size) = 0)

(* The bytes of the fragment at a position, and those at some positions. *)
HeldAt(id, c, sfn, i) ==
    LET f == FragmentAt(id, c, sfn, i) IN Chunks(f, f.off)

Held(id, c, sfn, have) == UNION {HeldAt(id, c, sfn, i) : i \in have}

(* Bucket b holds fragments of the n-th superframe of s and of no other.   *)
Holds(b, s, n) ==
    LET c == sent[s][n].call
        have == b.mHaveReceivedFragment
        last == LastFragmentNo(c.size)
    IN  /\ b.mSource = s
        /\ b.mSavedSuperFrameNo = sent[s][n].sfn
        /\ b.mOfFragmentNo = last
        /\ b.mFragmentSize = Piece(c.size)
        /\ b.data.chunks = Held(<<s, n>>, c, sent[s][n].sfn, have)
        /\ c.size <= b.data.cap
        /\ b.data.frameSize <= b.data.cap
        /\ EndKnown(c.size, have) => b.data.frameSize = c.size
        /\ last \in have => /\ b.mPts = c.pts /\ b.mDts = c.dts
                            /\ b.kind = [content |-> c.content, code |-> c.code]
                            /\ b.mStream = c.stream

(* It holds bytes of a fragment of another origin. *)
Spoilt(chunks, stray) == \E x \in chunks, f \in stray : x.id = f.id

Sound(b, stray) ==
    b.mActive =>
        \/ Spoilt(b.data.chunks, stray)
        \/ \E s \in Sources : \E n \in 1 .. Len(sent[s]) : Holds(b, s, n)

BucketsSound(stray) == \A slot \in Slots : Sound(mBucketList[slot], stray)

(***************************************************************************)
(* What the fragments of a packet say about themselves.                    *)
(***************************************************************************)

(* hDtsPtsDiff leads back to the decode time stamp. *)
LEMMA DtsOfDifference ==
    ASSUME NEW pts \in U64, NEW dts \in U64, (pts - dts) % U64Mod < U32Max
    PROVE  LET d == ((pts - dts) % U64Mod) % U32Mod
           IN  d # U32Max /\ (pts - d) % U64Mod = dts
<1>. DEFINE x == (pts - dts) % U64Mod
<1>1. pts \in Int /\ dts \in Int /\ 0 <= dts /\ dts < U64Mod
  BY Moduli DEF U64, U64Max
<1>2. pts - dts \in Int /\ x \in Int /\ 0 <= x /\ x < U32Max
  BY <1>1, Moduli, DivMod
<1>3. PICK k \in Int : pts - dts = U64Mod * k + x
  BY <1>1, Moduli, DivMod, pts - dts \in Int
<1>. HIDE DEF x
<1>4. x % U32Mod = x
  BY <1>2, Moduli, ModIs, x = U32Mod * 0 + x DEF U32Max
<1>5. (pts - x) % U64Mod = dts
  BY <1>1, <1>2, <1>3, Moduli, ModIs, pts - x = U64Mod * k + dts
<1>. QED
  BY <1>2, <1>4, <1>5 DEF x

LEMMA SentDts ==
    ASSUME NEW c \in Calls, PackMessage(c) = "noError"
    PROVE  /\ PtsDtsDiff(c) % U32Mod # U32Max
           /\ (c.pts - (PtsDtsDiff(c) % U32Mod)) % U64Mod = c.dts
<1>1. c.pts \in U64 /\ c.dts \in U64
  BY CallsAssumption
<1>2. PtsDtsDiff(c) \in Int
  BY <1>1, Moduli, DivMod, c.pts - c.dts \in Int DEF PtsDtsDiff, U64
<1>3. PtsDtsDiff(c) < U32Max
  BY <1>2, Moduli DEF PackMessage, U32Max
<1>. QED
  BY <1>1, <1>3, DtsOfDifference DEF PtsDtsDiff

LEMMA FragmentSays ==
    ASSUME NEW id, NEW c \in Calls, NEW sfn, PackMessage(c) = "noError",
           NEW i \in 0 .. LastFragmentNo(c.size)
    PROVE  LET f == FragmentAt(id, c, sfn, i)
           IN  /\ FragmentSize(f) = Piece(c.size)
               /\ f.type # 1 => f.type1PacketSize = Piece(c.size)
               /\ f.type = 1 => /\ ~FitsType2(c.size)
                                /\ i < OfFragmentNoType1(c.size)
               /\ f.type = 3 => /\ ~FitsType2(c.size) /\ Type3Needed(c.size)
                                /\ i = OfFragmentNoType1(c.size)
               /\ f.type = 2 => /\ i = LastFragmentNo(c.size)
                                /\ f.pts = c.pts /\ Dts(f) = c.dts
                                /\ Payload(f) = [content |-> c.content, code |-> c.code]
                                /\ ~Truncated(f)
               /\ f.type \in {1, 2, 3}
<1>. DEFINE f == FragmentAt(id, c, sfn, i)
<1>1. c.size \in Nat /\ c.size <= LargestPacket
  BY CallsAssumption, NeverAnError
<1>2. ASSUME NEW of, NEW P, NEW off \in Int, f = Type2Fragment(id, c, sfn, of, P, off)
      PROVE  /\ f.type = 2 /\ f.type1PacketSize = P
             /\ f.pts = c.pts /\ Dts(f) = c.dts
             /\ Payload(f) = [content |-> c.content, code |-> c.code]
             /\ ~Truncated(f)
  <2>1. /\ f.type = 2 /\ f.type1PacketSize = P /\ f.pts = c.pts
        /\ f.dtsPtsDiff = PtsDtsDiff(c) % U32Mod
        /\ f.content = c.content /\ f.code = c.code
        /\ f.bytes = c.size - off /\ f.len = c.size - off
    BY <1>2 DEF Type2Fragment
  <2>. HIDE DEF f
  <2>2. Dts(f) = c.dts
    BY <2>1, SentDts DEF Dts
  <2>3. ~Truncated(f)
    BY <2>1, <1>1 DEF Truncated
  <2>. QED
    BY <2>1, <2>2, <2>3 DEF Payload
<1>3. CASE FitsType2(c.size)
  <2>1. i = 0 /\ f = Type2Fragment(id, c, sfn, 0, c.size, 0)
    BY <1>3 DEF LastFragmentNo, FragmentAt
  <2>2. f.type = 2 /\ f.type1PacketSize = c.size
    BY <2>1, <1>2
  <2>. QED
    BY <2>1, <2>2, <1>2, <1>3 DEF Piece, FragmentSize, LastFragmentNo
<1>4. CASE ~FitsType2(c.size)
  <2>. DEFINE n == OfFragmentNoType1(c.size)
              P == DataPayloadType1
              of == OfFragmentNo(c.size)
  <2>1. /\ n \in Nat /\ of \in Nat
        /\ of = n + (IF Type3Needed(c.size) THEN 1 ELSE 0)
        /\ DataPointerAtEnd(c.size) \in Int
    BY <1>1, <1>4, Cut
  <2>2. LastFragmentNo(c.size) = of /\ Piece(c.size) = P
    BY <1>4 DEF LastFragmentNo, Piece
  <2>3. CASE i < n
    <3>1. f = Type1Fragment(id, c, sfn, i)
      BY <1>4, <2>3 DEF FragmentAt
    <3>2. f.type = 1 /\ f.len = P
      BY <3>1 DEF Type1Fragment
    <3>. QED
      BY <3>2, <2>2, <2>3, <1>4 DEF FragmentSize
  <2>4. CASE i >= n /\ i < of
    <3>1. f = Type3Fragment(id, c, sfn) /\ Type3Needed(c.size) /\ i = n
      BY <1>4, <2>1, <2>4 DEF FragmentAt
    <3>2. f.type = 3 /\ f.type1PacketSize = P
      BY <3>1 DEF Type3Fragment
    <3>. QED
      BY <3>1, <3>2, <2>2, <1>4 DEF FragmentSize
  <2>5. CASE i = of
    <3>1. f = Type2Fragment(id, c, sfn, of, P, DataPointerAtEnd(c.size))
      BY <1>4, <2>1, <2>5 DEF FragmentAt
    <3>2. f.type = 2 /\ f.type1PacketSize = P
      BY <3>1, <2>1, <1>2
    <3>. QED
      BY <3>1, <3>2, <2>1, <2>2, <2>5, <1>2 DEF FragmentSize
  <2>. QED
    BY <2>1, <2>2, <2>3, <2>4, <2>5
<1>. QED
  BY <1>3, <1>4

LEMMA TimesCommutes == ASSUME NEW a \in Int, NEW b \in Int PROVE a * b = b * a
  OBVIOUS

(* lInsertDataPointer is where the fragment's bytes belong. *)
LEMMA PlacedRight ==
    ASSUME NEW id, NEW c \in Calls, NEW sfn, PackMessage(c) = "noError",
           NEW i \in 0 .. LastFragmentNo(c.size)
    PROVE  LET f == FragmentAt(id, c, sfn, i)
           IN  Chunks(f, InsertAt(f, Piece(c.size))) = HeldAt(id, c, sfn, i)
<1>. DEFINE f == FragmentAt(id, c, sfn, i)
<1>1. c.size \in Nat /\ c.size <= LargestPacket
  BY CallsAssumption, NeverAnError
<1>2. f.frag = i /\ f.len \in Nat /\ i \in Int
  BY <1>1, FragmentFacts, FragmentsArePositions
<1>3. /\ f.len > 0 => f.off = i * DataPayloadType1
      /\ FitsType2(c.size) => f.off = 0
  BY <1>1, FragmentPlace
<1>4. DataPayloadType1 \in Int
  BY PayloadSizes
<1>5. f.len > 0 => InsertAt(f, Piece(c.size)) = f.off
  <2>1. CASE FitsType2(c.size)
    BY <2>1, <1>1, <1>2, <1>3 DEF InsertAt, Piece, LastFragmentNo
  <2>2. CASE ~FitsType2(c.size)
    <3>1. i * DataPayloadType1 = DataPayloadType1 * i
      BY <1>2, <1>4, TimesCommutes
    <3>. QED
      BY <2>2, <3>1, <1>2, <1>3 DEF InsertAt, Piece
  <2>. QED
    BY <2>1, <2>2
<1>6. f.len = 0 \/ f.len > 0
  BY <1>2
<1>. QED
  BY <1>5, <1>6 DEF Chunks, HeldAt

(* The sizes a bucket is opened with, whichever fragment comes first. *)
LEMMA OpenSizes ==
    ASSUME NEW id, NEW c \in Calls, NEW sfn, PackMessage(c) = "noError",
           NEW i \in 0 .. LastFragmentNo(c.size)
    PROVE  LET f == FragmentAt(id, c, sfn, i)
           IN  /\ c.size <= ReserveThis(f)
               /\ FrameSizeOnOpen(f) <= ReserveThis(f)
               /\ EndKnown(c.size, {i}) => FrameSizeOnOpen(f) = c.size
<1>. DEFINE f == FragmentAt(id, c, sfn, i)
            P == DataPayloadType1
            n == OfFragmentNoType1(c.size)
            r == ReminderData(c.size)
            of == OfFragmentNo(c.size)
<1>1. c.size \in Nat /\ c.size <= LargestPacket
  BY CallsAssumption, NeverAnError
<1>2. /\ f.frag = i /\ f.of = LastFragmentNo(c.size) /\ f.len \in Nat /\ i \in Int
  BY <1>1, FragmentFacts, FragmentsArePositions
<1>3. /\ FragmentSize(f) = Piece(c.size)
      /\ f.type = 1 => ~FitsType2(c.size) /\ i < n
      /\ f.type = 3 => ~FitsType2(c.size) /\ Type3Needed(c.size) /\ i = n
      /\ f.type = 2 => i = LastFragmentNo(c.size)
      /\ f.type \in {1, 2, 3}
  BY FragmentSays
<1>4. CASE FitsType2(c.size)
  <2>1. i = 0 /\ f.type = 2 /\ f.len = c.size /\ FragmentSize(f) = c.size
    BY <1>1, <1>3, <1>4, FragmentPlace DEF LastFragmentNo, Piece
  <2>2. ReserveThis(f) = c.size
    BY <2>1, <1>1, <1>2 DEF ReserveThis
  <2>. QED
    BY <2>1, <2>2, <1>1 DEF FrameSizeOnOpen
<1>5. CASE ~FitsType2(c.size)
  <2>1. /\ n \in Nat /\ r \in Nat /\ n * P \in Nat /\ of \in Nat
        /\ c.size = n * P + r /\ r < P
        /\ of = n + (IF Type3Needed(c.size) THEN 1 ELSE 0)
        /\ DataPointerAtEnd(c.size) = n * P + (IF Type3Needed(c.size) THEN r ELSE 0)
    BY <1>1, <1>5, Cut
  <2>2. P \in Nat /\ P * n = n * P /\ P * (n + 1) = n * P + P
        /\ P * (n + 2) = n * P + P + P
    <3>1. P \in Nat
      BY PayloadSizes
    <3>. HIDE DEF P, n
    <3>. QED
      BY <3>1, <2>1
  <2>3. FragmentSize(f) = P /\ f.of = of /\ LastFragmentNo(c.size) = of
    BY <1>2, <1>3, <1>5 DEF Piece, LastFragmentNo
  <2>. DEFINE np == n * P
  <2>4. CASE f.type = 1
    <3>1. ReserveThis(f) = P * (of + 1) /\ FrameSizeOnOpen(f) = P * of
      BY <2>3, <2>4 DEF ReserveThis, FrameSizeOnOpen
    <3>2. i < n
      BY <1>3, <2>4
    <3>. HIDE DEF f, P, n, r, of, np
    <3>3. CASE Type3Needed(c.size)
      <4>1. of = n + 1 /\ of + 1 = n + 2
        BY <2>1, <3>3
      <4>2. ReserveThis(f) = np + P + P /\ FrameSizeOnOpen(f) = np + P
        BY <2>2, <3>1, <4>1 DEF np
      <4>3. EndKnown(c.size, {i}) => r = 0
        BY <3>2, <3>3, <2>1, <2>3, <1>5 DEF EndKnown, EndAt, r
      <4>4. r # 0
        BY <3>3, <2>1, PayloadSizes DEF Type3Needed, r
      <4>. QED
        BY <4>2, <4>3, <4>4, <2>1, <2>2 DEF f, np
    <3>4. CASE ~Type3Needed(c.size)
      <4>1. ReserveThis(f) = np + P /\ FrameSizeOnOpen(f) = np
        BY <2>1, <2>2, <3>1, <3>4 DEF np
      <4>2. EndKnown(c.size, {i}) => r = 0
        BY <3>2, <3>4, <2>1, <2>3, <1>5 DEF EndKnown, EndAt, r
      <4>. QED
        BY <4>1, <4>2, <2>1, <2>2 DEF f, np
    <3>. QED
      BY <3>3, <3>4
  <2>5. CASE f.type = 3
    <3>1. i = n /\ Type3Needed(c.size)
      BY <1>3, <2>5
    <3>2. f.len = r
      BY <3>1, <1>1, <1>5, FragmentPlace
    <3>3. ReserveThis(f) = P * n + r
      BY <2>3, <2>5, <3>1, <3>2, <1>2 DEF ReserveThis
    <3>4. FrameSizeOnOpen(f) = ReserveThis(f)
      BY <2>5 DEF FrameSizeOnOpen
    <3>. HIDE DEF f, P, n, r, of
    <3>. QED
      BY <3>3, <3>4, <2>1, <2>2 DEF f
  <2>6. CASE f.type = 2
    <3>1. i = of
      BY <1>3, <2>3, <2>6
    <3>2. f = Type2Fragment(id, c, sfn, of, P, DataPointerAtEnd(c.size))
      BY <3>1, <1>5, <2>1 DEF FragmentAt
    <3>3. f.len = c.size - DataPointerAtEnd(c.size)
      BY <3>2 DEF Type2Fragment
    <3>4. ReserveThis(f) = P * of + f.len
      BY <2>3, <2>6, <3>1, <1>2 DEF ReserveThis
    <3>5. FrameSizeOnOpen(f) = ReserveThis(f)
      BY <2>6 DEF FrameSizeOnOpen
    <3>. HIDE DEF f, P, n, r, of, np
    <3>6. CASE Type3Needed(c.size)
      <4>1. of = n + 1 /\ f.len = 0 /\ DataPointerAtEnd(c.size) = c.size
        BY <2>1, <3>3, <3>6, <1>1 DEF np
      <4>2. ReserveThis(f) = np + P
        BY <4>1, <2>1, <2>2, <3>4 DEF np
      <4>3. r # 0
        BY <3>6, <2>1, PayloadSizes DEF Type3Needed, r
      <4>4. ~EndKnown(c.size, {i})
        BY <4>1, <4>3, <3>1, <3>6, <2>1, <2>3, <1>5 DEF EndKnown, EndAt, r
      <4>. QED
        BY <4>2, <4>4, <3>5, <2>1, <2>2 DEF f, np
    <3>7. CASE ~Type3Needed(c.size)
      <4>1. of = n /\ f.len = r
        BY <2>1, <3>3, <3>7 DEF np
      <4>2. ReserveThis(f) = np + r
        BY <4>1, <2>1, <2>2, <3>4 DEF np
      <4>. QED
        BY <4>2, <3>5, <2>1, <2>2 DEF f, np
    <3>. QED
      BY <3>6, <3>7
  <2>. QED
    BY <1>3, <2>4, <2>5, <2>6
<1>. QED
  BY <1>4, <1>5

(* mFrameSize after a later fragment is the packet's size as soon as the   *)
(* end is known, and stays so.                                             *)
LEMMA LaterSize ==
    ASSUME NEW id, NEW c \in Calls, NEW sfn, PackMessage(c) = "noError",
           NEW i \in 0 .. LastFragmentNo(c.size), NEW b,
           NEW have \in SUBSET (0 .. LastFragmentNo(c.size)),
           have # {}, i \notin have, b.mFragmentSize = Piece(c.size),
           EndKnown(c.size, have) => b.data.frameSize = c.size
    PROVE  LET f == FragmentAt(id, c, sfn, i)
           IN  /\ FrameSizeOnAccept(b, f) \in {b.data.frameSize, c.size}
               /\ EndKnown(c.size, have \cup {i}) => FrameSizeOnAccept(b, f) = c.size
<1>. DEFINE f == FragmentAt(id, c, sfn, i)
            P == DataPayloadType1
            n == OfFragmentNoType1(c.size)
            r == ReminderData(c.size)
            of == OfFragmentNo(c.size)
<1>1. c.size \in Nat /\ c.size <= LargestPacket
  BY CallsAssumption, NeverAnError
<1>2. f.frag = i /\ f.len \in Nat /\ i \in Int
  BY <1>1, FragmentFacts, FragmentsArePositions
<1>3. /\ f.type = 1 => ~FitsType2(c.size) /\ i < n
      /\ f.type = 3 => ~FitsType2(c.size) /\ Type3Needed(c.size) /\ i = n
      /\ f.type = 2 => i = LastFragmentNo(c.size)
      /\ f.type \in {1, 2, 3}
  BY FragmentSays
<1>4. ~FitsType2(c.size)
  <2>. SUFFICES ASSUME FitsType2(c.size)
                PROVE  FALSE
    OBVIOUS
  <2>1. have \in SUBSET {0} /\ i = 0
    BY DEF LastFragmentNo
  <2>. QED
    BY <2>1
<1>5. /\ n \in Nat /\ r \in Nat /\ n * P \in Nat /\ of \in Nat
      /\ c.size = n * P + r /\ r < P
      /\ of = n + (IF Type3Needed(c.size) THEN 1 ELSE 0)
      /\ DataPointerAtEnd(c.size) = n * P + (IF Type3Needed(c.size) THEN r ELSE 0)
  BY <1>1, <1>4, Cut
<1>6. P * n = n * P
  <2>1. P \in Nat
    BY PayloadSizes
  <2>. HIDE DEF P, n
  <2>. QED
    BY <2>1, <1>5
<1>7. b.mFragmentSize = P /\ LastFragmentNo(c.size) = of
  BY <1>4 DEF Piece, LastFragmentNo
<1>8. EndAt(c.size) = n
  BY <1>4, <1>5, <1>7 DEF EndAt
<1>9. EndKnown(c.size, have \cup {i}) <=> EndKnown(c.size, have) \/ i = n
  BY <1>8 DEF EndKnown
<1>10. CASE f.type = 1
  BY <1>3, <1>5, <1>9, <1>10 DEF FrameSizeOnAccept
<1>11. CASE f.type = 3
  <2>1. f.len = r /\ i = n
    BY <1>1, <1>3, <1>4, <1>11, FragmentPlace
  <2>2. FrameSizeOnAccept(b, f) = P * n + r
    BY <2>1, <1>2, <1>7, <1>11 DEF FrameSizeOnAccept
  <2>. QED
    BY <2>2, <1>5, <1>6
<1>12. CASE f.type = 2
  <2>1. i = of
    BY <1>3, <1>7, <1>12
  <2>2. CASE Type3Needed(c.size)
    <3>1. f = Type2Fragment(id, c, sfn, of, P, DataPointerAtEnd(c.size))
      BY <2>1, <1>4, <1>5 DEF FragmentAt
    <3>2. f.len = c.size - DataPointerAtEnd(c.size)
      BY <3>1 DEF Type2Fragment
    <3>3. f.len = 0 /\ i # n
      BY <3>2, <2>1, <2>2, <1>1, <1>5
    <3>. QED
      BY <3>3, <1>9, <1>12 DEF FrameSizeOnAccept
  <2>3. CASE ~Type3Needed(c.size)
    <3>1. i = n
      BY <2>1, <2>3, <1>5
    <3>2. f.len = r
      BY <3>1, <1>1, <1>4, FragmentPlace
    <3>3. CASE r = 0
      <4>1. EndKnown(c.size, have)
        BY <3>3, <1>4 DEF EndKnown
      <4>. QED
        BY <4>1, <3>2, <3>3, <1>12 DEF FrameSizeOnAccept
    <3>4. CASE r # 0
      <4>1. FrameSizeOnAccept(b, f) = P * n + r
        BY <3>1, <3>2, <3>4, <1>2, <1>7, <1>12 DEF FrameSizeOnAccept
      <4>. QED
        BY <4>1, <1>5, <1>6
    <3>. QED
      BY <3>3, <3>4
  <2>. QED
    BY <2>2, <2>3
<1>. QED
  BY <1>3, <1>10, <1>11, <1>12

(***************************************************************************)
(* The fragments of a sender in a bucket.                                  *)
(***************************************************************************)

LEMMA SentAtPosition ==
    ASSUME SenderIInv, NEW s \in Sources, NEW n \in 1 .. Len(sent[s]),
           NEW f \in SentFragments(s, n)
    PROVE  /\ sent[s][n].call \in Calls
           /\ PackMessage(sent[s][n].call) = "noError"
           /\ sent[s][n].call.size \in Nat
           /\ sent[s][n].call.size <= LargestPacket
           /\ LastFragmentNo(sent[s][n].call.size) \in Nat
           /\ f.frag \in 0 .. LastFragmentNo(sent[s][n].call.size)
           /\ f = FragmentAt(<<s, n>>, sent[s][n].call, sent[s][n].sfn, f.frag)
           /\ f.id = <<s, n>> /\ f.sfn = sent[s][n].sfn
           /\ f.of = LastFragmentNo(sent[s][n].call.size)
<1>. DEFINE c == sent[s][n].call
            sfn == sent[s][n].sfn
            at(i) == FragmentAt(<<s, n>>, c, sfn, i)
<1>1. c \in Calls /\ PackMessage(c) = "noError" /\ c.size \in Nat /\ c.size <= LargestPacket
  BY SentCall
<1>2. /\ LastFragmentNo(c.size) \in Nat
      /\ FragmentsOf(<<s, n>>, c, sfn) = {at(i) : i \in 0 .. LastFragmentNo(c.size)}
  BY <1>1, FragmentsArePositions
<1>3. \A i \in 0 .. LastFragmentNo(c.size) :
          /\ at(i).frag = i /\ at(i).id = <<s, n>> /\ at(i).sfn = sfn
          /\ at(i).of = LastFragmentNo(c.size)
  BY <1>1, FragmentFacts
<1>4. f \in FragmentsOf(<<s, n>>, c, sfn)
  BY DEF SentFragments
<1>. HIDE DEF c, sfn, at
<1>5. PICK i \in 0 .. LastFragmentNo(c.size) : f = at(i)
  BY <1>2, <1>4
<1>. QED
  BY <1>1, <1>2, <1>3, <1>5 DEF c, sfn, at

LEMMA HeldGrows ==
    ASSUME NEW id, NEW c, NEW sfn, NEW have, NEW i
    PROVE  Held(id, c, sfn, have \cup {i}) =
              Held(id, c, sfn, have) \cup HeldAt(id, c, sfn, i)
  BY DEF Held

LEMMA HeldOfOne ==
    ASSUME NEW id, NEW c, NEW sfn, NEW i
    PROVE  Held(id, c, sfn, {i}) = HeldAt(id, c, sfn, i)
  BY DEF Held

LEMMA OpenedHolds ==
    ASSUME SenderIInv, NEW s \in Sources, NEW n \in 1 .. Len(sent[s]),
           NEW f \in SentFragments(s, n), NEW order, NEW streams,
           f.type = 2 => streams[f.stream] = Payload(f)
    PROVE  Holds(OpenedBucket(f, s, order, streams), s, n)
<1>. DEFINE c == sent[s][n].call
            sfn == sent[s][n].sfn
            id == <<s, n>>
            last == LastFragmentNo(c.size)
            i == f.frag
            b == OpenedBucket(f, s, order, streams)
<1>1. /\ c \in Calls /\ PackMessage(c) = "noError" /\ c.size \in Nat
      /\ c.size <= LargestPacket /\ last \in Nat /\ i \in 0 .. last
      /\ f = FragmentAt(id, c, sfn, i) /\ f.of = last /\ f.sfn = sfn
  BY SentAtPosition
<1>. HIDE DEF c, sfn, id, last, i
<1>2. /\ b.mSource = s /\ b.mSavedSuperFrameNo = sfn /\ b.mOfFragmentNo = last
      /\ b.mFragmentSize = FragmentSize(f) /\ b.mHaveReceivedFragment = {i}
      /\ b.data.chunks = Chunks(f, InsertAt(f, FragmentSize(f)))
      /\ b.data.cap = ReserveThis(f) /\ b.data.frameSize = FrameSizeOnOpen(f)
      /\ f.type = 2 => b.mPts = f.pts /\ b.mDts = Dts(f) /\ b.kind = Payload(f)
      /\ b.mStream = f.stream
  BY <1>1 DEF OpenedBucket, i
<1>3. /\ FragmentSize(f) = Piece(c.size)
      /\ f.type = 2 => /\ f.pts = c.pts /\ Dts(f) = c.dts
                       /\ Payload(f) = [content |-> c.content, code |-> c.code]
  BY <1>1, FragmentSays DEF last
<1>4. f.type = 2 <=> i = last
  BY <1>1, FragmentFacts DEF last
<1>5. f.stream = c.stream
  BY <1>1, FragmentFacts DEF last
<1>6. Chunks(f, InsertAt(f, Piece(c.size))) = Held(id, c, sfn, {i})
  BY <1>1, PlacedRight, HeldOfOne DEF last
<1>7. /\ c.size <= ReserveThis(f) /\ FrameSizeOnOpen(f) <= ReserveThis(f)
      /\ EndKnown(c.size, {i}) => FrameSizeOnOpen(f) = c.size
  BY <1>1, OpenSizes DEF last
<1>8. last \in {i} => i = last
  OBVIOUS
<1>. HIDE DEF b
<1>. QED
  BY <1>2, <1>3, <1>4, <1>5, <1>6, <1>7, <1>8 DEF Holds, c, sfn, id, last, b

LEMMA ExtendedHolds ==
    ASSUME SenderIInv, NEW s \in Sources, NEW n \in 1 .. Len(sent[s]),
           NEW f \in SentFragments(s, n), NEW b \in BucketRecord, Holds(b, s, n),
           NEW streams, f.type = 2 => streams[f.stream] = Payload(f),
           f.frag \notin b.mHaveReceivedFragment,
           b.mHaveReceivedFragment \subseteq 0 .. b.mOfFragmentNo,
           b.mHaveReceivedFragment # {}
    PROVE  Holds(ExtendedBucket(b, f, streams), s, n)
<1>. DEFINE c == sent[s][n].call
            sfn == sent[s][n].sfn
            id == <<s, n>>
            last == LastFragmentNo(c.size)
            i == f.frag
            have == b.mHaveReceivedFragment
            e == ExtendedBucket(b, f, streams)
<1>1. /\ c \in Calls /\ PackMessage(c) = "noError" /\ c.size \in Nat
      /\ c.size <= LargestPacket /\ last \in Nat /\ i \in 0 .. last
      /\ f = FragmentAt(id, c, sfn, i)
  BY SentAtPosition
<1>2. /\ b.mSource = s /\ b.mSavedSuperFrameNo = sfn /\ b.mOfFragmentNo = last
      /\ b.mFragmentSize = Piece(c.size) /\ b.data.chunks = Held(id, c, sfn, have)
      /\ c.size <= b.data.cap /\ b.data.frameSize <= b.data.cap
      /\ EndKnown(c.size, have) => b.data.frameSize = c.size
      /\ last \in have => /\ b.mPts = c.pts /\ b.mDts = c.dts
                          /\ b.kind = [content |-> c.content, code |-> c.code]
                          /\ b.mStream = c.stream
  BY DEF Holds
<1>. HIDE DEF c, sfn, id, last, i
<1>3. /\ e.mSource = b.mSource /\ e.mSavedSuperFrameNo = b.mSavedSuperFrameNo
      /\ e.mOfFragmentNo = b.mOfFragmentNo /\ e.mFragmentSize = b.mFragmentSize
      /\ e.mHaveReceivedFragment = have \cup {i}
      /\ e.mPts = IF f.type = 2 THEN f.pts ELSE b.mPts
      /\ e.mDts = IF f.type = 2 THEN Dts(f) ELSE b.mDts
      /\ e.kind = IF f.type = 2 THEN streams[f.stream] ELSE b.kind
      /\ e.mStream = IF f.type = 2 THEN f.stream ELSE b.mStream
      /\ e.data = [frameSize |-> FrameSizeOnAccept(b, f), cap |-> b.data.cap,
                   chunks |-> b.data.chunks \cup
                      Chunks(f, InsertAt(f, IF f.type = 2 THEN f.type1PacketSize
                                                          ELSE b.mFragmentSize))]
  BY DEF ExtendedBucket, BucketRecord, i
<1>4. /\ f.type # 1 => f.type1PacketSize = Piece(c.size)
      /\ f.type = 2 => /\ i = last
                       /\ f.pts = c.pts /\ Dts(f) = c.dts
                       /\ Payload(f) = [content |-> c.content, code |-> c.code]
  BY <1>1, FragmentSays DEF last
<1>5. f.type = 2 <=> i = last
  BY <1>1, FragmentFacts DEF last
<1>6. f.stream = c.stream
  BY <1>1, FragmentFacts DEF last
<1>7. Chunks(f, InsertAt(f, Piece(c.size))) = HeldAt(id, c, sfn, i)
  BY <1>1, PlacedRight DEF last
<1>8. Held(id, c, sfn, have \cup {i}) = Held(id, c, sfn, have) \cup HeldAt(id, c, sfn, i)
  BY HeldGrows
<1>9. have \in SUBSET (0 .. last) /\ have # {} /\ i \notin have
  BY <1>2 DEF i
<1>10. /\ FrameSizeOnAccept(b, f) \in {b.data.frameSize, c.size}
       /\ EndKnown(c.size, have \cup {i}) => FrameSizeOnAccept(b, f) = c.size
  <2>1. b.mFragmentSize = Piece(c.size) /\ (EndKnown(c.size, have) => b.data.frameSize = c.size)
    BY <1>2
  <2>2. c \in Calls /\ PackMessage(c) = "noError" /\ i \in 0 .. LastFragmentNo(c.size)
        /\ have \in SUBSET (0 .. LastFragmentNo(c.size)) /\ have # {} /\ i \notin have
    BY <1>1, <1>9 DEF last
  <2>. HIDE DEF have
  <2>3. LET g == FragmentAt(id, c, sfn, i)
        IN  /\ FrameSizeOnAccept(b, g) \in {b.data.frameSize, c.size}
            /\ EndKnown(c.size, have \cup {i}) => FrameSizeOnAccept(b, g) = c.size
    BY <2>1, <2>2, LaterSize
  <2>. QED
    BY <2>3, <1>1
<1>. HIDE DEF e, have
<1>11. /\ e.data.frameSize = FrameSizeOnAccept(b, f) /\ e.data.cap = b.data.cap
       /\ e.data.chunks = b.data.chunks \cup HeldAt(id, c, sfn, i)
  BY <1>2, <1>3, <1>4, <1>7
<1>12. last \in have \cup {i} => /\ e.mPts = c.pts /\ e.mDts = c.dts
                                /\ e.kind = [content |-> c.content, code |-> c.code]
                                /\ e.mStream = c.stream
  BY <1>2, <1>3, <1>4, <1>5, <1>6
<1>13. e.data.frameSize <= e.data.cap /\ c.size <= e.data.cap
  BY <1>2, <1>10, <1>11
<1>14. e.data.chunks = Held(id, c, sfn, e.mHaveReceivedFragment)
  BY <1>2, <1>3, <1>8, <1>11
<1>15. EndKnown(c.size, e.mHaveReceivedFragment) => e.data.frameSize = c.size
  BY <1>3, <1>10, <1>11
<1>16. e.mSource = s /\ e.mSavedSuperFrameNo = sfn /\ e.mOfFragmentNo = last
       /\ e.mFragmentSize = Piece(c.size)
  BY <1>2, <1>3
<1>. QED
  BY <1>3, <1>12, <1>13, <1>14, <1>15, <1>16 DEF Holds, c, sfn, id, last, e

(* A bucket is found by the 16 bit number alone: two sources, or more than *)
(* 2^16 superframes under way, would share buckets.                        *)
OneSource == \A s, t \in Sources : s = t
NumbersSuffice == MaxFrames <= U16Mod

LEMMA StreamsTold ==
    ASSUME StreamsTypeOK, NEW f, IsFragment(f), f.type = 2
    PROVE  StreamsAfter(f)[f.stream] = Payload(f)
  BY DEF StreamsTypeOK, IsFragment, StreamsAfter

(* A fragment with a payload that no sender made spoils the bucket. *)
LEMMA StraySpoils ==
    ASSUME NEW stray, NEW f \in stray, f.len # 0, NEW at, NEW chunks,
           Chunks(f, at) \subseteq chunks
    PROVE  Spoilt(chunks, stray)
<1>. DEFINE x == [at |-> at, off |-> f.off, len |-> f.len, id |-> f.id]
<1>1. x \in chunks /\ x.id = f.id
  BY DEF Chunks
<1>. QED
  BY <1>1 DEF Spoilt

LEMMA OpenSound ==
    ASSUME StreamsHaveEntries, Sources \subseteq Nat, SenderIInv, StreamsTypeOK,
           NEW stray, \A g \in stray : IsFragment(g) /\ g.len > 0,
           NEW f \in InFlight \cup stray, NEW order
    PROVE  Sound(OpenedBucket(f, f.id[1], order, StreamsAfter(f)), stray)
<1>. DEFINE b == OpenedBucket(f, f.id[1], order, StreamsAfter(f))
<1>1. CASE f \in stray
  <2>1. b.data.chunks = Chunks(f, InsertAt(f, FragmentSize(f)))
    BY DEF OpenedBucket
  <2>2. f.len # 0
    BY <1>1 DEF IsFragment
  <2>. HIDE DEF b
  <2>. QED
    BY <1>1, <2>1, <2>2, StraySpoils DEF Sound, b
<1>2. CASE f \in InFlight
  <2>0. PICK s \in Sources : \E n \in 1 .. Len(sent[s]) : f \in SentFragments(s, n)
    BY <1>2, InFlightIsSent
  <2>1. PICK n \in 1 .. Len(sent[s]) : f \in SentFragments(s, n)
    BY <2>0
  <2>2. f.id[1] = s
    <3>1. f.id = <<s, n>>
      BY <2>1, SentAtPosition
    <3>. QED
      BY <3>1
  <2>3. f.type = 2 => StreamsAfter(f)[f.stream] = Payload(f)
    BY <2>1, StreamsTold, SentFragmentsAreFragments
  <2>4. Holds(OpenedBucket(f, s, order, StreamsAfter(f)), s, n)
    BY <2>1, <2>3, OpenedHolds
  <2>. HIDE DEF b
  <2>. QED
    BY <2>1, <2>2, <2>4 DEF Sound, b
<1>. QED
  BY <1>1, <1>2

LEMMA AcceptSound ==
    ASSUME StreamsHaveEntries, OneSource, NumbersSuffice, Sources \subseteq Nat,
           SenderIInv, AssemblyInv,
           NEW stray, \A g \in stray : IsFragment(g) /\ g.len > 0,
           NEW f \in InFlight \cup stray, AcceptFragment(f),
           Sound(Bucket(f), stray), Slot(f.sfn) \in Slots
    PROVE  Sound(ExtendedBucket(Bucket(f), f, StreamsAfter(f)), stray)
<1>. DEFINE b == Bucket(f)
            e == ExtendedBucket(b, f, StreamsAfter(f))
<1>1. b \in BucketRecord
  BY DEF AssemblyInv, RingInv, RingTypeOK, Bucket
<1>2. /\ b.mActive /\ b.mSavedSuperFrameNo = f.sfn
      /\ f.frag \notin b.mHaveReceivedFragment
  BY DEF AcceptFragment, Fits
<1>3. /\ b.mHaveReceivedFragment \subseteq 0 .. b.mOfFragmentNo
      /\ b.mHaveReceivedFragment # {}
  <2>1. /\ b.mHaveReceivedFragment \subseteq 0 .. b.mOfFragmentNo
        /\ Cardinality(b.mHaveReceivedFragment) = b.mFragmentCounter + 1
    BY <1>2 DEF AssemblyInv, RingInv, FragmentsAccounted, Bucket
  <2>2. b.mFragmentCounter \in Nat
    BY <1>1 DEF BucketRecord
  <2>3. Cardinality({}) = 0
    BY FS_EmptySet
  <2>. HIDE DEF b
  <2>4. b.mHaveReceivedFragment = {} => Cardinality(b.mHaveReceivedFragment) = 0
    BY <2>3
  <2>. QED
    BY <2>1, <2>2, <2>4
<1>4. \E at : e.data.chunks = b.data.chunks \cup Chunks(f, at)
  BY <1>1 DEF ExtendedBucket, BucketRecord
<1>5. PICK at : e.data.chunks = b.data.chunks \cup Chunks(f, at)
  BY <1>4
<1>. HIDE DEF b, e
<1>6. CASE f \in stray
  <2>1. f.len # 0
    BY <1>6 DEF IsFragment
  <2>. QED
    BY <1>5, <1>6, <2>1, StraySpoils DEF Sound, e, b
<1>7. CASE Spoilt(b.data.chunks, stray)
  BY <1>5, <1>7 DEF Sound, Spoilt, e, b
<1>8. ASSUME f \in InFlight, NEW s \in Sources, NEW n \in 1 .. Len(sent[s]), Holds(b, s, n)
      PROVE  Sound(e, stray)
  <2>0. PICK t \in Sources : \E m \in 1 .. Len(sent[t]) : f \in SentFragments(t, m)
    BY <1>8, InFlightIsSent
  <2>1. PICK m \in 1 .. Len(sent[t]) : f \in SentFragments(t, m)
    BY <2>0
  <2>2. t = s
    BY DEF OneSource
  <2>3. f.sfn = sent[t][m].sfn
    BY <2>1, SentAtPosition
  <2>4. b.mSavedSuperFrameNo = sent[s][n].sfn
    BY <1>8 DEF Holds
  <2>5. m = n
    BY <1>2, <1>8, <2>1, <2>2, <2>3, <2>4, NumbersDiffer DEF NumbersSuffice
  <2>6. f \in SentFragments(s, n)
    BY <2>1, <2>2, <2>5
  <2>7. f.type = 2 => StreamsAfter(f)[f.stream] = Payload(f)
    BY <1>8, <2>6, StreamsTold, SentFragmentsAreFragments DEF AssemblyInv
  <2>8. Holds(e, s, n)
    BY <1>1, <1>2, <1>3, <1>8, <2>6, <2>7, ExtendedHolds DEF e
  <2>. QED
    BY <1>8, <2>8 DEF Sound
<1>9. b.mActive /\ Sound(b, stray)
  BY <1>2 DEF b
<1>. QED
  BY <1>6, <1>7, <1>8, <1>9 DEF Sound, e, b

LEMMA SoundStays ==
    ASSUME NEW stray, UNCHANGED senderVars
    PROVE  \A b : Sound(b, stray) => Sound(b, stray)'
<1>1. UNCHANGED sent
  BY DEF senderVars
<1>2. \A b, s, n : Holds(b, s, n) => Holds(b, s, n)'
  BY <1>1 DEF Holds
<1>. QED
  BY <1>1, <1>2 DEF Sound

LEMMA UnpackKeepsSound ==
    ASSUME StreamsHaveEntries, OneSource, NumbersSuffice, Sources \subseteq Nat,
           SenderIInv, AssemblyInv, UNCHANGED senderVars,
           NEW stray, \A g \in stray : IsFragment(g) /\ g.len > 0,
           NEW f \in InFlight \cup stray, NEW m, Unpack(f, f.id[1], m),
           BucketsSound(stray)
    PROVE  BucketsSound(stray)'
<1>1. IsFragment(f)
  BY InFlightAreFragments
<1>2. Slot(f.sfn) \in Slots /\ f.sfn \in U16
  BY <1>1, SlotOfNumber, f.sfn \in Int DEF IsFragment, U16
<1>3. \A b : Sound(b, stray) => Sound(b, stray)'
  BY SoundStays
<1>4. mBucketList \in [Slots -> BucketRecord] /\ StreamsTypeOK
  BY DEF AssemblyInv, RingInv, RingTypeOK
<1>5. ASSUME NEW b, Sound(b, stray), mBucketList' = [mBucketList EXCEPT ![Slot(f.sfn)] = b]
      PROVE  BucketsSound(stray)'
  <2>. SUFFICES ASSUME NEW slot \in Slots
                PROVE  Sound(mBucketList'[slot], stray)
    BY <1>3 DEF BucketsSound
  <2>. QED
    BY <1>2, <1>4, <1>5 DEF BucketsSound
<1>6. ASSUME NEW order PROVE Sound(ClosedBucket(order), stray)
  BY DEF Sound, ClosedBucket
<1>7. CASE UNCHANGED mBucketList
  BY <1>3, <1>7 DEF BucketsSound
<1>8. CASE OpenBucket(f, f.id[1])
  BY <1>4, <1>5, <1>8, OpenSound DEF OpenBucket
<1>9. CASE OpenAndClose(f)
  BY <1>5, <1>6, <1>9 DEF OpenAndClose
<1>10. CASE OutOfBounds(f)
  BY <1>5, <1>6, <1>10 DEF OutOfBounds
<1>11. CASE AcceptFragment(f)
  <2>1. Sound(Bucket(f), stray)
    BY <1>2 DEF BucketsSound, Bucket
  <2>2. Sound(ExtendedBucket(Bucket(f), f, StreamsAfter(f)), stray)
    BY <1>2, <1>11, <2>1, AcceptSound
  <2>. QED
    BY <1>2, <1>4, <1>5, <1>11, <2>2 DEF AcceptFragment, Bucket
<1>. QED
  BY <1>7, <1>8, <1>9, <1>10, <1>11 DEF Unpack, TooOldFragment, OpenWithoutMemory,
     OpenOutOfBounds, OutOfResources, DuplicatePacket, assemblyVars

LEMMA CloseSound ==
    ASSUME NEW stray, BucketsSound(stray), CloseDelivered, UNCHANGED senderVars
    PROVE  BucketsSound(stray)'
<1>1. \A b : Sound(b, stray) => Sound(b, stray)'
  BY SoundStays
<1>2. \A order : Sound(ClosedBucket(order), stray)
  BY DEF Sound, ClosedBucket
<1>. QED
  BY <1>1, <1>2 DEF BucketsSound, CloseDelivered

LEMMA StutterSound ==
    ASSUME NEW stray, BucketsSound(stray), UNCHANGED <<senderVars, mBucketList>>
    PROVE  BucketsSound(stray)'
<1>1. \A b : Sound(b, stray) => Sound(b, stray)'
  BY SoundStays
<1>. QED
  BY <1>1 DEF BucketsSound

(* What was sent is not taken back. *)
LEMMA LinkGrows ==
    ASSUME SenderIInv, (Send \/ Number \/ (Tick /\ UNCHANGED senderVars))
    PROVE  \A s \in Sources : \A n \in 1 .. Len(sent[s]) :
               n \in 1 .. Len(sent'[s]) /\ sent'[s][n] = sent[s][n]
<1>1. CASE Send
  <2>1. PICK s \in Sources, c \in Calls : PackAndSendAccepted(s, c, now)
    BY <1>1 DEF Send
  <2>2. PICK e : sent' = [sent EXCEPT ![s] = Append(sent[s], e)]
    BY <2>1 DEF PackAndSendAccepted
  <2>. SUFFICES ASSUME NEW t \in Sources, NEW n \in 1 .. Len(sent[t])
                PROVE  n \in 1 .. Len(sent'[t]) /\ sent'[t][n] = sent[t][n]
    OBVIOUS
  <2>3. sent \in [Sources -> Seq(SentFrame)]
    BY DEF SenderIInv
  <2>4. CASE t = s
    <3>1. sent[s] \in Seq(SentFrame) /\ sent'[s] = Append(sent[s], e)
      BY <2>2, <2>3
    <3>. QED
      BY <2>4, <3>1
  <2>5. CASE t # s
    BY <2>2, <2>3, <2>5
  <2>. QED
    BY <2>4, <2>5
<1>2. CASE Number
  BY <1>2 DEF Number, SetSuperFrameNo
<1>3. CASE Tick /\ UNCHANGED senderVars
  BY <1>3 DEF senderVars
<1>. QED
  BY <1>1, <1>2, <1>3

LEMMA SendSound ==
    ASSUME SenderIInv, (Send \/ Number \/ (Tick /\ UNCHANGED senderVars)),
           NEW stray, BucketsSound(stray), UNCHANGED mBucketList
    PROVE  BucketsSound(stray)'
<1>1. \A s \in Sources : \A n \in 1 .. Len(sent[s]) :
          n \in 1 .. Len(sent'[s]) /\ sent'[s][n] = sent[s][n]
  BY LinkGrows
<1>2. ASSUME NEW b, NEW s \in Sources, NEW n \in 1 .. Len(sent[s]), Holds(b, s, n)
      PROVE  Holds(b, s, n)'
  BY <1>1, <1>2 DEF Holds
<1>3. \A b : Sound(b, stray) => Sound(b, stray)'
  BY <1>1, <1>2 DEF Sound, Spoilt
<1>. QED
  BY <1>3 DEF BucketsSound

(***************************************************************************)
(* What is handed over.                                                    *)
(***************************************************************************)
HandedRight(d, stray) ==
    \/ Spoilt(d.chunks, stray)
    \/ \E s \in Sources : \E n \in 1 .. Len(sent[s]) :
          /\ SentAs(d, s, n)
          /\ d.chunks \subseteq ChunksOf(s, n)
          /\ ~d.mBroken => d.chunks = ChunksOf(s, n) /\ PacketIn(d) = sent[s][n].call

LEMMA HeldIsPart ==
    ASSUME SenderIInv, NEW s \in Sources, NEW n \in 1 .. Len(sent[s])
    PROVE  LET c == sent[s][n].call
               all == 0 .. LastFragmentNo(c.size)
               held(have) == Held(<<s, n>>, c, sent[s][n].sfn, have)
           IN  /\ held(all) = ChunksOf(s, n)
               /\ \A have \in SUBSET all : held(have) \subseteq ChunksOf(s, n)
<1>. DEFINE c == sent[s][n].call
            sfn == sent[s][n].sfn
            id == <<s, n>>
            all == 0 .. LastFragmentNo(c.size)
            at(i) == FragmentAt(id, c, sfn, i)
            chunk(f) == [at |-> f.off, off |-> f.off, len |-> f.len, id |-> id]
<1>1. c.size \in Nat /\ c.size <= LargestPacket
  BY SentCall
<1>2. SentFragments(s, n) = {at(i) : i \in all}
  BY <1>1, FragmentsArePositions DEF SentFragments
<1>3. \A i \in all : at(i).id = id /\ at(i).len \in Nat
  BY <1>1, FragmentFacts
<1>4. ASSUME NEW i \in all
      PROVE  HeldAt(id, c, sfn, i) = IF at(i).len = 0 THEN {} ELSE {chunk(at(i))}
  BY <1>3 DEF HeldAt, Chunks
<1>5. ChunksOf(s, n) = {chunk(f) : f \in {g \in SentFragments(s, n) : g.len > 0}}
  BY DEF ChunksOf
<1>. HIDE DEF c, sfn, id, all, at, chunk
<1>6. \A have \in SUBSET all : Held(id, c, sfn, have) \subseteq ChunksOf(s, n)
  <2>. SUFFICES ASSUME NEW have \in SUBSET all, NEW x \in Held(id, c, sfn, have)
                PROVE  x \in ChunksOf(s, n)
    OBVIOUS
  <2>1. PICK i \in have : x \in HeldAt(id, c, sfn, i)
    BY DEF Held
  <2>2. i \in all /\ at(i).len # 0 /\ x = chunk(at(i))
    BY <2>1, <1>4
  <2>3. at(i) \in SentFragments(s, n) /\ at(i).len > 0
    BY <2>2, <1>2, <1>3
  <2>. QED
    BY <2>2, <2>3, <1>5
<1>7. ChunksOf(s, n) \subseteq Held(id, c, sfn, all)
  <2>. SUFFICES ASSUME NEW x \in ChunksOf(s, n)
                PROVE  x \in Held(id, c, sfn, all)
    OBVIOUS
  <2>1. PICK f \in SentFragments(s, n) : f.len > 0 /\ x = chunk(f)
    BY <1>5
  <2>2. PICK i \in all : f = at(i)
    BY <1>2
  <2>3. x \in HeldAt(id, c, sfn, i)
    BY <2>1, <2>2, <1>4
  <2>. QED
    BY <2>3 DEF Held
<1>8. all \in SUBSET all
  OBVIOUS
<1>9. Held(id, c, sfn, all) = ChunksOf(s, n)
  BY <1>6, <1>7, <1>8
<1>. QED
  BY <1>6, <1>9 DEF c, sfn, id, all

(* A superframe is complete when all its fragments are there. *)
LEMMA CompleteHasAll ==
    ASSUME AssemblyInv, NEW slot \in Slots, mBucketList[slot].mActive,
           Complete(mBucketList[slot])
    PROVE  mBucketList[slot].mHaveReceivedFragment = 0 .. mBucketList[slot].mOfFragmentNo
<1>. DEFINE b == mBucketList[slot]
            have == b.mHaveReceivedFragment
            of == b.mOfFragmentNo
<1>1. b \in BucketRecord /\ of \in Nat
  BY DEF AssemblyInv, RingInv, RingTypeOK, BucketRecord
<1>2. have \subseteq 0 .. of /\ Cardinality(have) = of + 1
  BY DEF AssemblyInv, RingInv, FragmentsAccounted, Complete
<1>. HIDE DEF have, of
<1>3. IsFiniteSet(0 .. of) /\ Cardinality(0 .. of) = of + 1
  BY <1>1, FS_Interval, 0 \in Int, of \in Int
<1>. QED
  BY <1>2, <1>3, FS_Subset DEF have, of

LEMMA HandedIsSent ==
    ASSUME SenderIInv, AssemblyInv, NEW stray, BucketsSound(stray),
           NEW k \in DOMAIN mBucketMap
    PROVE  HandedRight(SuperFrame(k), stray)
<1>. DEFINE slot == mBucketMap[k]
            b == mBucketList[slot]
            d == SuperFrame(k)
<1>1. slot \in Slots /\ b.mActive /\ b \in BucketRecord
  BY DEF AssemblyInv, RingInv, RingTypeOK, MapMatchesBuckets
<1>2. Sound(b, stray)
  BY <1>1 DEF BucketsSound
<1>3. d = [order |-> k, openedAt |-> b.openedAt, mBroken |-> ~Complete(b),
           mSuperFrameNo |-> b.mSavedSuperFrameNo, mFrameSize |-> b.data.frameSize,
           chunks |-> b.data.chunks, mPts |-> b.mPts, mDts |-> b.mDts,
           kind |-> b.kind, mStreamID |-> b.mStream, mSource |-> b.mSource]
  BY DEF SuperFrame, BucketAt
<1>4. /\ d.mBroken = ~Complete(b) /\ d.mSuperFrameNo = b.mSavedSuperFrameNo
      /\ d.mFrameSize = b.data.frameSize /\ d.chunks = b.data.chunks
      /\ d.mPts = b.mPts /\ d.mDts = b.mDts /\ d.kind = b.kind
      /\ d.mStreamID = b.mStream /\ d.mSource = b.mSource
  BY <1>3
<1>5. b.mHaveReceivedFragment \subseteq 0 .. b.mOfFragmentNo
  BY <1>1 DEF AssemblyInv, RingInv, FragmentsAccounted
<1>6. Complete(b) => b.mHaveReceivedFragment = 0 .. b.mOfFragmentNo
  BY <1>1, CompleteHasAll
<1>. HIDE DEF d, b, slot
<1>7. ASSUME NEW s \in Sources, NEW n \in 1 .. Len(sent[s]), Holds(b, s, n)
      PROVE  /\ SentAs(d, s, n)
             /\ d.chunks \subseteq ChunksOf(s, n)
             /\ ~d.mBroken => d.chunks = ChunksOf(s, n) /\ PacketIn(d) = sent[s][n].call
  <2>. DEFINE c == sent[s][n].call
              last == LastFragmentNo(c.size)
              have == b.mHaveReceivedFragment
  <2>1. c \in Calls /\ c.size \in Nat /\ c.size <= LargestPacket /\ last \in Nat
    BY SentCall, FragmentsArePositions
  <2>2. /\ b.mSource = s /\ b.mSavedSuperFrameNo = sent[s][n].sfn
        /\ b.mOfFragmentNo = last
        /\ b.data.chunks = Held(<<s, n>>, c, sent[s][n].sfn, have)
        /\ EndKnown(c.size, have) => b.data.frameSize = c.size
        /\ last \in have => /\ b.mPts = c.pts /\ b.mDts = c.dts
                            /\ b.kind = [content |-> c.content, code |-> c.code]
                            /\ b.mStream = c.stream
    BY <1>7 DEF Holds
  <2>3. SentAs(d, s, n)
    BY <1>4, <2>2 DEF SentAs
  <2>4. d.chunks \subseteq ChunksOf(s, n)
    <3>1. have \in SUBSET (0 .. last)
      BY <1>5, <2>2
    <3>2. Held(<<s, n>>, c, sent[s][n].sfn, have) \subseteq ChunksOf(s, n)
      BY <3>1, HeldIsPart
    <3>. QED
      BY <1>4, <2>2, <3>2
  <2>5. ASSUME ~d.mBroken
        PROVE  d.chunks = ChunksOf(s, n) /\ PacketIn(d) = c
    <3>1. have = 0 .. last
      BY <1>4, <1>6, <2>2, <2>5
    <3>2. d.chunks = ChunksOf(s, n)
      BY <1>4, <2>2, <3>1, HeldIsPart
    <3>3. last \in have
      BY <2>1, <3>1
    <3>4. EndKnown(c.size, have)
      <4>1. CASE ~FitsType2(c.size) /\ Type3Needed(c.size)
        <5>1. last - 1 \in 0 .. last
          BY <4>1, <2>1, Cut DEF LastFragmentNo
        <5>. QED
          BY <5>1, <4>1, <3>1 DEF EndKnown, EndAt
      <4>2. CASE ~(~FitsType2(c.size) /\ Type3Needed(c.size))
        BY <4>2, <3>3 DEF EndKnown, EndAt
      <4>. QED
        BY <4>1, <4>2
    <3>5. /\ d.mFrameSize = c.size /\ d.mPts = c.pts /\ d.mDts = c.dts
          /\ d.kind = [content |-> c.content, code |-> c.code] /\ d.mStreamID = c.stream
      BY <1>4, <2>2, <3>3, <3>4
    <3>6. c = [size |-> c.size, pts |-> c.pts, dts |-> c.dts, content |-> c.content,
               code |-> c.code, stream |-> c.stream]
      BY <2>1, CallsAssumption
    <3>. HIDE DEF c
    <3>7. PacketIn(d) = [size |-> c.size, pts |-> c.pts, dts |-> c.dts,
                         content |-> c.content, code |-> c.code, stream |-> c.stream]
      BY <3>5 DEF PacketIn
    <3>. QED
      BY <3>2, <3>6, <3>7
  <2>. QED
    BY <2>3, <2>4, <2>5
<1>. QED
  BY <1>1, <1>2, <1>4, <1>7 DEF HandedRight, Sound, d, b

LEMMA HandedStaysRight ==
    ASSUME NEW d, NEW stray, HandedRight(d, stray),
           \A s \in Sources : \A n \in 1 .. Len(sent[s]) :
               n \in 1 .. Len(sent'[s]) /\ sent'[s][n] = sent[s][n]
    PROVE  HandedRight(d, stray)'
<1>1. CASE Spoilt(d.chunks, stray)
  BY <1>1 DEF HandedRight, Spoilt
<1>2. ASSUME NEW s \in Sources, NEW n \in 1 .. Len(sent[s]),
             SentAs(d, s, n), d.chunks \subseteq ChunksOf(s, n),
             ~d.mBroken => d.chunks = ChunksOf(s, n) /\ PacketIn(d) = sent[s][n].call
      PROVE  HandedRight(d, stray)'
  <2>1. n \in 1 .. Len(sent'[s]) /\ sent'[s][n] = sent[s][n]
    OBVIOUS
  <2>2. SentAs(d, s, n)' /\ ChunksOf(s, n)' = ChunksOf(s, n)
    BY <2>1, <1>2 DEF SentAs, ChunksOf, SentFragments
  <2>. QED
    BY <1>2, <2>1, <2>2 DEF HandedRight, PacketIn
<1>. QED
  BY <1>1, <1>2 DEF HandedRight

(* Without strays, every write lies inside the packet, and the packet      *)
(* inside the allocation.                                                  *)
LEMMA SoundInBounds ==
    ASSUME SenderIInv, AssemblyInv, BucketsSound({})
    PROVE  WritesInBounds
<1>. SUFFICES ASSUME NEW slot \in Slots, mBucketList[slot].mActive
              PROVE  LET b == mBucketList[slot]
                     IN  /\ \A x \in b.data.chunks : x.at + x.len <= b.data.cap
                         /\ b.data.frameSize <= b.data.cap
  BY DEF WritesInBounds
<1>. DEFINE b == mBucketList[slot]
<1>1. b \in BucketRecord
  BY DEF AssemblyInv, RingInv, RingTypeOK
<1>2. PICK s \in Sources : \E n \in 1 .. Len(sent[s]) : Holds(b, s, n)
  BY DEF BucketsSound, Sound, Spoilt
<1>3. PICK n \in 1 .. Len(sent[s]) : Holds(b, s, n)
  BY <1>2
<1>. DEFINE c == sent[s][n].call
            sfn == sent[s][n].sfn
            id == <<s, n>>
            last == LastFragmentNo(c.size)
<1>4. /\ b.mHaveReceivedFragment \in SUBSET (0 .. b.mOfFragmentNo)
      /\ b.data.cap \in Nat
  BY <1>1 DEF AssemblyInv, RingInv, FragmentsAccounted, BucketRecord, Data
<1>. HIDE DEF b
<1>5. /\ b.mOfFragmentNo = last /\ c.size <= b.data.cap
      /\ b.data.chunks = Held(id, c, sfn, b.mHaveReceivedFragment)
      /\ b.data.frameSize <= b.data.cap
  BY <1>3 DEF Holds
<1>6. c.size \in Nat /\ c.size <= LargestPacket
  BY SentCall
<1>. HIDE DEF c, sfn, id, last
<1>7. ASSUME NEW x \in b.data.chunks
      PROVE  x.at + x.len <= b.data.cap
  <2>1. PICK i \in b.mHaveReceivedFragment : x \in HeldAt(id, c, sfn, i)
    BY <1>5 DEF Held
  <2>2. i \in 0 .. last
    BY <1>4, <1>5
  <2>. DEFINE f == FragmentAt(id, c, sfn, i)
  <2>3. x = [at |-> f.off, off |-> f.off, len |-> f.len, id |-> f.id]
    BY <2>1 DEF HeldAt, Chunks
  <2>4. f.off \in Nat /\ f.len \in Nat /\ f.off + f.len <= c.size
    BY <2>2, <1>6, FragmentFacts DEF last
  <2>. HIDE DEF f
  <2>5. x.at = f.off /\ x.len = f.len
    BY <2>3
  <2>. QED
    BY <2>4, <2>5, <1>4, <1>5, <1>6
<1>. QED
  BY <1>5, <1>7 DEF b

(***************************************************************************)
(* When superframes are given up.                                          *)
(***************************************************************************)

(* The time-outs in microseconds fit the uint32_t they are computed in. *)
TimeOutsFit ==
    BucketTimeoutMs * UsPerMs < U32Mod /\ HolTimeoutMs * UsPerMs < U32Mod

TimeOutSet(b) == b.mActive => b.mTimeout = b.openedAt + BucketTimeout

TimeOutsSet == \A slot \in Slots : TimeOutSet(mBucketList[slot])

LEMMA TimeOutsSetInit == AssemblyInit => TimeOutsSet
  BY DEF AssemblyInit, TimeOutsSet, TimeOutSet, ClosedBucket

LEMMA UnpackKeepsTimeOuts ==
    ASSUME AssemblyInv, TimeOutsSet, NEW f, IsFragment(f), NEW src, NEW m,
           Unpack(f, src, m)
    PROVE  TimeOutsSet'
<1>1. Slot(f.sfn) \in Slots /\ mBucketList \in [Slots -> BucketRecord]
  BY SlotOfNumber, f.sfn \in Int DEF IsFragment, U16, AssemblyInv, RingInv, RingTypeOK
<1>2. ASSUME NEW b, TimeOutSet(b), mBucketList' = [mBucketList EXCEPT ![Slot(f.sfn)] = b]
      PROVE  TimeOutsSet'
  BY <1>1, <1>2 DEF TimeOutsSet, TimeOutSet
<1>3. ASSUME NEW order PROVE TimeOutSet(ClosedBucket(order))
  BY DEF TimeOutSet, ClosedBucket
<1>4. CASE UNCHANGED mBucketList
  BY <1>4 DEF TimeOutsSet, TimeOutSet
<1>5. CASE OpenBucket(f, src)
  <2>1. \A order : TimeOutSet(OpenedBucket(f, src, order, StreamsAfter(f)))
    BY DEF TimeOutSet, OpenedBucket
  <2>. QED
    BY <1>2, <1>5, <2>1 DEF OpenBucket
<1>6. CASE OpenAndClose(f)
  BY <1>2, <1>3, <1>6 DEF OpenAndClose
<1>7. CASE OutOfBounds(f)
  BY <1>2, <1>3, <1>7 DEF OutOfBounds
<1>8. CASE AcceptFragment(f)
  <2>. DEFINE b == mBucketList[Slot(f.sfn)]
  <2>1. TimeOutSet(b) /\ b \in BucketRecord
    BY <1>1 DEF TimeOutsSet
  <2>. HIDE DEF b
  <2>2. TimeOutSet(ExtendedBucket(b, f, StreamsAfter(f)))
    BY <2>1 DEF TimeOutSet, ExtendedBucket, BucketRecord
  <2>. QED
    BY <1>1, <1>2, <1>8, <2>2 DEF AcceptFragment, b
<1>. QED
  BY <1>4, <1>5, <1>6, <1>7, <1>8 DEF Unpack, TooOldFragment, OpenWithoutMemory,
     OpenOutOfBounds, OutOfResources, DuplicatePacket, assemblyVars

LEMMA CloseKeepsTimeOuts == ASSUME TimeOutsSet, CloseDelivered PROVE TimeOutsSet'
  BY DEF TimeOutsSet, TimeOutSet, CloseDelivered, ClosedBucket

LEMMA StutterKeepsTimeOuts ==
    ASSUME TimeOutsSet, UNCHANGED mBucketList PROVE TimeOutsSet'
  BY DEF TimeOutsSet, TimeOutSet

(* A superframe handed over broken is past its time-outs. *)
LEMMA BrokenIsLate ==
    ASSUME AssemblyInv, TimeOutsFit, TimeOutsSet, now \in Nat, lTimeNow \in Nat,
           lTimeNow <= now, NEW k \in DOMAIN mBucketMap, Due(k),
           SuperFrame(k).mBroken
    PROVE  now >= SuperFrame(k).openedAt
                    + (BucketTimeoutMs + (IF HolMode THEN HolTimeoutMs ELSE 0)) * UsPerMs
<1>. DEFINE b == BucketAt(k)
            bt == BucketTimeoutMs * UsPerMs
            ht == HolTimeoutMs * UsPerMs
<1>1. b.mActive /\ TimeOutSet(b) /\ b \in BucketRecord
  BY DEF AssemblyInv, RingInv, RingTypeOK, MapMatchesBuckets, TimeOutsSet, BucketAt
<1>2. bt \in Nat /\ ht \in Nat /\ bt < U32Mod /\ ht < U32Mod
  BY ProductType, AssemblyAssumption, HolAssumption DEF TimeOutsFit
<1>3. BucketTimeout = bt /\ HolTimeout = ht
  <2>1. BucketTimeout = bt % U32Mod /\ HolTimeout = ht % U32Mod
    BY DEF BucketTimeout, HolTimeout
  <2>. HIDE DEF bt, ht
  <2>2. bt % U32Mod = bt
    BY <1>2, Moduli, ModIs, bt = U32Mod * 0 + bt
  <2>3. ht % U32Mod = ht
    BY <1>2, Moduli, ModIs, ht = U32Mod * 0 + ht
  <2>. QED
    BY <2>1, <2>2, <2>3
<1>4. /\ (BucketTimeoutMs + HolTimeoutMs) * UsPerMs = bt + ht
      /\ (BucketTimeoutMs + 0) * UsPerMs = bt
  BY AssemblyAssumption, HolAssumption
<1>5. ~Complete(b) /\ SuperFrame(k).openedAt = b.openedAt
  BY DEF SuperFrame
<1>6. b.openedAt \in Nat
  BY <1>1 DEF BucketRecord
<1>7. b.mTimeout = b.openedAt + bt
  BY <1>1, <1>3 DEF TimeOutSet
<1>8. CASE HolMode
  <2>1. b.mTimeout + ht <= lTimeNow
    BY <1>3, <1>5, <1>8 DEF Due, ExpectedAndComplete, HolTimedOut
  <2>. HIDE DEF b, bt, ht
  <2>. QED
    BY <2>1, <1>2, <1>4, <1>5, <1>6, <1>7, <1>8
<1>9. CASE ~HolMode
  <2>1. b.mTimeout <= lTimeNow
    BY <1>5, <1>9 DEF Due, TimedOut
  <2>. HIDE DEF b, bt, ht
  <2>. QED
    BY <2>1, <1>2, <1>4, <1>5, <1>6, <1>7, <1>9
<1>. QED
  BY <1>8, <1>9

(***************************************************************************)
(* What the senders and the link let the receiver rely on: superframes are *)
(* sent one after the other, numbered from the first one.                  *)
(***************************************************************************)
SendInstants ==
    /\ now \in Nat
    /\ \A s \in Sources : \A n \in 1 .. Len(sent[s]) :
          /\ sent[s][n].at <= now
          /\ \A m \in 1 .. n : sent[s][m].at <= sent[s][n].at

FirstNumbers ==
    \A s \in Sources :
        IF sent[s] = <<>> THEN mSuperFrameNoGenerator[s] \in StartNumbers \cup {0}
                          ELSE sent[s][1].sfn \in StartNumbers \cup {0}

LinkInv == SendInstants /\ FirstNumbers

LEMMA LinkInvInit == LinkInit => LinkInv
  BY DEF LinkInit, ClockInit, SenderInit, LinkInv, SendInstants, FirstNumbers

LEMMA LinkInvStutter == LinkInv /\ UNCHANGED linkVars => LinkInv'
  BY DEF linkVars, senderVars, LinkInv, SendInstants, FirstNumbers

LEMMA LinkInvNext ==
    ASSUME SenderIInv, LinkInv, Send \/ Number \/ (Tick /\ UNCHANGED senderVars)
    PROVE  LinkInv'
<1>0. sent \in [Sources -> Seq(SentFrame)] /\ now \in Nat
      /\ mSuperFrameNoGenerator \in [Sources -> U16]
  BY DEF SenderIInv, LinkInv, SendInstants
<1>1. CASE Send
  <2>1. PICK s \in Sources, c \in Calls : PackAndSendAccepted(s, c, now)
    BY <1>1 DEF Send
  <2>. DEFINE e == [call |-> c, sfn |-> mSuperFrameNoGenerator[s], at |-> now]
              old == sent[s]
  <2>2. /\ sent' = [sent EXCEPT ![s] = Append(old, e)] /\ now' = now
        /\ e.at = now /\ e.sfn = mSuperFrameNoGenerator[s]
        /\ mSuperFrameNoGenerator' = [mSuperFrameNoGenerator EXCEPT ![s] = (@ + 1) % U16Mod]
    BY <1>1, <2>1 DEF PackAndSendAccepted, Send
  <2>3. old \in Seq(SentFrame) /\ sent'[s] = Append(old, e)
        /\ \A t \in Sources \ {s} : sent'[t] = sent[t]
              /\ mSuperFrameNoGenerator'[t] = mSuperFrameNoGenerator[t]
    BY <1>0, <2>2
  <2>4. Len(old) \in Nat /\ Len(sent'[s]) = Len(old) + 1
        /\ sent'[s][Len(old) + 1] = e
        /\ \A n \in 1 .. Len(old) : sent'[s][n] = old[n]
    BY <2>3
  <2>5. \A n \in 1 .. Len(old) : old[n].at <= now /\ old[n].at \in Nat
    <3>1. \A n \in 1 .. Len(old) : old[n] \in SentFrame
      BY <2>3
    <3>. QED
      BY <3>1 DEF LinkInv, SendInstants, SentFrame
  <2>6. ASSUME NEW n \in 1 .. Len(sent'[s]), NEW m \in 1 .. n
        PROVE  sent'[s][n].at <= now /\ sent'[s][m].at <= sent'[s][n].at
    <3>. HIDE DEF e
    <3>1. CASE n = Len(old) + 1
      <4>1. m = n \/ m \in 1 .. Len(old)
        BY <3>1, <2>4
      <4>. QED
        BY <3>1, <4>1, <2>2, <2>4, <2>5, <1>0
    <3>2. CASE n # Len(old) + 1
      <4>1. n \in 1 .. Len(old) /\ m \in 1 .. Len(old)
        BY <3>2, <2>4
      <4>2. old[n].at <= now /\ old[m].at <= old[n].at
        BY <4>1 DEF LinkInv, SendInstants
      <4>. QED
        BY <4>1, <4>2, <2>4
    <3>. QED
      BY <3>1, <3>2
  <2>7. SendInstants'
    <3>1. ASSUME NEW t \in Sources, NEW n \in 1 .. Len(sent'[t])
          PROVE  sent'[t][n].at <= now' /\ \A m \in 1 .. n : sent'[t][m].at <= sent'[t][n].at
      <4>1. CASE t = s
        <5>1. n \in 1 .. n
          BY <2>4, <4>1
        <5>. QED
          BY <4>1, <2>2, <2>6
      <4>2. CASE t # s
        BY <4>2, <2>2, <2>3 DEF LinkInv, SendInstants
      <4>. QED
        BY <4>1, <4>2
    <3>. QED
      BY <1>0, <2>2, <3>1 DEF SendInstants
  <2>8. FirstNumbers'
    <3>1. ASSUME NEW t \in Sources
          PROVE  \/ sent'[t] # <<>> /\ sent'[t][1].sfn \in StartNumbers \cup {0}
                 \/ /\ t # s
                    /\ IF sent'[t] = <<>>
                       THEN mSuperFrameNoGenerator'[t] \in StartNumbers \cup {0}
                       ELSE sent'[t][1].sfn \in StartNumbers \cup {0}
      <4>1. CASE t = s
        <5>1. sent'[s] # <<>>
          BY <2>3, <2>4
        <5>2. CASE old = <<>>
          BY <4>1, <5>1, <5>2, <2>2, <2>4 DEF LinkInv, FirstNumbers
        <5>3. CASE old # <<>>
          <6>1. 1 \in 1 .. Len(old)
            BY <5>3, <2>3
          <6>. QED
            BY <4>1, <5>1, <5>3, <6>1, <2>4 DEF LinkInv, FirstNumbers
        <5>. QED
          BY <5>2, <5>3
      <4>2. CASE t # s
        BY <4>2, <2>3 DEF LinkInv, FirstNumbers
      <4>. QED
        BY <4>1, <4>2
    <3>. QED
      BY <3>1 DEF FirstNumbers
  <2>. QED
    BY <2>7, <2>8 DEF LinkInv
<1>2. CASE Number
  <2>1. PICK s \in Sources, n \in StartNumbers : SetSuperFrameNo(s, n)
    BY <1>2 DEF Number
  <2>. QED
    BY <1>0, <1>2, <2>1 DEF Number, SetSuperFrameNo, LinkInv, SendInstants, FirstNumbers
<1>3. CASE Tick /\ UNCHANGED senderVars
  <2>1. \A s \in Sources : \A n \in 1 .. Len(sent[s]) : sent[s][n].at \in Nat
    <3>1. \A s \in Sources : \A n \in 1 .. Len(sent[s]) : sent[s][n] \in SentFrame
      BY <1>0
    <3>. QED
      BY <3>1 DEF SentFrame
  <2>2. now' = now + 1 /\ UNCHANGED <<sent, mSuperFrameNoGenerator>>
    BY <1>3 DEF Tick, senderVars
  <2>. QED
    BY <1>0, <2>1, <2>2 DEF LinkInv, SendInstants, FirstNumbers
<1>. QED
  BY <1>1, <1>2, <1>3

(***************************************************************************)
(* Places.  The order of the n-th superframe is n less a base, which the   *)
(* first number the receiver is told sets.                                 *)
(***************************************************************************)
Ord(n, base) == (n - base) % U64Mod

(* No two superframes of the stream are 2^15 or more apart. *)
StreamWithinReach == MaxFrames <= U16Mod \div 2

(* The receiver tunes in before the 16 bit number wraps, and so its orders *)
(* do not wrap. *)
JoinsBeforeWrap ==
    /\ \A n \in StartNumbers \cup {0} : n + JoinBy <= U16Mod
    /\ U64Mod > U16Mod

BaseIsFirst(base) ==
    \A s \in Sources : sent[s] # <<>> => base = 1 - sent[s][1].sfn

(* The number of a superframe, from that of the first. *)
LEMMA NumberInStream ==
    ASSUME SenderIInv, NEW s \in Sources, NEW n \in 1 .. Len(sent[s])
    PROVE  /\ sent[s][1].sfn \in Int /\ n \in Int /\ n >= 1 /\ n <= MaxFrames
           /\ sent[s][n].sfn = (sent[s][1].sfn + n - 1) % U16Mod
           /\ sent[s][n].sfn \in Int /\ 0 <= sent[s][n].sfn /\ sent[s][n].sfn < U16Mod
           /\ sent[s] # <<>> /\ 1 \in 1 .. Len(sent[s]) /\ Len(sent[s]) \in Nat
           /\ MaxFrames \in Nat /\ Len(sent[s]) <= MaxFrames
<1>1. Len(sent[s]) \in Nat /\ Len(sent[s]) <= MaxFrames /\ sent[s] # <<>>
      /\ 1 \in 1 .. Len(sent[s]) /\ MaxFrames \in Nat
  BY SenderAssumption DEF SenderIInv
<1>2. sent[s][1] \in SentFrame /\ sent[s][n] \in SentFrame
  BY <1>1, SentCall
<1>3. sent[s][n].sfn = (sent[s][1].sfn + n - 1) % U16Mod
  BY <1>1 DEF SenderIInv, NumberedFromFirst
<1>4. sent[s][1].sfn \in U16 /\ sent[s][n].sfn \in U16
  BY <1>2 DEF SentFrame
<1>5. n \in Int /\ n >= 1 /\ n <= MaxFrames
  BY <1>1
<1>. QED
  BY <1>1, <1>3, <1>4, <1>5, Moduli DEF U16, U16Max

LEMMA Reach ==
    ASSUME StreamWithinReach
    PROVE  /\ U16Mod \div 2 \in Int /\ U16Mod = 2 * (U16Mod \div 2)
           /\ MaxFrames <= U16Mod \div 2 /\ MaxFrames <= U16Mod
           /\ MaxFrames \in Nat /\ MaxFrames < U64Mod /\ U16Mod \div 2 < U64Mod
<1>1. U16Mod \div 2 \in Int /\ U16Mod = 2 * (U16Mod \div 2)
  BY WidthsAssumption, DivMod
<1>. QED
  BY <1>1, Moduli, SenderAssumption DEF StreamWithinReach

LEMMA OrdType ==
    ASSUME NEW n \in Int, NEW base \in Int
    PROVE  Ord(n, base) \in Nat /\ Ord(n, base) < U64Mod
  BY Moduli, DivMod, n - base \in Int DEF Ord

(* Two superframes of the stream have two orders. *)
LEMMA OrdersDiffer ==
    ASSUME StreamWithinReach, SenderIInv, NEW base \in Int, NEW s \in Sources,
           NEW n \in 1 .. Len(sent[s]), NEW m \in 1 .. Len(sent[s]),
           Ord(n, base) = Ord(m, base)
    PROVE  n = m
<1>. DEFINE a == (n - base) \div U64Mod
            b == (m - base) \div U64Mod
            x == (n - base) % U64Mod
<1>1. n \in Int /\ m \in Int /\ n - m < U64Mod /\ m - n < U64Mod
  <2>1. n \in Int /\ n >= 1 /\ n <= MaxFrames /\ m \in Int /\ m >= 1 /\ m <= MaxFrames
    BY NumberInStream
  <2>. QED
    BY <2>1, Reach, Moduli
<1>2. a \in Int /\ b \in Int /\ n - base = U64Mod * a + x /\ m - base = U64Mod * b + x
  BY <1>1, Moduli, DivMod, n - base \in Int, m - base \in Int DEF Ord
<1>3. x \in Int
  BY <1>1, Moduli, DivMod, n - base \in Int
<1>. HIDE DEF a, b, x
<1>4. n - m = U64Mod * (a - b)
  BY <1>1, <1>2, <1>3, Moduli
<1>5. a - b = 0
  BY <1>1, <1>2, <1>4, Moduli
<1>. QED
  BY <1>1, <1>2, <1>4, <1>5, Moduli

(* Without a wrap, an order is the place itself. *)
LEMMA PlaceWithoutWrap ==
    ASSUME StreamWithinReach, JoinsBeforeWrap, NEW n \in Int, n >= 1, n <= MaxFrames,
           NEW first \in Int, 0 <= first, first < U16Mod, NEW base, base = 1 - first
    PROVE  Ord(n, base) = n - base /\ n - base + 1 < U64Mod
<1>1. base \in Int
  OBVIOUS
<1>2. U64Mod \in Nat /\ U64Mod >= 2 * U16Mod
  <2>1. PICK k \in Int : U64Mod = U16Mod * k
    <3>1. U64Mod = U16Mod * (U64Mod \div U16Mod) + (U64Mod % U16Mod)
          /\ U64Mod \div U16Mod \in Int
      BY Moduli, DivMod, U64Mod \in Int
    <3>. QED
      BY <3>1, Moduli, NestedWidths
  <2>2. CASE k <= 1
    <3>1. U16Mod * (1 - k) >= 0 /\ U16Mod * k = U16Mod - U16Mod * (1 - k)
      BY <2>2, Moduli
    <3>. QED
      BY <2>1, <3>1, Moduli DEF JoinsBeforeWrap
  <2>3. CASE k >= 2
    <3>1. U16Mod * (k - 2) >= 0 /\ U16Mod * k = U16Mod * (k - 2) + 2 * U16Mod
      BY <2>3, Moduli
    <3>. QED
      BY <2>1, <3>1, Moduli
  <2>. QED
    BY <2>2, <2>3
<1>3. U16Mod > 1 /\ U16Mod \in Nat
  BY WidthsAssumption
<1>4. n - base \in Int /\ 0 <= n - base /\ n - base + 1 < U64Mod
  BY <1>1, <1>2, <1>3, Reach
<1>5. (n - base) % U64Mod = n - base
  BY <1>2, <1>3, <1>4, ModIs, n - base = U64Mod * 0 + (n - base), U64Mod > 0
<1>. QED
  BY <1>4, <1>5 DEF Ord

LEMMA OrdIsPlace ==
    ASSUME StreamWithinReach, JoinsBeforeWrap, SenderIInv, NEW base \in Int,
           BaseIsFirst(base), NEW s \in Sources, NEW n \in 1 .. Len(sent[s])
    PROVE  Ord(n, base) = n - base /\ n - base + 1 < U64Mod
<1>. DEFINE first == sent[s][1].sfn
<1>1. base = 1 - first /\ n \in Int /\ n >= 1 /\ n <= MaxFrames
      /\ first \in Int /\ 0 <= first /\ first < U16Mod
  <2>1. 1 \in 1 .. Len(sent[s])
    BY NumberInStream
  <2>. QED
    BY <2>1, NumberInStream DEF BaseIsFirst
<1>. HIDE DEF first
<1>. QED
  BY <1>1, PlaceWithoutWrap

(* Two superframes that share a slot are a ring's length apart. *)
LEMMA SlotMatesApart ==
    ASSUME StreamWithinReach, SenderIInv, NEW base \in Int, NEW s \in Sources,
           NEW n \in 1 .. Len(sent[s]), NEW m \in 1 .. Len(sent[s]),
           Ord(n, base) % RingSize = Ord(m, base) % RingSize, m < n
    PROVE  m + RingSize <= n
<1>1. n \in Int /\ m \in Int
  BY NumberInStream
<1>2. U64Mod % RingSize = 0
  <2>1. (U64Mod % U16Mod) % RingSize = U64Mod % RingSize
    BY Moduli, ModMod, U64Mod \in Int
  <2>2. 0 % RingSize = 0
    BY Moduli, ModIs, 0 = RingSize * 0 + 0
  <2>. QED
    BY <2>1, <2>2, NestedWidths
<1>. DEFINE x == n - base
            y == m - base
<1>3. x \in Int /\ y \in Int /\ x - y = n - m
  BY <1>1
<1>4. Ord(n, base) = x % U64Mod /\ Ord(m, base) = y % U64Mod
  BY DEF Ord
<1>. HIDE DEF x, y
<1>5. x % RingSize = y % RingSize
  BY <1>2, <1>3, <1>4, Moduli, ModMod
<1>6. PICK a \in Int, b \in Int, r \in Int : x = RingSize * a + r /\ y = RingSize * b + r
  <2>1. /\ x = RingSize * (x \div RingSize) + (x % RingSize)
        /\ x \div RingSize \in Int /\ x % RingSize \in Int
    BY <1>3, Moduli, DivMod
  <2>2. /\ y = RingSize * (y \div RingSize) + (y % RingSize)
        /\ y \div RingSize \in Int /\ y % RingSize \in Int
    BY <1>3, Moduli, DivMod
  <2>. QED
    BY <1>5, <2>1, <2>2
<1>7. n - m = RingSize * (a - b)
  BY <1>3, <1>6, Moduli
<1>8. a - b >= 1
  <2>1. CASE a - b <= 0
    <3>1. RingSize * (b - a) >= 0 /\ RingSize * (a - b) = -(RingSize * (b - a))
      BY <2>1, Moduli
    <3>. QED
      BY <1>1, <1>7, <3>1, Moduli
  <2>. QED
    BY <2>1
<1>9. RingSize * (a - b) >= RingSize
  <2>1. RingSize * (a - b - 1) >= 0 /\ RingSize * (a - b) = RingSize * (a - b - 1) + RingSize
    BY <1>8, Moduli
  <2>. QED
    BY <2>1, Moduli
<1>. QED
  BY <1>1, <1>7, <1>9, Moduli

(***************************************************************************)
(* The orders.  Every number the receiver was told is that of a superframe *)
(* of the stream, and every order is the place of its superframe.          *)
(***************************************************************************)
Placed(sfn, order, base) ==
    \E s \in Sources : \E n \in 1 .. Len(sent[s]) :
        sent[s][n].sfn = sfn /\ order = Ord(n, base)

(* A bucket is opened after its superframe was sent. *)
PlacedBucket(b, base) ==
    b.mActive =>
        \E s \in Sources : \E n \in 1 .. Len(sent[s]) :
            /\ sent[s][n].sfn = b.mSavedSuperFrameNo
            /\ b.mDeliveryOrder = Ord(n, base)
            /\ sent[s][n].at <= b.openedAt

OrdersKept(base, hs) ==
    /\ ~mSuperFrameFirstTime =>
          /\ Placed(mOldSuperFrameNumber, mSuperFrameRecalc, base)
          /\ JoinsBeforeWrap => BaseIsFirst(base)
    /\ \A slot \in Slots : PlacedBucket(mBucketList[slot], base)
    /\ \A i \in 1 .. Len(hs) : Placed(hs[i].mSuperFrameNo, hs[i].order, base)

NothingYet(hs) ==
    /\ \A slot \in Slots : ~mBucketList[slot].mActive
    /\ hs = <<>>

(***************************************************************************)
(* No superframe is handed over twice.  The order of one that was is in    *)
(* the map until the pass ends, then remembered by its closed bucket; and  *)
(* when another superframe takes the bucket, no fragment of the first can  *)
(* come any more, as long as the ring is not shorter than the window.      *)
(***************************************************************************)
RingOutlastsWindow == Window <= RingSize

HandedOut(k, hs) == \E i \in 1 .. Len(hs) : hs[i].order = k

Passed(k, base) ==
    \E s \in Sources : \E n \in 1 .. Len(sent[s]) :
        k = Ord(n, base) /\ n + Window <= Len(sent[s])

Remembered(k) ==
    LET b == mBucketList[k % RingSize] IN ~b.mActive /\ b.mDeliveryOrder = k

HandedOnce(base, hs) ==
    /\ \A i, j \in 1 .. Len(hs) : hs[i].order = hs[j].order => i = j
    /\ \A k \in DOMAIN mBucketMap : HandedOut(k, hs) <=> k \in lDeleteList
    /\ \A i \in 1 .. Len(hs) :
          \/ hs[i].order \in DOMAIN mBucketMap
          \/ Remembered(hs[i].order)
          \/ Passed(hs[i].order, base)

(***************************************************************************)
(* They are handed over in order.  What is older than one handed over, but *)
(* not older than the first, has been handed over too, or none of its      *)
(* fragments is left: neither in a bucket nor under way.  For the head     *)
(* passes a superframe over only when one behind it timed out, and that    *)
(* takes longer than any fragment is under way.                            *)
(***************************************************************************)
HeadOutlastsDelay == BucketTimeout + HolTimeout > MaxDelay

InOrderMode == HolMode /\ HeadOutlastsDelay /\ JoinsBeforeWrap

HandedInOrder(base, hs) ==
    /\ hs # <<>> =>
          /\ ~mDeliveryHOLFirstRun
          /\ mNextExpectedFrameNumber = (hs[Len(hs)].order + 1) % U64Mod
    /\ \A s \in Sources : \A n \in 1 .. Len(sent[s]) : \A i \in 1 .. Len(hs) :
          hs[1].order < Ord(n, base) /\ Ord(n, base) < hs[i].order
          /\ ~HandedOut(Ord(n, base), hs) =>
              Ord(n, base) \notin DOMAIN mBucketMap /\ now - sent[s][n].at > MaxDelay

Ordered(base, hs) ==
    /\ OrdersKept(base, hs)
    /\ RingOutlastsWindow => HandedOnce(base, hs)
    /\ RingOutlastsWindow /\ InOrderMode => HandedInOrder(base, hs)

(* The pass visits the map in order. *)
PassInOrder ==
    /\ todo \cap lDeleteList = {}
    /\ HolMode /\ todo # {} => /\ DOMAIN mBucketMap \subseteq todo \cup lDeleteList
                               /\ ~mDeliveryHOLFirstRun

LEMMA PlacedIn ==
    ASSUME OneSource, NEW base, NEW sfn, NEW order, Placed(sfn, order, base),
           NEW s \in Sources
    PROVE  \E n \in 1 .. Len(sent[s]) : sent[s][n].sfn = sfn /\ order = Ord(n, base)
<1>1. PICK t \in Sources : \E n \in 1 .. Len(sent[t]) :
          sent[t][n].sfn = sfn /\ order = Ord(n, base)
  BY DEF Placed
<1>2. t = s
  BY DEF OneSource
<1>. QED
  BY <1>1, <1>2

(* What superFrameRecalculator makes of a number of the stream. *)
LEMMA CandidatePlaced ==
    ASSUME OneSource, StreamWithinReach, SenderIInv, NEW base \in Int,
           ~mSuperFrameFirstTime, Placed(mOldSuperFrameNumber, mSuperFrameRecalc, base),
           NEW s \in Sources, NEW n \in 1 .. Len(sent[s])
    PROVE  DeliveryOrderCandidate(sent[s][n].sfn) = Ord(n, base)
<1>3. PICK m \in 1 .. Len(sent[s]) :
          sent[s][m].sfn = mOldSuperFrameNumber /\ mSuperFrameRecalc = (m - base) % U64Mod
  BY PlacedIn DEF Ord
<1>. DEFINE first == sent[s][1].sfn
<1>4. first \in Int /\ n \in Int /\ m \in Int
      /\ -(U16Mod \div 2) <= n - m /\ n - m < U16Mod \div 2
      /\ sent[s][n].sfn = (first + n - 1) % U16Mod
      /\ sent[s][m].sfn = (first + m - 1) % U16Mod
  <2>1. /\ first \in Int /\ n \in Int /\ n >= 1 /\ n <= MaxFrames
        /\ sent[s][n].sfn = (first + n - 1) % U16Mod
    BY NumberInStream
  <2>2. /\ m \in Int /\ m >= 1 /\ m <= MaxFrames
        /\ sent[s][m].sfn = (first + m - 1) % U16Mod
    BY NumberInStream
  <2>3. MaxFrames <= U16Mod \div 2 /\ U16Mod \div 2 \in Int /\ MaxFrames \in Int
    BY Reach
  <2>. HIDE DEF first
  <2>. QED
    BY <2>1, <2>2, <2>3
<1>. HIDE DEF first
<1>5. ChangeValue(sent[s][n].sfn) = n - m
  <2>1. (first + n - 1) - (first + m - 1) = n - m
        /\ first + n - 1 \in Int /\ first + m - 1 \in Int
    BY <1>4
  <2>2. Int16(((first + n - 1) % U16Mod) - ((first + m - 1) % U16Mod)) = n - m
    BY <1>4, <2>1, Int16IsDistance
  <2>. QED
    BY <1>3, <1>4, <2>2 DEF ChangeValue
<1>6. (((m - base) % U64Mod) + (n - m)) % U64Mod = ((m - base) + (n - m)) % U64Mod
  BY <1>4, Moduli, ModAdd, m - base \in Int, n - m \in Int
<1>7. (m - base) + (n - m) = n - base
  BY <1>4
<1>. QED
  BY <1>3, <1>5, <1>6, <1>7 DEF DeliveryOrderCandidate, Ord

(* The first number is its own order; what it lacks of its place in the    *)
(* stream is the base.                                                     *)
LEMMA FirstPlaced ==
    ASSUME SenderIInv, LinkInv, NEW s \in Sources, NEW n \in 1 .. Len(sent[s]),
           n <= JoinBy
    PROVE  \E base \in Int :
              /\ sent[s][n].sfn = Ord(n, base)
              /\ JoinsBeforeWrap => base = 1 - sent[s][1].sfn
<1>. DEFINE x == sent[s][n].sfn
            first == sent[s][1].sfn
            base == n - x
<1>1. n \in Int /\ x \in Int /\ 0 <= x /\ x < U16Mod /\ n >= 1 /\ first \in Int
      /\ x = (first + n - 1) % U16Mod
  BY NumberInStream
<1>2. base \in Int /\ n - base = x
  BY <1>1
<1>3. first \in StartNumbers \cup {0} /\ 0 <= first
  <2>1. first \in StartNumbers \cup {0}
    BY NumberInStream DEF LinkInv, FirstNumbers
  <2>2. StartNumbers \subseteq U16 /\ \A x1 \in U16 : 0 <= x1
    BY SenderAssumption DEF U16
  <2>. QED
    BY <2>1, <2>2
<1>. HIDE DEF x, first
<1>4. x % U64Mod = x
  BY <1>1, Moduli, ModIs, x = U64Mod * 0 + x, x < U64Mod
<1>5. ASSUME JoinsBeforeWrap PROVE base = 1 - first
  <2>1. first + n - 1 < U16Mod
    <3>1. first + JoinBy <= U16Mod /\ JoinBy \in Nat
      BY <1>3, <1>5, LinkAssumption DEF JoinsBeforeWrap
    <3>. QED
      BY <3>1, <1>1, Moduli
  <2>2. (first + n - 1) % U16Mod = first + n - 1
    BY <2>1, <1>1, <1>3, Moduli, ModIs, first + n - 1 = U16Mod * 0 + (first + n - 1)
  <2>. QED
    BY <1>1, <2>2
<1>. QED
  BY <1>2, <1>4, <1>5 DEF x, first, Ord

(* Whatever it was told, the receiver gives a superframe its place. *)
LEMMA PlaceTold ==
    ASSUME OneSource, StreamWithinReach, SenderIInv, LinkInv, AssemblyInv, NEW hs,
           mSuperFrameFirstTime => NothingYet(hs),
           \E base \in Int : Ordered(base, hs),
           NEW s \in Sources, NEW n \in 1 .. Len(sent[s]),
           mSuperFrameFirstTime => n <= JoinBy, lDeleteList = {}
    PROVE  \E base \in Int :
              /\ Ordered(base, hs)
              /\ DeliveryOrderCandidate(sent[s][n].sfn) = Ord(n, base)
              /\ JoinsBeforeWrap => BaseIsFirst(base)
<1>1. CASE mSuperFrameFirstTime
  <2>1. PICK base \in Int :
            sent[s][n].sfn = Ord(n, base) /\ (JoinsBeforeWrap => base = 1 - sent[s][1].sfn)
    BY <1>1, FirstPlaced
  <2>2. hs = <<>> /\ DOMAIN mBucketMap = {}
    BY <1>1 DEF NothingYet, AssemblyInv, RingInv, RingTypeOK, MapMatchesBuckets
  <2>3. OrdersKept(base, hs)
    BY <1>1 DEF NothingYet, OrdersKept, PlacedBucket
  <2>4. HandedOnce(base, hs) /\ HandedInOrder(base, hs)
    BY <2>2 DEF HandedOnce, HandedInOrder
  <2>5. JoinsBeforeWrap => BaseIsFirst(base)
    BY <2>1 DEF BaseIsFirst, OneSource
  <2>. QED
    BY <1>1, <2>1, <2>3, <2>4, <2>5 DEF Ordered, DeliveryOrderCandidate
<1>2. CASE ~mSuperFrameFirstTime
  <2>1. PICK base \in Int : Ordered(base, hs)
    OBVIOUS
  <2>2. Placed(mOldSuperFrameNumber, mSuperFrameRecalc, base) /\ (JoinsBeforeWrap => BaseIsFirst(base))
    BY <1>2, <2>1 DEF Ordered, OrdersKept
  <2>. QED
    BY <1>2, <2>1, <2>2, CandidatePlaced
<1>. QED
  BY <1>1, <1>2

(***************************************************************************)
(* What unpacking a fragment does to the bucket of its superframe, as far  *)
(* as orders are concerned.                                                *)
(***************************************************************************)
Opens(f) ==
    /\ ~Bucket(f).mActive /\ DeliveryOrderCandidate(f.sfn) # Bucket(f).mDeliveryOrder
    /\ \E b : /\ b.mActive /\ b.mDeliveryOrder = DeliveryOrderCandidate(f.sfn)
              /\ b.mSavedSuperFrameNo = f.sfn /\ b.openedAt = now
              /\ mBucketList' = [mBucketList EXCEPT ![Slot(f.sfn)] = b]
    /\ DOMAIN mBucketMap' = DOMAIN mBucketMap \cup {DeliveryOrderCandidate(f.sfn)}
    /\ SuperFrameRecalculator(f.sfn)

Refuses(f) ==
    /\ ~Bucket(f).mActive /\ DeliveryOrderCandidate(f.sfn) # Bucket(f).mDeliveryOrder
    /\ mBucketList' = [mBucketList EXCEPT
           ![Slot(f.sfn)] = ClosedBucket(DeliveryOrderCandidate(f.sfn))]
    /\ DOMAIN mBucketMap' = DOMAIN mBucketMap \ {DeliveryOrderCandidate(f.sfn)}
    /\ SuperFrameRecalculator(f.sfn)

GivesUp(f) ==
    /\ Bucket(f).mActive
    /\ mBucketList' = [mBucketList EXCEPT
           ![Slot(f.sfn)] = ClosedBucket(Bucket(f).mDeliveryOrder)]
    /\ DOMAIN mBucketMap' = DOMAIN mBucketMap \ {Bucket(f).mDeliveryOrder}
    /\ UNCHANGED counterVars

Alike(b, c) ==
    /\ b.mActive = c.mActive /\ b.mDeliveryOrder = c.mDeliveryOrder
    /\ b.mSavedSuperFrameNo = c.mSavedSuperFrameNo /\ b.openedAt = c.openedAt

Leaves(f) ==
    /\ \A slot \in Slots : Alike(mBucketList'[slot], mBucketList[slot])
    /\ DOMAIN mBucketMap' = DOMAIN mBucketMap
    /\ \/ UNCHANGED counterVars
       \/ SuperFrameRecalculator(f.sfn)

LEMMA UnpackCases ==
    ASSUME AssemblyInv, NEW f, IsFragment(f), NEW src, NEW m, Unpack(f, src, m)
    PROVE  Opens(f) \/ Refuses(f) \/ GivesUp(f) \/ Leaves(f)
<1>1. Slot(f.sfn) \in Slots /\ mBucketList \in [Slots -> BucketRecord]
  BY SlotOfNumber, f.sfn \in Int DEF IsFragment, U16, AssemblyInv, RingInv, RingTypeOK
<1>2. CASE OpenBucket(f, src)
  <2>. DEFINE b == OpenedBucket(f, src, DeliveryOrderCandidate(f.sfn), StreamsAfter(f))
  <2>1. b.mActive /\ b.mDeliveryOrder = DeliveryOrderCandidate(f.sfn)
        /\ b.mSavedSuperFrameNo = f.sfn /\ b.openedAt = now
    BY DEF OpenedBucket
  <2>2. mBucketList' = [mBucketList EXCEPT ![Slot(f.sfn)] = b]
    BY <1>2 DEF OpenBucket
  <2>. HIDE DEF b
  <2>. QED
    BY <1>2, <2>1, <2>2 DEF OpenBucket, MayOpen, MapInsert, Opens
<1>3. CASE OpenAndClose(f)
  BY <1>3 DEF OpenAndClose, MayOpen, MapErase, Refuses
<1>4. CASE OutOfBounds(f)
  BY <1>1, <1>4 DEF OutOfBounds, MapErase, GivesUp, Bucket
<1>5. CASE AcceptFragment(f)
  <2>. DEFINE b == mBucketList[Slot(f.sfn)]
              e == ExtendedBucket(b, f, StreamsAfter(f))
  <2>1. b \in BucketRecord
    BY <1>1
  <2>2. mBucketList' = [mBucketList EXCEPT ![Slot(f.sfn)] = e]
        /\ DOMAIN mBucketMap' = DOMAIN mBucketMap /\ UNCHANGED counterVars
    BY <1>1, <1>5 DEF AcceptFragment
  <2>. HIDE DEF b
  <2>3. Alike(e, b)
    BY <2>1 DEF Alike, ExtendedBucket, BucketRecord
  <2>. HIDE DEF e
  <2>. QED
    BY <1>1, <2>2, <2>3 DEF Leaves, Alike, b
<1>6. CASE UNCHANGED <<mBucketList, mBucketMap>> /\ (UNCHANGED counterVars \/ SuperFrameRecalculator(f.sfn))
  BY <1>6 DEF Leaves, Alike
<1>. QED
  BY <1>2, <1>3, <1>4, <1>5, <1>6 DEF Unpack, TooOldFragment, OpenWithoutMemory,
     OpenOutOfBounds, OutOfResources, DuplicatePacket, assemblyVars

(* A key of the map names the active bucket of its slot. *)
LEMMA KeyIsActive ==
    ASSUME AssemblyInv, NEW k \in DOMAIN mBucketMap
    PROVE  /\ k % RingSize \in Slots /\ mBucketMap[k] = k % RingSize
           /\ mBucketList[k % RingSize].mActive
           /\ mBucketList[k % RingSize].mDeliveryOrder = k
  BY DEF AssemblyInv, RingInv, RingTypeOK, MapMatchesBuckets, OrdersKeepToTheirSlot

(***************************************************************************)
(* Unpacking keeps all of it.  A fragment under way of the n-th superframe *)
(* of s is received between two passes.                                    *)
(***************************************************************************)
LEMMA UnpackKeepsPlaces ==
    ASSUME SenderIInv, LinkInv, AssemblyInv, NEW base \in Int, NEW hs,
           mSuperFrameFirstTime => NothingYet(hs), OrdersKept(base, hs),
           JoinsBeforeWrap => BaseIsFirst(base),
           NEW s \in Sources, NEW n \in 1 .. Len(sent[s]),
           NEW f, IsFragment(f), f.sfn = sent[s][n].sfn,
           DeliveryOrderCandidate(f.sfn) = Ord(n, base),
           Opens(f) \/ Refuses(f) \/ GivesUp(f) \/ Leaves(f), UNCHANGED linkVars
    PROVE  OrdersKept(base, hs)' /\ (mSuperFrameFirstTime' => NothingYet(hs)')
<1>1. Slot(f.sfn) \in Slots /\ mBucketList \in [Slots -> BucketRecord]
  BY SlotOfNumber, f.sfn \in Int DEF IsFragment, U16, AssemblyInv, RingInv, RingTypeOK
<1>2. UNCHANGED sent
  BY DEF linkVars, senderVars
<1>3. Placed(f.sfn, DeliveryOrderCandidate(f.sfn), base)
  BY DEF Placed
<1>4. ~mSuperFrameFirstTime' =>
          Placed(mOldSuperFrameNumber', mSuperFrameRecalc', base)
  BY <1>3 DEF Opens, Refuses, GivesUp, Leaves, SuperFrameRecalculator, counterVars, OrdersKept
<1>5. \A slot \in Slots : PlacedBucket(mBucketList'[slot], base)
  <2>1. \A order : PlacedBucket(ClosedBucket(order), base)
    BY DEF PlacedBucket, ClosedBucket
  <2>2. CASE Refuses(f) \/ GivesUp(f)
    BY <1>1, <2>1, <2>2 DEF Refuses, GivesUp, OrdersKept
  <2>3. CASE Leaves(f)
    BY <2>3 DEF Leaves, Alike, OrdersKept, PlacedBucket
  <2>4. CASE Opens(f)
    <3>1. PICK b : /\ b.mDeliveryOrder = Ord(n, base)
                   /\ b.mSavedSuperFrameNo = sent[s][n].sfn /\ b.openedAt = now
                   /\ mBucketList' = [mBucketList EXCEPT ![Slot(f.sfn)] = b]
      BY <2>4 DEF Opens
    <3>2. sent[s][n].at <= now
      BY DEF LinkInv, SendInstants
    <3>3. PlacedBucket(b, base)
      BY <3>1, <3>2 DEF PlacedBucket
    <3>. QED
      BY <1>1, <3>1, <3>3 DEF OrdersKept
  <2>. QED
    BY <2>2, <2>3, <2>4
<1>6. OrdersKept(base, hs)'
  BY <1>2, <1>4, <1>5 DEF OrdersKept, PlacedBucket, Placed, BaseIsFirst
<1>7. mSuperFrameFirstTime' => NothingYet(hs)'
  <2>1. ASSUME mSuperFrameFirstTime' PROVE NothingYet(hs)'
    <3>1. UNCHANGED counterVars /\ (GivesUp(f) \/ Leaves(f))
      BY <2>1 DEF Opens, Refuses, GivesUp, Leaves, SuperFrameRecalculator
    <3>2. NothingYet(hs)
      BY <2>1, <3>1 DEF counterVars
    <3>3. Leaves(f)
      BY <1>1, <3>1, <3>2 DEF GivesUp, NothingYet, Bucket
    <3>. QED
      BY <3>2, <3>3 DEF Leaves, Alike, NothingYet
  <2>. QED
    BY <2>1
<1>. QED
  BY <1>6, <1>7

LEMMA UnpackKeepsOnce ==
    ASSUME OneSource, StreamWithinReach, RingOutlastsWindow, SenderIInv, AssemblyInv,
           NEW base \in Int, NEW hs, OrdersKept(base, hs), HandedOnce(base, hs),
           lDeleteList = {}, UNCHANGED <<linkVars, lDeleteList>>,
           NEW s \in Sources, NEW n \in 1 .. Len(sent[s]), n > Len(sent[s]) - Window,
           NEW f, IsFragment(f), f.sfn = sent[s][n].sfn,
           DeliveryOrderCandidate(f.sfn) = Ord(n, base),
           Opens(f) \/ Refuses(f) \/ GivesUp(f) \/ Leaves(f)
    PROVE  HandedOnce(base, hs)'
<1>. DEFINE o == Ord(n, base)
<1>1. Slot(f.sfn) \in Slots /\ mBucketList \in [Slots -> BucketRecord]
  BY SlotOfNumber, f.sfn \in Int DEF IsFragment, U16, AssemblyInv, RingInv, RingTypeOK
<1>2. UNCHANGED sent
  BY DEF linkVars, senderVars
<1>3. o % RingSize = Slot(f.sfn)
  <2>1. f.sfn \in U16
    BY DEF IsFragment
  <2>. QED
    BY <2>1, CandidateKeepsNumber DEF AssemblyInv
<1>4. \A k \in DOMAIN mBucketMap : ~HandedOut(k, hs)
  BY DEF HandedOnce
<1>5. \A k : Passed(k, base)' = Passed(k, base)
  BY <1>2 DEF Passed
<1>6. ASSUME NEW i \in 1 .. Len(hs)
      PROVE  hs[i].order \notin DOMAIN mBucketMap
  BY <1>4 DEF HandedOut
<1>7. \A i \in 1 .. Len(hs) : Remembered(hs[i].order) \/ Passed(hs[i].order, base)
  BY <1>6 DEF HandedOnce
<1>8. ~Passed(o, base)
  <2>. SUFFICES ASSUME Passed(o, base) PROVE FALSE
    OBVIOUS
  <2>1. PICK t \in Sources : \E m \in 1 .. Len(sent[t]) :
            o = Ord(m, base) /\ m + Window <= Len(sent[t])
    BY DEF Passed
  <2>2. t = s
    BY DEF OneSource
  <2>3. PICK m \in 1 .. Len(sent[s]) : o = Ord(m, base) /\ m + Window <= Len(sent[s])
    BY <2>1, <2>2
  <2>4. m = n
    BY <2>3, OrdersDiffer
  <2>5. n \in Int /\ Len(sent[s]) \in Nat
    BY NumberInStream
  <2>. QED
    BY <2>3, <2>4, <2>5, LinkAssumption
(* Another superframe that was handed over and is remembered in this slot. *)
<1>9. ASSUME NEW i \in 1 .. Len(hs), hs[i].order # o, hs[i].order % RingSize = o % RingSize
      PROVE  Passed(hs[i].order, base)
  <2>1. PICK m \in 1 .. Len(sent[s]) : hs[i].order = Ord(m, base)
    BY PlacedIn DEF OrdersKept
  <2>2. m \in Int /\ n \in Int /\ Len(sent[s]) \in Nat /\ m <= Len(sent[s]) /\ n <= Len(sent[s])
    BY NumberInStream
  <2>3. m # n
    BY <1>9, <2>1
  <2>4. CASE m < n
    <3>1. m + RingSize <= n
      BY <1>9, <2>1, <2>4, SlotMatesApart
    <3>2. m + Window <= Len(sent[s])
      BY <3>1, <2>2, LinkAssumption, Moduli DEF RingOutlastsWindow
    <3>. QED
      BY <2>1, <3>2 DEF Passed
  <2>5. CASE n < m
    <3>1. n + RingSize <= m
      BY <1>9, <2>1, <2>5, SlotMatesApart
    <3>. QED
      BY <3>1, <2>2, LinkAssumption, Moduli DEF RingOutlastsWindow
  <2>. QED
    BY <2>2, <2>3, <2>4, <2>5
<1>10. ASSUME NEW k, Remembered(k), k % RingSize # Slot(f.sfn), k % RingSize \in Slots
       PROVE  Remembered(k)'
  <2>1. CASE Opens(f) \/ Refuses(f) \/ GivesUp(f)
    <3>1. mBucketList'[k % RingSize] = mBucketList[k % RingSize]
      BY <1>1, <1>10, <2>1 DEF Opens, Refuses, GivesUp
    <3>. QED
      BY <1>10, <3>1 DEF Remembered
  <2>2. CASE Leaves(f)
    BY <1>10, <2>2 DEF Leaves, Alike, Remembered
  <2>. QED
    BY <2>1, <2>2
<1>11. ASSUME NEW i \in 1 .. Len(hs)
       PROVE  hs[i].order % RingSize \in Slots
  <2>1. PICK m \in 1 .. Len(sent[s]) : hs[i].order = Ord(m, base)
    BY PlacedIn DEF OrdersKept
  <2>2. m \in Int
    BY NumberInStream
  <2>. QED
    BY <2>1, <2>2, OrdType, SlotOfNumber DEF Slot
<1>12. ASSUME Opens(f) \/ Refuses(f), NEW i \in 1 .. Len(hs)
       PROVE  hs[i].order # o /\ (Remembered(hs[i].order)' \/ Passed(hs[i].order, base))
  <2>1. hs[i].order # o
    <3>1. ~Remembered(o)
      BY <1>3, <1>12 DEF Opens, Refuses, Remembered, Bucket
    <3>. QED
      BY <3>1, <1>7, <1>8
  <2>2. CASE hs[i].order % RingSize = Slot(f.sfn)
    BY <1>3, <1>9, <2>1, <2>2
  <2>3. CASE hs[i].order % RingSize # Slot(f.sfn)
    <3>1. Remembered(hs[i].order) => Remembered(hs[i].order)'
      BY <1>10, <1>11, <2>3
    <3>. QED
      BY <1>7, <3>1, <2>1
  <2>. QED
    BY <2>1, <2>2, <2>3
<1>13. ASSUME GivesUp(f) \/ Leaves(f), NEW i \in 1 .. Len(hs)
       PROVE  Remembered(hs[i].order)' \/ Passed(hs[i].order, base)
  <2>1. CASE Leaves(f)
    <3>1. Remembered(hs[i].order) => Remembered(hs[i].order)'
      BY <1>11, <2>1 DEF Leaves, Alike, Remembered
    <3>. QED
      BY <3>1, <1>7
  <2>2. CASE GivesUp(f)
    <3>1. Remembered(hs[i].order) => hs[i].order % RingSize # Slot(f.sfn)
      BY <2>2 DEF GivesUp, Remembered, Bucket
    <3>. QED
      BY <3>1, <1>7, <1>10, <1>11
  <2>. QED
    BY <1>13, <2>1, <2>2
<1>14. \A k \in DOMAIN mBucketMap' : ~HandedOut(k, hs)
  <2>1. DOMAIN mBucketMap' \subseteq DOMAIN mBucketMap \cup (IF Opens(f) THEN {o} ELSE {})
    BY DEF Opens, Refuses, GivesUp, Leaves
  <2>2. Opens(f) => ~HandedOut(o, hs)
    BY <1>12 DEF HandedOut
  <2>. QED
    BY <1>4, <2>1, <2>2
<1>15. \A i \in 1 .. Len(hs) : Remembered(hs[i].order)' \/ Passed(hs[i].order, base)'
  BY <1>5, <1>12, <1>13
<1>. QED
  BY <1>14, <1>15 DEF HandedOnce, HandedOut

LEMMA UnpackKeepsInOrder ==
    ASSUME OneSource, StreamWithinReach, SenderIInv, LinkInv, NEW base \in Int, NEW hs,
           HandedInOrder(base, hs), UNCHANGED <<linkVars, headVars>>,
           NEW s \in Sources, NEW n \in 1 .. Len(sent[s]), now - sent[s][n].at <= MaxDelay,
           NEW f, DeliveryOrderCandidate(f.sfn) = Ord(n, base),
           Opens(f) \/ Refuses(f) \/ GivesUp(f) \/ Leaves(f)
    PROVE  HandedInOrder(base, hs)'
<1>1. UNCHANGED <<sent, now, mDeliveryHOLFirstRun, mNextExpectedFrameNumber>>
  BY DEF linkVars, senderVars, headVars
<1>2. DOMAIN mBucketMap' \subseteq DOMAIN mBucketMap \cup {Ord(n, base)}
  BY DEF Opens, Refuses, GivesUp, Leaves
<1>3. ASSUME NEW t \in Sources, NEW m \in 1 .. Len(sent[t]), NEW i \in 1 .. Len(hs),
             hs[1].order < Ord(m, base), Ord(m, base) < hs[i].order,
             ~HandedOut(Ord(m, base), hs)
      PROVE  Ord(m, base) \notin DOMAIN mBucketMap' /\ now - sent[t][m].at > MaxDelay
  <2>1. Ord(m, base) \notin DOMAIN mBucketMap /\ now - sent[t][m].at > MaxDelay
    BY <1>3 DEF HandedInOrder
  <2>2. Ord(m, base) # Ord(n, base)
    <3>. SUFFICES ASSUME Ord(m, base) = Ord(n, base) PROVE FALSE
      OBVIOUS
    <3>1. t = s
      BY DEF OneSource
    <3>2. m = n
      BY <3>1, OrdersDiffer
    <3>3. now \in Nat /\ sent[s][n].at \in Nat
      BY SentCall DEF LinkInv, SendInstants, SentFrame
    <3>. QED
      BY <2>1, <3>1, <3>2, <3>3, LinkAssumption
  <2>. QED
    BY <1>2, <2>1, <2>2
<1>. QED
  BY <1>1, <1>3 DEF HandedInOrder, HandedOut

(***************************************************************************)
(* A pass keeps it.                                                        *)
(***************************************************************************)
KeepsOrder(hs) ==
    /\ mSuperFrameFirstTime => NothingYet(hs)
    /\ \E base \in Int : Ordered(base, hs)

LEMMA AppendIs ==
    ASSUME NEW S, NEW hs \in Seq(S), NEW d \in S
    PROVE  /\ Append(hs, d) \in Seq(S) /\ Append(hs, d) # <<>>
           /\ Len(hs) \in Nat /\ Len(Append(hs, d)) = Len(hs) + 1
           /\ Append(hs, d)[Len(hs) + 1] = d
           /\ \A i \in 1 .. Len(hs) : Append(hs, d)[i] = hs[i]
           /\ hs # <<>> => 1 \in 1 .. Len(hs) /\ Len(hs) \in 1 .. Len(hs)
           /\ hs = <<>> => Append(hs, d)[1] = d
  OBVIOUS

LEMMA BucketOfKey ==
    ASSUME OneSource, AssemblyInv, NEW base, NEW hs, OrdersKept(base, hs),
           NEW k \in DOMAIN mBucketMap, NEW s \in Sources
    PROVE  \E n \in 1 .. Len(sent[s]) :
              /\ k = Ord(n, base) /\ sent[s][n].sfn = SuperFrame(k).mSuperFrameNo
              /\ sent[s][n].at <= BucketAt(k).openedAt
<1>. DEFINE b == BucketAt(k)
<1>1. b.mActive /\ b.mDeliveryOrder = k /\ PlacedBucket(b, base)
  BY DEF AssemblyInv, RingInv, RingTypeOK, MapMatchesBuckets, BucketAt, OrdersKept
<1>2. SuperFrame(k).mSuperFrameNo = b.mSavedSuperFrameNo
  BY DEF SuperFrame
<1>. HIDE DEF b
<1>3. PICK t \in Sources : \E n \in 1 .. Len(sent[t]) :
          /\ sent[t][n].sfn = b.mSavedSuperFrameNo
          /\ b.mDeliveryOrder = Ord(n, base)
          /\ sent[t][n].at <= b.openedAt
  BY <1>1 DEF PlacedBucket
<1>4. t = s
  BY DEF OneSource
<1>. QED
  BY <1>1, <1>2, <1>3, <1>4 DEF b

LEMMA DeliverKeepsPlaces ==
    ASSUME OneSource, SenderIInv, AssemblyInv, NEW base \in Int, NEW hs \in Seq(SuperFrameRecord),
           OrdersKept(base, hs), NEW k \in DOMAIN mBucketMap, NEW s \in Sources,
           NEW hs2, hs2 = Append(hs, SuperFrame(k)), UNCHANGED <<linkVars, assemblyVars>>
    PROVE  OrdersKept(base, hs2)'
<1>1. UNCHANGED <<sent, counterVars, mBucketList, mSuperFrameFirstTime,
                  mOldSuperFrameNumber, mSuperFrameRecalc>>
  BY DEF linkVars, senderVars, assemblyVars, counterVars
<1>. DEFINE d == SuperFrame(k)
<1>2. d \in SuperFrameRecord /\ d.order = k
  BY SuperFrameType DEF SuperFrame
<1>3. Placed(d.mSuperFrameNo, d.order, base)
  BY <1>2, BucketOfKey DEF Placed
<1>. HIDE DEF d
<1>4. \A i \in 1 .. Len(hs2) : hs2[i] = d \/ (i \in 1 .. Len(hs) /\ hs2[i] = hs[i])
  BY <1>2, AppendIs DEF d
<1>5. \A i \in 1 .. Len(hs2) : Placed(hs2[i].mSuperFrameNo, hs2[i].order, base)
  BY <1>3, <1>4 DEF OrdersKept
<1>6. OrdersKept(base, hs2)
  BY <1>5 DEF OrdersKept
<1>. QED
  BY <1>1, <1>6 DEF OrdersKept, Placed, PlacedBucket, BaseIsFirst

LEMMA VisitedIsLeast ==
    ASSUME AssemblyInv, PassInv, NEW k, DeliverBucket(k)
    PROVE  /\ k \in todo /\ k \in DOMAIN mBucketMap /\ k \in Nat /\ Due(k)
           /\ \A j \in todo : k <= j
<1>1. todo \in SUBSET U64 /\ todo # {} /\ todo \subseteq DOMAIN mBucketMap
  BY KeysAreOrders DEF PassInv, DeliverBucket
<1>2. k \in todo /\ \A j \in todo : k <= j
  BY <1>1, MinOrderIsElement DEF DeliverBucket
<1>. QED
  BY <1>1, <1>2 DEF DeliverBucket, U64

LEMMA DeliverKeepsOnce ==
    ASSUME AssemblyInv, PassInv, PassInOrder, NEW base \in Int,
           NEW hs \in Seq(SuperFrameRecord), HandedOnce(base, hs), NEW k, DeliverBucket(k),
           NEW hs2, hs2 = Append(hs, SuperFrame(k)), UNCHANGED <<linkVars, assemblyVars>>
    PROVE  HandedOnce(base, hs2)'
<1>. DEFINE d == SuperFrame(k)
<1>1. k \in todo /\ k \in DOMAIN mBucketMap
  BY VisitedIsLeast
<1>2. d \in SuperFrameRecord /\ d.order = k
  BY <1>1, SuperFrameType DEF SuperFrame
<1>3. UNCHANGED <<sent, mBucketList, mBucketMap>> /\ lDeleteList' = lDeleteList \cup {k}
  BY DEF linkVars, senderVars, assemblyVars, DeliverBucket
<1>4. ~HandedOut(k, hs)
  BY <1>1 DEF PassInOrder, HandedOnce
<1>. HIDE DEF d
<1>5. /\ Len(hs) \in Nat /\ Len(hs2) = Len(hs) + 1
      /\ hs2[Len(hs) + 1] = d
      /\ \A i \in 1 .. Len(hs) : hs2[i] = hs[i]
  BY <1>2, AppendIs DEF d
<1>6. \A i \in 1 .. Len(hs2) :
          \/ i = Len(hs) + 1 /\ hs2[i].order = k
          \/ i \in 1 .. Len(hs) /\ hs2[i].order = hs[i].order /\ hs2[i].order # k
  BY <1>2, <1>4, <1>5 DEF HandedOut
<1>7. \A i, j \in 1 .. Len(hs2) : hs2[i].order = hs2[j].order => i = j
  BY <1>6 DEF HandedOnce
<1>8. \A j : HandedOut(j, hs2) <=> HandedOut(j, hs) \/ j = k
  <2>1. Len(hs) + 1 \in 1 .. Len(hs2) /\ \A i \in 1 .. Len(hs) : i \in 1 .. Len(hs2)
    BY <1>5
  <2>. QED
    BY <1>2, <1>5, <1>6, <2>1 DEF HandedOut
<1>9. \A j \in DOMAIN mBucketMap : HandedOut(j, hs2) <=> j \in lDeleteList'
  BY <1>3, <1>8 DEF HandedOnce
<1>10. \A i \in 1 .. Len(hs2) :
           \/ hs2[i].order \in DOMAIN mBucketMap
           \/ Remembered(hs2[i].order)
           \/ Passed(hs2[i].order, base)
  BY <1>1, <1>6 DEF HandedOnce
<1>11. \A j : Remembered(j)' = Remembered(j) /\ Passed(j, base)' = Passed(j, base)
               /\ HandedOut(j, hs2)' = HandedOut(j, hs2)
  BY <1>3 DEF Remembered, Passed, HandedOut
<1>. QED
  BY <1>3, <1>7, <1>9, <1>10, <1>11 DEF HandedOnce

LEMMA DeliverKeepsInOrder ==
    ASSUME OneSource, StreamWithinReach, InOrderMode, SenderIInv, LinkInv,
           AssemblyInv, PassInv, PassInOrder, TimeOutsSet, lTimeNow <= now,
           NEW base \in Int, BaseIsFirst(base),
           NEW hs \in Seq(SuperFrameRecord), OrdersKept(base, hs), HandedOnce(base, hs),
           HandedInOrder(base, hs), NEW k, DeliverBucket(k),
           NEW hs2, hs2 = Append(hs, SuperFrame(k)), UNCHANGED <<linkVars, assemblyVars>>
    PROVE  HandedInOrder(base, hs2)'
<1>. DEFINE d == SuperFrame(k)
<1>1. k \in todo /\ k \in DOMAIN mBucketMap /\ Due(k) /\ \A j \in todo : k <= j
  BY VisitedIsLeast
<1>2. d \in SuperFrameRecord /\ d.order = k /\ k \in Nat
  BY <1>1, SuperFrameType, VisitedIsLeast DEF SuperFrame
<1>3. /\ UNCHANGED <<sent, now, mBucketList, mBucketMap>> /\ todo # {}
      /\ mDeliveryHOLFirstRun' = mDeliveryHOLFirstRun
      /\ HolMode /\ mNextExpectedFrameNumber' = (k + 1) % U64Mod
  BY DEF linkVars, senderVars, assemblyVars, DeliverBucket, InOrderMode
<1>. HIDE DEF d
<1>5. /\ Len(hs) \in Nat /\ Len(hs2) = Len(hs) + 1 /\ hs2 # <<>>
      /\ hs2[Len(hs) + 1] = d
      /\ \A i \in 1 .. Len(hs) : hs2[i] = hs[i]
      /\ hs # <<>> => 1 \in 1 .. Len(hs) /\ Len(hs) \in 1 .. Len(hs)
      /\ hs = <<>> => hs2[1] = d
  BY <1>2, AppendIs DEF d
<1>6. \A i \in 1 .. Len(hs2) :
          \/ i = Len(hs) + 1 /\ hs2[i].order = k
          \/ i \in 1 .. Len(hs) /\ hs2[i].order = hs[i].order
  BY <1>2, <1>5
<1>7. \A j : HandedOut(j, hs2) <=> HandedOut(j, hs) \/ j = k
  <2>1. Len(hs) + 1 \in 1 .. Len(hs2) /\ \A i \in 1 .. Len(hs) : i \in 1 .. Len(hs2)
    BY <1>5
  <2>. QED
    BY <1>2, <1>5, <1>6, <2>1 DEF HandedOut
<1>8. ASSUME NEW s \in Sources, NEW n \in 1 .. Len(sent[s]), NEW i \in 1 .. Len(hs2),
             hs2[1].order < Ord(n, base), Ord(n, base) < hs2[i].order,
             ~HandedOut(Ord(n, base), hs2)
      PROVE  Ord(n, base) \notin DOMAIN mBucketMap /\ now - sent[s][n].at > MaxDelay
  <2>. DEFINE o == Ord(n, base)
  <2>0. o \in Nat
    BY NumberInStream, OrdType
  <2>1. ~HandedOut(o, hs) /\ o # k
    BY <1>7, <1>8
  <2>2. CASE hs = <<>>
    <3>1. hs2[1].order = k /\ hs2[i].order = k
      BY <1>2, <1>5, <1>6, <2>2
    <3>. QED
      BY <1>2, <1>8, <2>0, <3>1
  <2>3. CASE hs # <<>>
    <3>1. hs2[1] = hs[1]
      BY <1>5, <2>3
    <3>2. CASE i \in 1 .. Len(hs)
      BY <1>5, <1>8, <2>1, <3>1, <3>2 DEF HandedInOrder
    <3>3. CASE i = Len(hs) + 1
      <4>1. hs2[i].order = k /\ o < k
        BY <1>2, <1>5, <1>8, <3>3
      <4>2. PICK m \in 1 .. Len(sent[s]) :
                k = Ord(m, base) /\ sent[s][m].at <= BucketAt(k).openedAt
        BY <1>1, BucketOfKey
      <4>3. Ord(n, base) = n - base /\ Ord(m, base) = m - base /\ n \in Int /\ m \in Int
        BY OrdIsPlace, NumberInStream DEF InOrderMode
      <4>4. CASE ExpectedAndComplete(k)
        <5>. DEFINE last == hs[Len(hs)].order
        <5>1. k = (last + 1) % U64Mod
          BY <2>3, <4>4 DEF ExpectedAndComplete, HandedInOrder
        <5>2. Placed(hs[Len(hs)].mSuperFrameNo, last, base)
          BY <1>5, <2>3 DEF OrdersKept
        <5>3. PICK p \in 1 .. Len(sent[s]) : last = Ord(p, base)
          BY <5>2, PlacedIn
        <5>41. p \in Int
          BY NumberInStream
        <5>42. Ord(p, base) = p - base /\ p - base + 1 < U64Mod
          BY OrdIsPlace DEF InOrderMode
        <5>43. Ord(p, base) \in Nat
          BY <5>41, OrdType
        <5>. HIDE DEF last
        <5>4. last = p - base /\ p \in Int /\ p - base + 1 < U64Mod /\ last \in Nat
          BY <5>3, <5>41, <5>42, <5>43
        <5>5. (last + 1) % U64Mod = last + 1
          BY <5>4, Moduli, ModIs, last + 1 = U64Mod * 0 + (last + 1)
        <5>6. o <= last /\ last \in Int
          BY <4>1, <5>1, <5>4, <5>5, <2>0
        <5>7. o # last
          BY <2>1, <1>5, <2>3 DEF HandedOut, last
        <5>8. o < last
          BY <5>6, <5>7, <2>0
        <5>. QED
          BY <5>8, <1>5, <1>8, <2>1, <2>3, <3>1 DEF HandedInOrder, last
      <4>5. CASE HolTimedOut(k)
        <5>. DEFINE b == BucketAt(k)
        <5>1. b \in BucketRecord /\ TimeOutSet(b) /\ b.mActive
          BY <1>1 DEF BucketAt, AssemblyInv, RingInv, RingTypeOK, MapMatchesBuckets, TimeOutsSet
        <5>2. b.openedAt \in Nat /\ b.mTimeout = b.openedAt + BucketTimeout
          BY <5>1 DEF BucketRecord, TimeOutSet
        <5>3. b.mTimeout + HolTimeout <= lTimeNow
          BY <4>5 DEF HolTimedOut
        <5>4. n \in 1 .. m
          BY <4>1, <4>2, <4>3
        <5>5. sent[s][n].at <= sent[s][m].at /\ now \in Nat
          BY <5>4 DEF LinkInv, SendInstants
        <5>6. sent[s][n].at \in Nat /\ sent[s][m].at \in Nat
          BY SentCall DEF SentFrame
        <5>7. BucketTimeout \in Nat /\ HolTimeout \in Nat /\ MaxDelay \in Nat /\ lTimeNow \in Nat
          <6>1. HolTimeoutMs * UsPerMs \in Int
            BY AssemblyAssumption, HolAssumption
          <6>. QED
            BY <6>1, BucketTimeoutType, LinkAssumption, Moduli, DivMod DEF HolTimeout, PassInv
        <5>8. sent[s][m].at <= b.openedAt
          BY <4>2
        <5>11. BucketTimeout + HolTimeout > MaxDelay /\ lTimeNow <= now
          BY DEF InOrderMode, HeadOutlastsDelay
        <5>. DEFINE at == sent[s][n].at
                    am == sent[s][m].at
                    t == b.openedAt
                    due == b.mTimeout
                    bt == BucketTimeout
                    ht == HolTimeout
        <5>12. /\ at \in Nat /\ am \in Nat /\ t \in Nat /\ bt \in Nat /\ ht \in Nat
               /\ due = t + bt /\ due + ht <= lTimeNow /\ lTimeNow <= now
               /\ at <= am /\ am <= t /\ bt + ht > MaxDelay
               /\ now \in Nat /\ MaxDelay \in Nat /\ lTimeNow \in Nat
          BY <5>2, <5>3, <5>5, <5>6, <5>7, <5>8, <5>11
        <5>. HIDE DEF b, at, am, t, due, bt, ht
        <5>13. now - at > MaxDelay
          BY <5>12
        <5>9. now - sent[s][n].at > MaxDelay
          BY <5>13 DEF at
        <5>10. o \notin DOMAIN mBucketMap
          <6>1. o \notin todo
            BY <1>1, <1>2, <2>0, <4>1
          <6>2. o \in DOMAIN mBucketMap => o \in lDeleteList
            BY <1>3, <6>1 DEF PassInOrder
          <6>. QED
            BY <2>1, <6>2 DEF HandedOnce
        <5>. QED
          BY <5>9, <5>10
      <4>. QED
        BY <1>1, <1>3, <4>4, <4>5 DEF Due
    <3>. QED
      BY <1>6, <3>2, <3>3
  <2>. QED
    BY <2>2, <2>3
<1>9. hs2[Len(hs2)].order = k /\ ~mDeliveryHOLFirstRun
  BY <1>2, <1>3, <1>5 DEF PassInOrder
<1>10. \A j : HandedOut(j, hs2)' = HandedOut(j, hs2)
  BY DEF HandedOut
<1>. QED
  BY <1>3, <1>8, <1>9, <1>10 DEF HandedInOrder

(* Steps that change neither buckets nor the head. *)
LEMMA OrderedStutter ==
    ASSUME NEW base, NEW hs, Ordered(base, hs),
           UNCHANGED <<linkVars, assemblyVars, headVars, lDeleteList>>
    PROVE  Ordered(base, hs)'
<1>1. UNCHANGED <<sent, now, mSuperFrameFirstTime, mOldSuperFrameNumber, mSuperFrameRecalc,
                  mBucketList, mBucketMap, mDeliveryHOLFirstRun,
                  mNextExpectedFrameNumber, lDeleteList>>
  BY DEF linkVars, senderVars, assemblyVars, counterVars, headVars
<1>2. OrdersKept(base, hs) => OrdersKept(base, hs)'
  BY <1>1 DEF OrdersKept, Placed, PlacedBucket, BaseIsFirst
<1>3. HandedOnce(base, hs) => HandedOnce(base, hs)'
  BY <1>1 DEF HandedOnce, HandedOut, Remembered, Passed
<1>4. HandedInOrder(base, hs) => HandedInOrder(base, hs)'
  BY <1>1 DEF HandedInOrder, HandedOut
<1>. QED
  BY <1>2, <1>3, <1>4 DEF Ordered

LEMMA BeginKeepsOrder ==
    ASSUME NEW hs, PassInOrder, todo = {}, lDeleteList = {},
           NEW may \in BOOLEAN, BeginPass(may), UNCHANGED <<linkVars, assemblyVars>>
    PROVE  /\ \A base : Ordered(base, hs) => Ordered(base, hs)'
           /\ PassInOrder'
<1>1. UNCHANGED <<sent, now, mSuperFrameFirstTime, mOldSuperFrameNumber, mSuperFrameRecalc,
                  mBucketList, mBucketMap>> /\ lDeleteList' = lDeleteList
  BY DEF linkVars, senderVars, assemblyVars, counterVars, BeginPass
<1>2. UNCHANGED headVars \/ mDeliveryHOLFirstRun
  BY DEF BeginPass
<1>3. PassInOrder'
  BY <1>1 DEF BeginPass, PassInOrder, headVars
<1>4. ASSUME NEW base, Ordered(base, hs)
      PROVE  Ordered(base, hs)'
  <2>1. OrdersKept(base, hs) => OrdersKept(base, hs)'
    BY <1>1 DEF OrdersKept, Placed, PlacedBucket, BaseIsFirst
  <2>2. HandedOnce(base, hs) => HandedOnce(base, hs)'
    BY <1>1 DEF HandedOnce, HandedOut, Remembered, Passed
  <2>3. HandedInOrder(base, hs) => HandedInOrder(base, hs)'
    <3>1. CASE UNCHANGED headVars
      BY <1>1, <3>1 DEF HandedInOrder, HandedOut, headVars
    <3>2. CASE hs = <<>>
      BY <3>2 DEF HandedInOrder
    <3>. QED
      BY <1>2, <3>1, <3>2 DEF HandedInOrder
  <2>. QED
    BY <1>4, <2>1, <2>2, <2>3 DEF Ordered
<1>. QED
  BY <1>3, <1>4

LEMMA PassOverKeepsOrder ==
    ASSUME PassInOrder, PassOver, UNCHANGED assemblyVars
    PROVE  PassInOrder'
  BY DEF PassInOrder, PassOver, headVars, assemblyVars

LEMMA DeliverKeepsPass ==
    ASSUME PassInOrder, NEW k, DeliverBucket(k), UNCHANGED assemblyVars
    PROVE  PassInOrder'
  BY DEF PassInOrder, DeliverBucket, assemblyVars

(* The superframes handed over become remembered ones. *)
LEMMA CloseKeepsOrder ==
    ASSUME SenderIInv, AssemblyInv, PassInv, NEW base \in Int, NEW hs, Ordered(base, hs),
           CloseDelivered, UNCHANGED linkVars
    PROVE  Ordered(base, hs)'
<1>1. UNCHANGED <<sent, now, mSuperFrameFirstTime, mOldSuperFrameNumber, mSuperFrameRecalc,
                  mDeliveryHOLFirstRun, mNextExpectedFrameNumber>>
  BY DEF linkVars, senderVars, CloseDelivered, counterVars, headVars
<1>2. /\ DOMAIN mBucketMap' = DOMAIN mBucketMap \ lDeleteList /\ lDeleteList' = {}
      /\ \A slot \in Slots : mBucketList'[slot] =
            IF slot \in DeliveredSlots THEN ClosedBucket(mBucketList[slot].mDeliveryOrder)
                                       ELSE mBucketList[slot]
  BY DEF CloseDelivered, MapErase
<1>0. \A order : ~ClosedBucket(order).mActive /\ ClosedBucket(order).mDeliveryOrder = order
  BY DEF ClosedBucket
<1>3. OrdersKept(base, hs) => OrdersKept(base, hs)'
  <2>1. \A slot \in Slots : PlacedBucket(mBucketList[slot], base) =>
                            PlacedBucket(mBucketList'[slot], base)
    <3>1. ASSUME NEW slot \in Slots, PlacedBucket(mBucketList[slot], base)
          PROVE  PlacedBucket(mBucketList'[slot], base)
      <4>1. CASE slot \in DeliveredSlots
        <5>1. ~mBucketList'[slot].mActive
          BY <1>0, <1>2, <4>1
        <5>. QED
          BY <5>1 DEF PlacedBucket
      <4>2. CASE slot \notin DeliveredSlots
        BY <1>2, <3>1, <4>2
      <4>. QED
        BY <4>1, <4>2
    <3>. QED
      BY <3>1
  <2>. QED
    BY <1>1, <2>1 DEF OrdersKept, Placed, PlacedBucket, BaseIsFirst
<1>4. HandedInOrder(base, hs) => HandedInOrder(base, hs)'
  BY <1>1, <1>2 DEF HandedInOrder, HandedOut
<1>5. ASSUME HandedOnce(base, hs), NEW i \in 1 .. Len(hs)
      PROVE  Remembered(hs[i].order)' \/ Passed(hs[i].order, base)'
  <2>. DEFINE k == hs[i].order
  <2>1. k % RingSize \in Slots
    <3>1. PICK s \in Sources : \E n \in 1 .. Len(sent[s]) : k = Ord(n, base)
      BY DEF Ordered, OrdersKept, Placed
    <3>2. PICK n \in 1 .. Len(sent[s]) : k = Ord(n, base)
      BY <3>1
    <3>3. k \in Int
      BY <3>2, NumberInStream, OrdType
    <3>. QED
      BY <3>3, SlotOfNumber DEF Slot
  <2>2. CASE k \in DOMAIN mBucketMap
    <3>1. k \in lDeleteList
      BY <1>5, <2>2 DEF HandedOnce, HandedOut
    <3>2. mBucketMap[k] = k % RingSize /\ mBucketList[k % RingSize].mDeliveryOrder = k
      BY <2>2, KeyIsActive
    <3>3. k % RingSize \in DeliveredSlots
      BY <3>1, <3>2 DEF DeliveredSlots
    <3>4. mBucketList'[k % RingSize] = ClosedBucket(k)
      BY <1>2, <2>1, <3>2, <3>3
    <3>5. ~mBucketList'[k % RingSize].mActive /\ mBucketList'[k % RingSize].mDeliveryOrder = k
      BY <1>0, <3>4
    <3>. QED
      BY <3>5 DEF Remembered
  <2>3. CASE Remembered(k)
    <3>1. k % RingSize \notin DeliveredSlots
      <4>1. \A j \in lDeleteList : mBucketList[mBucketMap[j]].mActive
        BY KeyIsActive DEF PassInv
      <4>. QED
        BY <2>3, <4>1 DEF DeliveredSlots, Remembered
    <3>. QED
      BY <1>2, <2>1, <2>3, <3>1 DEF Remembered
  <2>4. CASE Passed(k, base)
    BY <1>1, <2>4 DEF Passed
  <2>. QED
    BY <1>5, <2>2, <2>3, <2>4 DEF HandedOnce
<1>6. HandedOnce(base, hs) => HandedOnce(base, hs)'
  BY <1>2, <1>5 DEF HandedOnce, HandedOut
<1>. QED
  BY <1>3, <1>4, <1>6 DEF Ordered

LEMMA CloseKeepsPass == ASSUME CloseDelivered PROVE PassInOrder'
  BY DEF CloseDelivered, PassInOrder

LEMMA CloseKeepsNothing ==
    ASSUME NEW hs, mSuperFrameFirstTime => NothingYet(hs), CloseDelivered
    PROVE  mSuperFrameFirstTime' => NothingYet(hs)'
  BY DEF CloseDelivered, NothingYet, counterVars, ClosedBucket

(* The stream grows at its end, and time goes on. *)
LEMMA LinkKeepsOrder ==
    ASSUME OneSource, StreamWithinReach, SenderIInv, SenderIInv', LinkInv,
           NEW base \in Int, NEW hs, Ordered(base, hs),
           mSuperFrameFirstTime => NothingYet(hs),
           Send \/ Number \/ (Tick /\ UNCHANGED senderVars),
           UNCHANGED <<assemblyVars, headVars, lDeleteList>>
    PROVE  Ordered(base, hs)'
<1>1. UNCHANGED <<mSuperFrameFirstTime, mOldSuperFrameNumber, mSuperFrameRecalc,
                  mBucketList, mBucketMap, mDeliveryHOLFirstRun,
                  mNextExpectedFrameNumber, lDeleteList>>
  BY DEF assemblyVars, counterVars, headVars
<1>2. \A s \in Sources : \A n \in 1 .. Len(sent[s]) :
          n \in 1 .. Len(sent'[s]) /\ sent'[s][n] = sent[s][n]
  BY LinkGrows
<1>3. now \in Nat /\ now' \in Nat /\ now <= now'
  BY DEF LinkInv, SendInstants, Send, Number, Tick
<1>4. \A s \in Sources :
          /\ Len(sent[s]) \in Nat /\ Len(sent'[s]) \in Nat /\ Len(sent[s]) <= Len(sent'[s])
          /\ Len(sent'[s]) <= MaxFrames /\ MaxFrames \in Nat
  <2>1. ASSUME NEW s \in Sources
        PROVE  Len(sent[s]) \in Nat /\ Len(sent'[s]) \in Nat /\ Len(sent'[s]) <= MaxFrames
    BY DEF SenderIInv
  <2>2. ASSUME NEW s \in Sources
        PROVE  Len(sent[s]) <= Len(sent'[s])
    <3>1. CASE Len(sent[s]) = 0
      BY <2>1, <3>1
    <3>2. CASE Len(sent[s]) # 0
      <4>1. Len(sent[s]) \in 1 .. Len(sent[s])
        BY <2>1, <3>2
      <4>. QED
        BY <1>2, <2>1, <4>1
    <3>. QED
      BY <3>1, <3>2
  <2>. QED
    BY <2>1, <2>2, SenderAssumption
<1>5. \A sfn, order : Placed(sfn, order, base) => Placed(sfn, order, base)'
  BY <1>2 DEF Placed
<1>6. ~mSuperFrameFirstTime /\ BaseIsFirst(base) => BaseIsFirst(base)'
  <2>. SUFFICES ASSUME ~mSuperFrameFirstTime, BaseIsFirst(base),
                       NEW s \in Sources, sent'[s] # <<>>
                PROVE  base = 1 - sent'[s][1].sfn
    BY DEF BaseIsFirst
  <2>1. PICK n \in 1 .. Len(sent[s]) : sent[s][n].sfn = mOldSuperFrameNumber
    BY PlacedIn DEF Ordered, OrdersKept
  <2>2. 1 \in 1 .. Len(sent[s]) /\ sent[s] # <<>>
    BY NumberInStream
  <2>. QED
    BY <1>2, <2>2 DEF BaseIsFirst
<1>7. \A b : PlacedBucket(b, base) => PlacedBucket(b, base)'
  BY <1>2 DEF PlacedBucket
<1>8. OrdersKept(base, hs)'
  BY <1>1, <1>5, <1>6, <1>7 DEF Ordered, OrdersKept
<1>9. HandedOnce(base, hs) => HandedOnce(base, hs)'
  <2>1. ASSUME NEW k, Passed(k, base)
        PROVE  Passed(k, base)'
    <3>1. PICK s \in Sources : \E n \in 1 .. Len(sent[s]) :
              k = Ord(n, base) /\ n + Window <= Len(sent[s])
      BY <2>1 DEF Passed
    <3>2. PICK n \in 1 .. Len(sent[s]) : k = Ord(n, base) /\ n + Window <= Len(sent[s])
      BY <3>1
    <3>3. n \in 1 .. Len(sent'[s]) /\ n + Window <= Len(sent'[s])
      <4>1. n \in Int
        BY NumberInStream
      <4>. QED
        BY <1>2, <1>4, <3>2, <4>1, LinkAssumption
    <3>. QED
      BY <3>2, <3>3 DEF Passed
  <2>. QED
    BY <1>1, <2>1 DEF HandedOnce, HandedOut, Remembered
<1>10. ASSUME InOrderMode, HandedInOrder(base, hs)
       PROVE  HandedInOrder(base, hs)'
  <2>1. ASSUME NEW s \in Sources, NEW n \in 1 .. Len(sent'[s]), NEW i \in 1 .. Len(hs),
               hs[1].order < Ord(n, base), Ord(n, base) < hs[i].order,
               ~HandedOut(Ord(n, base), hs)
        PROVE  Ord(n, base) \notin DOMAIN mBucketMap /\ now' - sent'[s][n].at > MaxDelay
    <3>0. n \in Int /\ n >= 1 /\ n <= MaxFrames
      BY <1>4
    <3>1. CASE n \in 1 .. Len(sent[s])
      <4>1. Ord(n, base) \notin DOMAIN mBucketMap /\ now - sent[s][n].at > MaxDelay
        BY <1>10, <2>1, <3>1 DEF HandedInOrder
      <4>2. sent'[s][n] = sent[s][n] /\ sent[s][n].at \in Nat
        BY <1>2, <3>1, SentCall DEF SentFrame
      <4>3. PICK at \in Nat : at = sent[s][n].at
        BY <4>2
      <4>4. now - at > MaxDelay /\ now' - at >= now - at
        BY <1>3, <4>1, <4>3
      <4>5. now' - at > MaxDelay
        BY <1>3, <4>3, <4>4, LinkAssumption
      <4>. QED
        BY <4>1, <4>2, <4>3, <4>5
    <3>2. CASE n \notin 1 .. Len(sent[s])
      <4>1. Placed(hs[i].mSuperFrameNo, hs[i].order, base)
        BY DEF Ordered, OrdersKept
      <4>2. PICK m \in 1 .. Len(sent[s]) : hs[i].order = Ord(m, base)
        BY <4>1, PlacedIn
      <4>3. m < n /\ m \in Int /\ m >= 1 /\ m <= MaxFrames
        <5>1. m \in Int /\ m >= 1 /\ m <= MaxFrames /\ m <= Len(sent[s])
          BY NumberInStream
        <5>. QED
          BY <1>4, <3>0, <3>2, <5>1
      <4>4. hs # <<>>
        OBVIOUS
      <4>5. BaseIsFirst(base)
        BY <4>4, <1>10 DEF NothingYet, Ordered, OrdersKept, InOrderMode
      <4>. DEFINE first == sent[s][1].sfn
      <4>6. base = 1 - first /\ first \in Int /\ 0 <= first /\ first < U16Mod
        <5>1. 1 \in 1 .. Len(sent[s]) /\ sent[s] # <<>>
          BY NumberInStream
        <5>. QED
          BY <5>1, <4>5, NumberInStream DEF BaseIsFirst
      <4>. HIDE DEF first
      <4>7. Ord(n, base) = n - base /\ Ord(m, base) = m - base
        BY <3>0, <4>3, <4>6, <1>10, PlaceWithoutWrap DEF InOrderMode
      <4>. QED
        BY <2>1, <3>0, <4>2, <4>3, <4>7
    <3>. QED
      BY <3>1, <3>2
  <2>. QED
    BY <1>1, <1>10, <2>1 DEF HandedInOrder, HandedOut
<1>. QED
  BY <1>8, <1>9, <1>10 DEF Ordered

LEMMA OrderedInit ==
    ASSUME AssemblyInit, PassInit
    PROVE  Ordered(0, <<>>) /\ PassInOrder /\ NothingYet(<<>>)
<1>1. \A slot \in Slots : ~mBucketList[slot].mActive
  BY DEF AssemblyInit, ClosedBucket
<1>2. mSuperFrameFirstTime /\ DOMAIN mBucketMap = {} /\ todo = {} /\ lDeleteList = {}
  BY DEF AssemblyInit, CounterInit, PassInit
<1>. QED
  BY <1>1, <1>2 DEF Ordered, OrdersKept, HandedOnce, HandedInOrder, PassInOrder,
     NothingYet, PlacedBucket

(* A fragment that is under way keeps the order, whatever comes of it. *)
LEMMA UnpackKeepsOrder ==
    ASSUME OneSource, StreamWithinReach, SenderIInv, LinkInv, AssemblyInv,
           NEW hs, mSuperFrameFirstTime => NothingYet(hs),
           \E base \in Int : Ordered(base, hs),
           NEW s \in Sources, NEW n \in 1 .. Len(sent[s]), UnderWay(s, n),
           NEW f \in SentFragments(s, n), IsFragment(f),
           mSuperFrameFirstTime => MayJoinAt(f), lDeleteList = {},
           NEW src, NEW m, Unpack(f, src, m), UNCHANGED <<linkVars, passVars>>
    PROVE  /\ \E base \in Int : Ordered(base, hs)'
           /\ mSuperFrameFirstTime' => NothingYet(hs)'
<1>1. f.sfn = sent[s][n].sfn /\ f.id = <<s, n>>
  BY SentAtPosition
<1>2. mSuperFrameFirstTime => n <= JoinBy
  BY <1>1 DEF MayJoinAt
<1>3. PICK base \in Int : /\ Ordered(base, hs)
                          /\ DeliveryOrderCandidate(f.sfn) = Ord(n, base)
                          /\ JoinsBeforeWrap => BaseIsFirst(base)
  BY <1>1, <1>2, PlaceTold
<1>4. Opens(f) \/ Refuses(f) \/ GivesUp(f) \/ Leaves(f)
  BY UnpackCases
<1>5. UNCHANGED <<headVars, lDeleteList>>
  BY DEF passVars
<1>6. OrdersKept(base, hs)' /\ (mSuperFrameFirstTime' => NothingYet(hs)')
  BY <1>1, <1>3, <1>4, UnpackKeepsPlaces DEF Ordered
<1>7. ASSUME RingOutlastsWindow PROVE HandedOnce(base, hs)'
  BY <1>1, <1>3, <1>4, <1>5, <1>7, UnpackKeepsOnce DEF Ordered, UnderWay
<1>8. ASSUME RingOutlastsWindow, InOrderMode PROVE HandedInOrder(base, hs)'
  BY <1>1, <1>3, <1>4, <1>5, <1>8, UnpackKeepsInOrder DEF Ordered, UnderWay
<1>. QED
  BY <1>6, <1>7, <1>8 DEF Ordered

(* So does handing a superframe over. *)
LEMMA DeliverKeepsOrder ==
    ASSUME OneSource, StreamWithinReach, SenderIInv, LinkInv, AssemblyInv, PassInv,
           PassInOrder, TimeOutsSet, lTimeNow <= now, NEW base \in Int,
           NEW hs \in Seq(SuperFrameRecord), Ordered(base, hs),
           mSuperFrameFirstTime => NothingYet(hs),
           NEW k, DeliverBucket(k), NEW hs2, hs2 = Append(hs, SuperFrame(k)),
           UNCHANGED <<linkVars, assemblyVars>>
    PROVE  /\ Ordered(base, hs2)'
           /\ mSuperFrameFirstTime' => NothingYet(hs2)'
<1>1. k \in DOMAIN mBucketMap
  BY VisitedIsLeast
<1>2. ~mSuperFrameFirstTime /\ ~mSuperFrameFirstTime'
  <2>1. k % RingSize \in Slots /\ mBucketList[k % RingSize].mActive
    BY <1>1, KeyIsActive
  <2>. QED
    BY <2>1 DEF NothingYet, assemblyVars, counterVars
<1>3. OrdersKept(base, hs2)'
  <2>1. PlacedBucket(mBucketList[k % RingSize], base)
        /\ mBucketList[k % RingSize].mActive
    BY <1>1, KeyIsActive DEF Ordered, OrdersKept
  <2>2. PICK s \in Sources : TRUE
    BY <2>1 DEF PlacedBucket
  <2>. QED
    BY <1>1, <2>2, DeliverKeepsPlaces DEF Ordered
<1>4. ASSUME RingOutlastsWindow PROVE HandedOnce(base, hs2)'
  BY <1>4, DeliverKeepsOnce DEF Ordered
<1>5. ASSUME RingOutlastsWindow, InOrderMode PROVE HandedInOrder(base, hs2)'
  <2>1. BaseIsFirst(base)
    BY <1>2, <1>5 DEF Ordered, OrdersKept, InOrderMode
  <2>. QED
    BY <1>5, <2>1, DeliverKeepsInOrder DEF Ordered
<1>. QED
  BY <1>2, <1>3, <1>4, <1>5 DEF Ordered

(***************************************************************************)
(* The refinement mapping: what was sent and what was handed over, as the  *)
(* FrameChannel sees it.                                                   *)
(***************************************************************************)
PacketBytes(s, n) ==
    {[of |-> <<s, n>>, byte |-> b, at |-> b] : b \in 0 .. sent[s][n].call.size - 1}

LEMMA OfferedIs ==
    ASSUME SenderIInv
    PROVE  /\ Offered \in [Sources -> Seq(Calls)]
           /\ \A s \in Sources :
                 /\ Len(Offered[s]) = Len(sent[s]) /\ Len(sent[s]) \in Nat
                 /\ \A n \in 1 .. Len(sent[s]) : Offered[s][n] = sent[s][n].call
<1>1. ASSUME NEW s \in Sources
      PROVE  /\ Offered[s] \in Seq(Calls)
             /\ Len(Offered[s]) = Len(sent[s]) /\ Len(sent[s]) \in Nat
             /\ \A n \in 1 .. Len(sent[s]) : Offered[s][n] = sent[s][n].call
  <2>. DEFINE k == Len(sent[s])
              calls == [n \in 1 .. k |-> sent[s][n].call]
  <2>1. k \in Nat
    BY DEF SenderIInv
  <2>2. \A n \in 1 .. k : sent[s][n].call \in Calls
    BY SentCall
  <2>3. calls \in [1 .. k -> Calls] /\ Offered[s] = calls
    BY <2>2 DEF Offered
  <2>. HIDE DEF k
  <2>4. calls \in Seq(Calls) /\ Len(calls) = k
    BY <2>1, <2>3
  <2>. QED
    BY <2>1, <2>3, <2>4 DEF k
<1>2. Offered \in [Sources -> Seq(Calls)]
  BY <1>1 DEF Offered
<1>. QED
  BY <1>1, <1>2

LEMMA NumberOfIs ==
    ASSUME SenderIInv, NumbersSuffice, NEW d, NEW s \in Sources,
           NEW n \in 1 .. Len(sent[s]), SentAs(d, s, n)
    PROVE  NumberOf(d) = n /\ d.mSource = s
<1>1. d.mSource = s
  BY DEF SentAs
<1>2. \A m \in 1 .. Len(sent[s]) : SentAs(d, s, m) => m = n
  BY NumbersDiffer DEF SentAs, NumbersSuffice
<1>. QED
  BY <1>1, <1>2 DEF NumberOf

LEMMA AllHandedIs ==
    ASSUME NEW S, NEW hs \in Seq(S)
    PROVE  LET H == {AsHanded(d) : d \in S}
           IN  /\ AllHanded(hs) \in Seq(H) /\ Len(AllHanded(hs)) = Len(hs)
               /\ Len(hs) \in Nat
               /\ \A i \in 1 .. Len(hs) : AllHanded(hs)[i] = AsHanded(hs[i])
<1>. DEFINE H == {AsHanded(d) : d \in S}
            as(d) == AsHanded(d)
            k == Len(hs)
<1>1. k \in Nat /\ \A i \in 1 .. k : as(hs[i]) \in H
  OBVIOUS
<1>2. AllHanded(hs) = [i \in 1 .. k |-> as(hs[i])]
  BY DEF AllHanded
<1>. HIDE DEF H, as, k
<1>3. AllHanded(hs) \in [1 .. k -> H]
  BY <1>1, <1>2
<1>4. AllHanded(hs) \in Seq(H) /\ Len(AllHanded(hs)) = k
  BY <1>1, <1>3
<1>5. \A i \in 1 .. k : AllHanded(hs)[i] = as(hs[i])
  BY <1>2
<1>. QED
  BY <1>1, <1>4, <1>5 DEF H, as, k

LEMMA AllHandedAppend ==
    ASSUME NEW S, NEW hs \in Seq(S), NEW d \in S
    PROVE  AllHanded(Append(hs, d)) = Append(AllHanded(hs), AsHanded(d))
<1>. DEFINE H == {AsHanded(e) : e \in S}
            a == AllHanded(Append(hs, d))
            b == AllHanded(hs)
            c == AsHanded(d)
<1>1. /\ Append(hs, d) \in Seq(S) /\ Len(hs) \in Nat
      /\ Len(Append(hs, d)) = Len(hs) + 1 /\ Append(hs, d)[Len(hs) + 1] = d
      /\ \A i \in 1 .. Len(hs) : Append(hs, d)[i] = hs[i]
  BY AppendIs
<1>2. /\ a \in Seq(H) /\ Len(a) = Len(hs) + 1
      /\ \A i \in 1 .. Len(hs) + 1 : a[i] = AsHanded(Append(hs, d)[i])
  BY <1>1, AllHandedIs
<1>3. /\ b \in Seq(H) /\ Len(b) = Len(hs)
      /\ \A i \in 1 .. Len(hs) : b[i] = AsHanded(hs[i])
  BY AllHandedIs
<1>4. c \in H
  OBVIOUS
<1>5. a[Len(hs) + 1] = c
  <2>1. Len(hs) + 1 \in 1 .. Len(hs) + 1
    BY <1>1
  <2>. QED
    BY <1>1, <1>2, <2>1
<1>6. \A i \in 1 .. Len(hs) : a[i] = b[i]
  <2>1. \A i \in 1 .. Len(hs) : i \in 1 .. Len(hs) + 1
    BY <1>1
  <2>. QED
    BY <1>1, <1>2, <1>3, <2>1
<1>. HIDE DEF H, a, b, c
<1>7. Append(b, c) \in Seq(H) /\ Len(Append(b, c)) = Len(hs) + 1
      /\ Append(b, c)[Len(hs) + 1] = c /\ \A i \in 1 .. Len(hs) : Append(b, c)[i] = b[i]
  BY <1>1, <1>3, <1>4
<1>8. \A i \in 1 .. Len(a) : a[i] = Append(b, c)[i]
  <2>1. \A i \in 1 .. Len(hs) + 1 : i \in 1 .. Len(hs) \/ i = Len(hs) + 1
    BY <1>1
  <2>. QED
    BY <1>2, <1>5, <1>6, <1>7, <2>1
<1>9. a = Append(b, c)
  BY <1>2, <1>7, <1>8, SeqEqual
<1>. QED
  BY <1>9 DEF a, b, c

(* Accepting a packet offers it. *)
LEMMA SendOffers ==
    ASSUME SenderIInv, SenderIInv', NEW s \in Sources, NEW c \in Calls, NEW at,
           PackAndSendAccepted(s, c, at)
    PROVE  Offered' = [Offered EXCEPT ![s] = Append(Offered[s], c)]
<1>. DEFINE old == sent[s]
            e == [call |-> c, sfn |-> mSuperFrameNoGenerator[s], at |-> at]
<1>1. sent \in [Sources -> Seq(SentFrame)] /\ old \in Seq(SentFrame)
  BY DEF SenderIInv
<1>2. sent' = [sent EXCEPT ![s] = Append(old, e)] /\ e.call = c
  BY DEF PackAndSendAccepted
<1>. HIDE DEF e
<1>3. sent'[s] = Append(old, e) /\ \A t \in Sources \ {s} : sent'[t] = sent[t]
  BY <1>1, <1>2
<1>4. /\ Len(old) \in Nat /\ Len(sent'[s]) = Len(old) + 1
      /\ sent'[s][Len(old) + 1] = e
      /\ \A n \in 1 .. Len(old) : sent'[s][n] = old[n]
  BY <1>1, <1>3
<1>5. /\ Offered[s] \in Seq(Calls) /\ Len(Offered[s]) = Len(old)
      /\ \A n \in 1 .. Len(old) : Offered[s][n] = old[n].call
  BY OfferedIs
<1>6. Offered' = [t \in Sources |-> [n \in 1 .. Len(sent'[t]) |-> sent'[t][n].call]]
  BY DEF Offered
<1>. DEFINE new == [n \in 1 .. Len(old) + 1 |-> sent'[s][n].call]
<1>7. Offered'[s] = new
  BY <1>4, <1>6
<1>8. /\ new \in Seq(Calls) /\ Len(new) = Len(old) + 1
      /\ new[Len(old) + 1] = c
      /\ \A n \in 1 .. Len(old) : new[n] = old[n].call
  <2>1. \A n \in 1 .. Len(old) + 1 : n \in 1 .. Len(old) \/ n = Len(old) + 1
    BY <1>4
  <2>2. \A n \in 1 .. Len(old) + 1 : sent'[s][n].call \in Calls
    <3>1. \A n \in 1 .. Len(old) : old[n].call \in Calls
      BY SentCall
    <3>. QED
      BY <1>2, <1>4, <2>1, <3>1
  <2>3. new \in [1 .. Len(old) + 1 -> Calls]
    BY <2>2
  <2>4. Len(old) + 1 \in Nat /\ Len(old) + 1 \in 1 .. Len(old) + 1
        /\ \A n \in 1 .. Len(old) : n \in 1 .. Len(old) + 1
    BY <1>4
  <2>5. \A n \in 1 .. Len(old) + 1 : new[n] = sent'[s][n].call
    OBVIOUS
  <2>. HIDE DEF new, old
  <2>6. new \in Seq(Calls) /\ Len(new) = Len(old) + 1
    BY <2>3, <2>4
  <2>. QED
    BY <1>2, <1>4, <2>4, <2>5, <2>6
<1>. HIDE DEF new, old
<1>9. new = Append(Offered[s], c)
  <2>1. /\ Append(Offered[s], c) \in Seq(Calls) /\ Len(Append(Offered[s], c)) = Len(old) + 1
        /\ Append(Offered[s], c)[Len(old) + 1] = c
        /\ \A n \in 1 .. Len(old) : Append(Offered[s], c)[n] = Offered[s][n]
    BY <1>5
  <2>2. \A n \in 1 .. Len(new) : new[n] = Append(Offered[s], c)[n]
    <3>1. \A n \in 1 .. Len(old) + 1 : n \in 1 .. Len(old) \/ n = Len(old) + 1
      BY <1>4
    <3>. QED
      BY <1>5, <1>8, <2>1, <3>1
  <2>. QED
    BY <1>8, <2>1, <2>2, SeqEqual
<1>10. \A t \in Sources \ {s} : Offered'[t] = Offered[t]
  BY <1>3, <1>6 DEF Offered
<1>11. Offered' \in [Sources -> Seq(Calls)] /\ Offered \in [Sources -> Seq(Calls)]
  <2>1. \A t \in Sources : Offered'[t] \in Seq(Calls)
    BY <1>7, <1>8, <1>10, OfferedIs
  <2>. QED
    BY <1>6, <2>1, OfferedIs
<1>. QED
  BY <1>7, <1>9, <1>10, <1>11

(* The bytes of a superframe are bytes of its packet, in their places. *)
LEMMA BytesOfChunks ==
    ASSUME SenderIInv, NEW s \in Sources, NEW n \in 1 .. Len(sent[s]), NEW d,
           d.chunks \subseteq ChunksOf(s, n)
    PROVE  /\ BytesIn(d) \subseteq PacketBytes(s, n)
           /\ d.chunks = ChunksOf(s, n) => BytesIn(d) = PacketBytes(s, n)
<1>. DEFINE size == sent[s][n].call.size
            F == SentFragments(s, n)
            chunk(f) == [at |-> f.off, off |-> f.off, len |-> f.len, id |-> <<s, n>>]
            spot(b) == [of |-> <<s, n>>, byte |-> b, at |-> b]
            spots(x) == {[of |-> x.id, byte |-> x.off + i, at |-> x.at + i] :
                            i \in 0 .. x.len - 1}
<1>1. size \in Nat /\ size <= LargestPacket
  BY SentCall
<1>2. /\ \A b \in 0 .. size - 1 :
            Cardinality({f \in F : f.off <= b /\ b < f.off + f.len}) = 1
      /\ \A f \in F : f.off + f.len <= size
  BY <1>1, PacketCovered DEF SentFragments
<1>3. ASSUME NEW f \in F PROVE f.off \in Nat /\ f.len \in Nat
  <2>. DEFINE c == sent[s][n].call
              sfn == sent[s][n].sfn
              at(i) == FragmentAt(<<s, n>>, c, sfn, i)
  <2>1. f.frag \in 0 .. LastFragmentNo(c.size) /\ f = at(f.frag)
    BY SentAtPosition
  <2>2. \A i \in 0 .. LastFragmentNo(c.size) : at(i).off \in Nat /\ at(i).len \in Nat
    BY <1>1, FragmentFacts
  <2>. HIDE DEF at, c
  <2>. QED
    BY <2>1, <2>2
<1>4. /\ ChunksOf(s, n) = {chunk(f) : f \in {g \in F : g.len > 0}}
      /\ BytesIn(d) = UNION {spots(x) : x \in d.chunks}
      /\ PacketBytes(s, n) = {spot(b) : b \in 0 .. size - 1}
  BY DEF ChunksOf, BytesIn, PacketBytes
<1>5. ASSUME NEW f \in F
      PROVE  spots(chunk(f)) = {spot(f.off + i) : i \in 0 .. f.len - 1}
  OBVIOUS
<1>. HIDE DEF size, F, chunk, spot, spots
<1>6. ASSUME NEW y \in BytesIn(d)
      PROVE  y \in PacketBytes(s, n)
  <2>1. PICK x \in d.chunks : y \in spots(x)
    BY <1>4
  <2>2. PICK f \in F : x = chunk(f)
    BY <2>1, <1>4
  <2>3. PICK i \in 0 .. f.len - 1 : y = spot(f.off + i)
    BY <1>5, <2>1, <2>2
  <2>4. f.off + i \in 0 .. size - 1
    BY <1>1, <1>2, <1>3
  <2>. QED
    BY <1>4, <2>3, <2>4
<1>7. ASSUME d.chunks = ChunksOf(s, n), NEW y \in PacketBytes(s, n)
      PROVE  y \in BytesIn(d)
  <2>1. PICK b \in 0 .. size - 1 : y = spot(b)
    BY <1>4
  <2>2. PICK f \in F : f.off <= b /\ b < f.off + f.len
    <3>. DEFINE there == {f \in F : f.off <= b /\ b < f.off + f.len}
    <3>1. Cardinality(there) = 1
      BY <1>2
    <3>0. Cardinality({}) = 0
      BY FS_EmptySet
    <3>. HIDE DEF there
    <3>2. there # {}
      <4>. SUFFICES ASSUME there = {} PROVE FALSE
        OBVIOUS
      <4>1. Cardinality(there) = 0
        BY <3>0, Zenon
      <4>. QED
        BY <3>1, <4>1
    <3>. QED
      BY <3>2 DEF there
  <2>3. f.off \in Nat /\ f.len \in Nat /\ b \in Int /\ f.len > 0
    BY <1>1, <1>3, <2>2
  <2>4. chunk(f) \in d.chunks
    BY <1>4, <1>7, <2>3
  <2>5. PICK i \in 0 .. f.len - 1 : b = f.off + i
    <3>1. b - f.off \in 0 .. f.len - 1 /\ b = f.off + (b - f.off)
      BY <2>2, <2>3
    <3>. QED
      BY <3>1
  <2>6. y \in spots(chunk(f))
    BY <1>5, <2>1, <2>5
  <2>. QED
    BY <1>4, <2>4, <2>6
<1>. QED
  BY <1>6, <1>7

(* What the channel promises of a superframe handed over. *)
LEMMA HandedAsPromised ==
    ASSUME SenderIInv, NumbersSuffice, NEW d, HandedRight(d, {})
    PROVE  \E s \in Sources : \E n \in 1 .. Len(sent[s]) :
              /\ SentAs(d, s, n)
              /\ AsHanded(d).source = s /\ AsHanded(d).n = n
              /\ \/ /\ AsHanded(d).packet = {sent[s][n].call}
                    /\ AsHanded(d).bytes = PacketBytes(s, n)
                 \/ /\ AsHanded(d).packet = {}
                    /\ AsHanded(d).bytes \subseteq PacketBytes(s, n)
<1>1. PICK s \in Sources : \E n \in 1 .. Len(sent[s]) :
          /\ SentAs(d, s, n)
          /\ d.chunks \subseteq ChunksOf(s, n)
          /\ ~d.mBroken => d.chunks = ChunksOf(s, n) /\ PacketIn(d) = sent[s][n].call
  BY DEF HandedRight, Spoilt
<1>2. PICK n \in 1 .. Len(sent[s]) :
          /\ SentAs(d, s, n)
          /\ d.chunks \subseteq ChunksOf(s, n)
          /\ ~d.mBroken => d.chunks = ChunksOf(s, n) /\ PacketIn(d) = sent[s][n].call
  BY <1>1
<1>3. NumberOf(d) = n /\ d.mSource = s
  BY <1>2, NumberOfIs
<1>4. /\ BytesIn(d) \subseteq PacketBytes(s, n)
      /\ ~d.mBroken => BytesIn(d) = PacketBytes(s, n)
  BY <1>2, BytesOfChunks
<1>. DEFINE h == AsHanded(d)
<1>5. h.source = d.mSource /\ h.n = NumberOf(d) /\ h.bytes = BytesIn(d)
      /\ h.packet = IF d.mBroken THEN {} ELSE {PacketIn(d)}
  BY DEF AsHanded
<1>. HIDE DEF h
<1>6. \/ h.packet = {sent[s][n].call} /\ h.bytes = PacketBytes(s, n)
      \/ h.packet = {} /\ h.bytes \subseteq PacketBytes(s, n)
  <2>1. CASE d.mBroken
    BY <1>4, <1>5, <2>1
  <2>2. CASE ~d.mBroken
    BY <1>2, <1>4, <1>5, <2>2
  <2>. QED
    BY <2>1, <2>2
<1>. QED
  BY <1>2, <1>3, <1>5, <1>6 DEF h

(* As the stream grows, what was handed over keeps its number. *)
NumbersDistinct ==
    \A s \in Sources : \A n, m \in 1 .. Len(sent[s]) :
        sent[s][n].sfn = sent[s][m].sfn => n = m

LEMMA NumbersAreDistinct == ASSUME NumbersSuffice PROVE SenderIInv => NumbersDistinct
  BY NumbersDiffer DEF NumbersDistinct, NumbersSuffice

LEMMA NumbersStayDistinct ==
    ASSUME NumbersSuffice PROVE SenderIInv' => NumbersDistinct'
<1>1. SenderIInv => NumbersDistinct
  BY NumbersAreDistinct
<1>. QED
  BY <1>1, PTL

LEMMA HandedStays ==
    ASSUME SenderIInv, SenderIInv', NumbersSuffice, NEW d, HandedRight(d, {}),
           \A s \in Sources : \A n \in 1 .. Len(sent[s]) :
               n \in 1 .. Len(sent'[s]) /\ sent'[s][n] = sent[s][n]
    PROVE  AsHanded(d)' = AsHanded(d)
<1>1. PICK s \in Sources : \E n \in 1 .. Len(sent[s]) : SentAs(d, s, n)
  BY HandedAsPromised
<1>2. PICK n \in 1 .. Len(sent[s]) : SentAs(d, s, n)
  BY <1>1
<1>3. NumberOf(d) = n /\ d.mSource = s
  BY <1>2, NumberOfIs
<1>4. n \in 1 .. Len(sent'[s]) /\ d.mSuperFrameNo = sent'[s][n].sfn
  BY <1>2 DEF SentAs
<1>5. \A m \in 1 .. Len(sent'[s]) : d.mSuperFrameNo = sent'[s][m].sfn => m = n
  BY <1>4, NumbersStayDistinct DEF NumbersDistinct
<1>6. NumberOf(d)' = n
  BY <1>3, <1>4, <1>5 DEF NumberOf, SentAs
<1>. QED
  BY <1>3, <1>6 DEF AsHanded, BytesIn, PacketIn

LEMMA InFlightIsUnderWay ==
    ASSUME SenderIInv, NEW f \in InFlight
    PROVE  \E s \in Sources : \E n \in 1 .. Len(sent[s]) :
              f \in SentFragments(s, n) /\ UnderWay(s, n)
<1>1. PICK p \in Sources \X (1 .. MaxFrames) :
          /\ p[2] <= Len(sent[p[1]]) /\ UnderWay(p[1], p[2])
          /\ f \in SentFragments(p[1], p[2])
  BY DEF InFlight
<1>2. Len(sent[p[1]]) \in Nat
  BY DEF SenderIInv
<1>3. p[1] \in Sources /\ p[2] \in 1 .. Len(sent[p[1]])
  BY <1>1, <1>2, SenderAssumption
<1>. QED
  BY <1>1, <1>3

(* The order of a superframe tells its place in the stream. *)
LEMMA PlaceOfOrder ==
    ASSUME OneSource, StreamWithinReach, SenderIInv, NEW base,
           NEW d, Placed(d.mSuperFrameNo, d.order, base),
           NEW s \in Sources, NEW n \in 1 .. Len(sent[s]), SentAs(d, s, n)
    PROVE  d.order = Ord(n, base)
<1>1. PICK m \in 1 .. Len(sent[s]) :
          sent[s][m].sfn = d.mSuperFrameNo /\ d.order = Ord(m, base)
  BY PlacedIn
<1>2. m = n
  BY <1>1, Reach, NumbersDiffer DEF SentAs
<1>. QED
  BY <1>1, <1>2

LEMMA HandedPlace ==
    ASSUME OneSource, StreamWithinReach, SenderIInv, NEW base,
           NEW d, HandedRight(d, {}), Placed(d.mSuperFrameNo, d.order, base),
           NEW s \in Sources
    PROVE  /\ AsHanded(d).source = s
           /\ AsHanded(d).n \in 1 .. Len(sent[s])
           /\ d.order = Ord(AsHanded(d).n, base)
<1>1. PICK t \in Sources : \E n \in 1 .. Len(sent[t]) :
          SentAs(d, t, n) /\ AsHanded(d).source = t /\ AsHanded(d).n = n
  BY Reach, HandedAsPromised DEF NumbersSuffice
<1>2. t = s
  BY DEF OneSource
<1>3. PICK n \in 1 .. Len(sent[s]) :
          SentAs(d, s, n) /\ AsHanded(d).source = s /\ AsHanded(d).n = n
  BY <1>1, <1>2
<1>4. d.order = Ord(n, base)
  BY <1>3, PlaceOfOrder
<1>. QED
  BY <1>3, <1>4

(* What the pass hands over is due for the channel, too. *)
LEMMA KeyMayBeHanded ==
    ASSUME OneSource, StreamWithinReach, RingOutlastsWindow, HolMode => InOrderMode,
           SenderIInv, AssemblyInv, PassInv, PassInOrder, BucketsSound({}),
           NEW hs \in Seq(SuperFrameRecord), KeepsOrder(hs),
           \A i \in 1 .. Len(hs) : HandedRight(hs[i], {}),
           NEW k, DeliverBucket(k), NEW h, h = AsHanded(SuperFrame(k))
    PROVE  \E s \in Sources : \E n \in 1 .. Len(sent[s]) :
              /\ h.source = s /\ h.n = n
              /\ \/ h.packet = {sent[s][n].call} /\ h.bytes = PacketBytes(s, n)
                 \/ h.packet = {} /\ h.bytes \subseteq PacketBytes(s, n)
              /\ \A i \in 1 .. Len(hs) : AsHanded(hs[i]).n # n
              /\ HolMode /\ hs # <<>> /\ n > AsHanded(hs[1]).n =>
                    \A i \in 1 .. Len(hs) : AsHanded(hs[i]).n < n
<1>. DEFINE d == SuperFrame(k)
<1>1. k \in todo /\ k \in DOMAIN mBucketMap
  BY VisitedIsLeast
<1>2. HandedRight(d, {}) /\ d.order = k
  BY <1>1, HandedIsSent DEF SuperFrame
<1>3. PICK s \in Sources : \E n \in 1 .. Len(sent[s]) :
          /\ SentAs(d, s, n) /\ h.source = s /\ h.n = n
          /\ \/ h.packet = {sent[s][n].call} /\ h.bytes = PacketBytes(s, n)
             \/ h.packet = {} /\ h.bytes \subseteq PacketBytes(s, n)
  BY <1>2, Reach, HandedAsPromised DEF NumbersSuffice
<1>4. PICK n \in 1 .. Len(sent[s]) :
          /\ SentAs(d, s, n) /\ h.source = s /\ h.n = n
          /\ \/ h.packet = {sent[s][n].call} /\ h.bytes = PacketBytes(s, n)
             \/ h.packet = {} /\ h.bytes \subseteq PacketBytes(s, n)
  BY <1>3
<1>5. PICK base \in Int : Ordered(base, hs)
  BY DEF KeepsOrder
<1>6. k = Ord(n, base)
  <2>1. Placed(d.mSuperFrameNo, d.order, base)
    BY <1>1, <1>2, <1>5, BucketOfKey DEF Ordered, Placed
  <2>. QED
    BY <1>2, <1>4, <2>1, PlaceOfOrder
<1>. HIDE DEF d
<1>7. ~HandedOut(k, hs)
  BY <1>1, <1>5 DEF Ordered, HandedOnce, PassInOrder
<1>8. ASSUME NEW i \in 1 .. Len(hs)
      PROVE  AsHanded(hs[i]).n \in 1 .. Len(sent[s]) /\ hs[i].order = Ord(AsHanded(hs[i]).n, base)
  BY <1>5, HandedPlace DEF Ordered, OrdersKept
<1>9. \A i \in 1 .. Len(hs) : AsHanded(hs[i]).n # n
  BY <1>6, <1>7, <1>8 DEF HandedOut
<1>10. ASSUME HolMode, hs # <<>>, n > AsHanded(hs[1]).n, NEW i \in 1 .. Len(hs)
       PROVE  AsHanded(hs[i]).n < n
  <2>1. 1 \in 1 .. Len(hs)
    BY <1>10
  <2>2. BaseIsFirst(base)
    BY <1>5, <1>10 DEF Ordered, OrdersKept, KeepsOrder, NothingYet, InOrderMode
  <2>. DEFINE m == AsHanded(hs[i]).n
              first == AsHanded(hs[1]).n
  <2>3. m \in 1 .. Len(sent[s]) /\ first \in 1 .. Len(sent[s])
        /\ hs[i].order = Ord(m, base) /\ hs[1].order = Ord(first, base) /\ m # n /\ n > first
    BY <1>8, <1>9, <1>10, <2>1
  <2>. HIDE DEF m, first
  <2>4. Ord(m, base) = m - base /\ Ord(first, base) = first - base /\ Ord(n, base) = n - base
        /\ m \in Int /\ first \in Int /\ n \in Int
    BY <1>10, <2>2, <2>3, OrdIsPlace, NumberInStream DEF InOrderMode
  <2>5. CASE m > n
    <3>1. hs[1].order < Ord(n, base) /\ Ord(n, base) < hs[i].order
      BY <2>3, <2>4, <2>5
    <3>2. k \notin DOMAIN mBucketMap
      BY <1>5, <1>6, <1>7, <1>10, <3>1 DEF Ordered, HandedInOrder
    <3>. QED
      BY <1>1, <3>2
  <2>. QED
    BY <2>3, <2>4, <2>5 DEF m
<1>. QED
  BY <1>4, <1>9, <1>10

(***************************************************************************)
(* A bucket that was used and is closed held a superframe handed over: the *)
(* pass closes no other, and fragments of the senders do not close any     *)
(* when there is memory for them.                                          *)
(***************************************************************************)
ClosedHanded(b, hs) ==
    b.mActive \/ b.mDeliveryOrder = U64Max \/ HandedOut(b.mDeliveryOrder, hs)

ClosedWereHanded(hs) ==
    /\ \A slot \in Slots : ClosedHanded(mBucketList[slot], hs)
    /\ \A k \in lDeleteList : HandedOut(k, hs)

LEMMA NeverGivenUp ==
    ASSUME OneSource, NumbersSuffice, AllocMayFail = FALSE, SenderIInv, AssemblyInv,
           BucketsSound({}), NEW s \in Sources, NEW n \in 1 .. Len(sent[s]),
           NEW f \in SentFragments(s, n), Slot(f.sfn) \in Slots
    PROVE  ~OpenWithoutMemory(f) /\ ~OpenOutOfBounds(f) /\ ~OutOfBounds(f)
<1>. DEFINE b == Bucket(f)
<1>1. /\ LastFragmentNo(sent[s][n].call.size) \in Nat
      /\ f.frag \in 0 .. LastFragmentNo(sent[s][n].call.size)
      /\ f.sfn = sent[s][n].sfn
      /\ f.of = LastFragmentNo(sent[s][n].call.size)
  BY SentAtPosition
<1>2. f.frag <= f.of /\ f.frag \in Nat /\ f.of \in Nat
  BY <1>1
<1>3. ASSUME b.mActive, b.mSavedSuperFrameNo = f.sfn
      PROVE  b.mOfFragmentNo = f.of
  <2>1. Sound(b, {})
    BY DEF BucketsSound, Bucket
  <2>. HIDE DEF b
  <2>2. PICK t \in Sources : \E m \in 1 .. Len(sent[t]) : Holds(b, t, m)
    BY <1>3, <2>1 DEF Sound, Spoilt
  <2>3. t = s
    BY DEF OneSource
  <2>4. PICK m \in 1 .. Len(sent[s]) : Holds(b, s, m)
    BY <2>2, <2>3
  <2>5. sent[s][m].sfn = f.sfn
    BY <1>3, <2>4 DEF Holds
  <2>6. m = n
    BY <1>1, <2>5, NumbersDiffer DEF NumbersSuffice
  <2>. QED
    BY <1>1, <2>4, <2>6 DEF Holds
<1>4. ~OutOfBounds(f)
  BY <1>2, <1>3 DEF OutOfBounds
<1>. QED
  BY <1>2, <1>4 DEF OpenWithoutMemory, OpenOutOfBounds

LEMMA UnpackKeepsClosed ==
    ASSUME OneSource, NumbersSuffice, AllocMayFail = FALSE, SenderIInv, AssemblyInv,
           BucketsSound({}), NEW s \in Sources, NEW n \in 1 .. Len(sent[s]),
           NEW f \in SentFragments(s, n), IsFragment(f),
           NEW src, NEW m, Unpack(f, src, m), UNCHANGED lDeleteList,
           NEW hs, ClosedWereHanded(hs)
    PROVE  ClosedWereHanded(hs)'
<1>1. Slot(f.sfn) \in Slots /\ mBucketList \in [Slots -> BucketRecord]
  BY SlotOfNumber, f.sfn \in Int DEF IsFragment, U16, AssemblyInv, RingInv, RingTypeOK
<1>2. ~OpenWithoutMemory(f) /\ ~OpenOutOfBounds(f) /\ ~OutOfBounds(f)
  BY <1>1, NeverGivenUp
<1>3. ASSUME NEW b, b.mActive, mBucketList' = [mBucketList EXCEPT ![Slot(f.sfn)] = b]
      PROVE  ClosedWereHanded(hs)'
  BY <1>1, <1>3 DEF ClosedWereHanded, ClosedHanded
<1>4. CASE OpenBucket(f, src)
  <2>. DEFINE b == OpenedBucket(f, src, DeliveryOrderCandidate(f.sfn), StreamsAfter(f))
  <2>1. b.mActive
    BY DEF OpenedBucket
  <2>2. mBucketList' = [mBucketList EXCEPT ![Slot(f.sfn)] = b]
    BY <1>4 DEF OpenBucket
  <2>. HIDE DEF b
  <2>. QED
    BY <1>3, <2>1, <2>2
<1>5. CASE AcceptFragment(f)
  <2>. DEFINE b == mBucketList[Slot(f.sfn)]
              e == ExtendedBucket(b, f, StreamsAfter(f))
  <2>1. b \in BucketRecord /\ b.mActive
    BY <1>1, <1>5 DEF AcceptFragment, Fits, Bucket
  <2>2. mBucketList' = [mBucketList EXCEPT ![Slot(f.sfn)] = e]
    BY <1>1, <1>5 DEF AcceptFragment
  <2>. HIDE DEF b
  <2>3. e.mActive
    BY <2>1 DEF ExtendedBucket, BucketRecord
  <2>. HIDE DEF e
  <2>. QED
    BY <1>3, <2>2, <2>3
<1>6. CASE UNCHANGED mBucketList
  BY <1>6 DEF ClosedWereHanded
<1>. QED
  BY <1>2, <1>4, <1>5, <1>6 DEF Unpack, TooOldFragment, OutOfResources,
     DuplicatePacket, assemblyVars

LEMMA DeliverKeepsClosed ==
    ASSUME AssemblyInv, NEW hs \in Seq(SuperFrameRecord), ClosedWereHanded(hs),
           NEW k \in DOMAIN mBucketMap, DeliverBucket(k), UNCHANGED assemblyVars,
           NEW hs2, hs2 = Append(hs, SuperFrame(k))
    PROVE  ClosedWereHanded(hs2)'
<1>. DEFINE d == SuperFrame(k)
<1>1. d \in SuperFrameRecord /\ d.order = k
  BY SuperFrameType DEF SuperFrame
<1>2. hs2 = Append(hs, d)
  OBVIOUS
<1>. HIDE DEF d
<1>3. /\ Len(hs2) = Len(hs) + 1 /\ Len(hs) \in Nat /\ hs2[Len(hs) + 1] = d
      /\ \A i \in 1 .. Len(hs) : hs2[i] = hs[i]
  BY <1>1, <1>2, AppendIs
<1>4. \A o : HandedOut(o, hs) => HandedOut(o, hs2)
  BY <1>3 DEF HandedOut
<1>5. HandedOut(k, hs2)
  BY <1>1, <1>3 DEF HandedOut
<1>6. UNCHANGED mBucketList /\ lDeleteList' = lDeleteList \cup {k}
  BY DEF assemblyVars, DeliverBucket
<1>. QED
  BY <1>4, <1>5, <1>6 DEF ClosedWereHanded, ClosedHanded

LEMMA CloseKeepsClosed ==
    ASSUME AssemblyInv, PassInv, NEW hs, ClosedWereHanded(hs), CloseDelivered
    PROVE  ClosedWereHanded(hs)'
<1>1. lDeleteList \subseteq DOMAIN mBucketMap
  BY DEF PassInv
<1>2. \A slot \in DeliveredSlots : HandedOut(mBucketList[slot].mDeliveryOrder, hs)
  BY <1>1, KeyIsActive DEF DeliveredSlots, ClosedWereHanded
<1>3. \A order : ClosedBucket(order).mDeliveryOrder = order
  BY DEF ClosedBucket
<1>. QED
  BY <1>2, <1>3 DEF CloseDelivered, ClosedWereHanded, ClosedHanded

(* A fragment called too old is of a superframe that was handed over.      *)
LEMMA TooOldWasHanded ==
    ASSUME OneSource, StreamWithinReach, JoinsBeforeWrap, SenderIInv, LinkInv, AssemblyInv,
           NEW hs, KeepsOrder(hs), ClosedWereHanded(hs),
           NEW s \in Sources, NEW n \in 1 .. Len(sent[s]),
           NEW f \in SentFragments(s, n), IsFragment(f),
           mSuperFrameFirstTime => MayJoinAt(f), lDeleteList = {}, TooOldFragment(f)
    PROVE  \E i \in 1 .. Len(hs) : hs[i].mSuperFrameNo = f.sfn
<1>1. f.sfn = sent[s][n].sfn /\ f.id = <<s, n>>
  BY SentAtPosition
<1>2. mSuperFrameFirstTime => n <= JoinBy
  BY <1>1 DEF MayJoinAt
<1>3. PICK base \in Int : /\ Ordered(base, hs)
                          /\ DeliveryOrderCandidate(f.sfn) = Ord(n, base)
                          /\ BaseIsFirst(base)
  BY <1>1, <1>2, PlaceTold DEF KeepsOrder
<1>4. Slot(f.sfn) \in Slots
  BY SlotOfNumber, f.sfn \in Int DEF IsFragment, U16
<1>5. Ord(n, base) # U64Max
  <2>1. Ord(n, base) = n - base /\ n - base + 1 < U64Mod /\ n \in Int
    BY <1>3, OrdIsPlace, NumberInStream
  <2>. QED
    BY <2>1, Moduli DEF U64Max
<1>6. ~Bucket(f).mActive /\ Bucket(f).mDeliveryOrder = Ord(n, base)
  BY <1>3 DEF TooOldFragment
<1>7. HandedOut(Ord(n, base), hs)
  BY <1>4, <1>5, <1>6 DEF ClosedWereHanded, ClosedHanded, Bucket
<1>8. PICK i \in 1 .. Len(hs) : hs[i].order = Ord(n, base)
  BY <1>7 DEF HandedOut
<1>9. PICK m \in 1 .. Len(sent[s]) : sent[s][m].sfn = hs[i].mSuperFrameNo /\ Ord(n, base) = Ord(m, base)
  BY <1>3, <1>8, PlacedIn DEF Ordered, OrdersKept
<1>10. m = n
  BY <1>9, OrdersDiffer
<1>. QED
  BY <1>1, <1>9, <1>10

(***************************************************************************)
(* The same, for superframes that are still on their way when the next one *)
(* is handed on: the order in which they are is fit for the channel.       *)
(***************************************************************************)
InSequence(hs) ==
    \A j \in 1 .. Len(hs) : \A i \in 1 .. j - 1 :
        hs[1].order < hs[j].order => hs[i].order < hs[j].order

LEMMA DeliverInSequence ==
    ASSUME OneSource, RingOutlastsWindow, InOrderMode, SenderIInv, AssemblyInv, PassInv,
           PassInOrder, NEW hs \in Seq(SuperFrameRecord), KeepsOrder(hs), InSequence(hs),
           NEW k, DeliverBucket(k), NEW hs2, hs2 = Append(hs, SuperFrame(k))
    PROVE  InSequence(hs2)
<1>. DEFINE d == SuperFrame(k)
<1>1. k \in todo /\ k \in DOMAIN mBucketMap
  BY VisitedIsLeast
<1>2. d \in SuperFrameRecord /\ d.order = k
  BY <1>1, SuperFrameType DEF SuperFrame
<1>3. hs2 = Append(hs, d)
  OBVIOUS
<1>4. PICK base \in Int : Ordered(base, hs)
  BY DEF KeepsOrder
<1>5. k \in Nat /\ \A i \in 1 .. Len(hs) : hs[i].order \in Nat
  <2>1. k \in U64 /\ \A i \in 1 .. Len(hs) : hs[i].order \in U64
    <3>1. \A i \in 1 .. Len(hs) : hs[i] \in SuperFrameRecord
      OBVIOUS
    <3>. QED
      BY <1>1, <3>1, KeysAreOrders DEF SuperFrameRecord
  <2>2. \A o \in U64 : o \in Nat
    BY Moduli DEF U64
  <2>. QED
    BY <2>1, <2>2
<1>. HIDE DEF d
<1>6. /\ Len(hs2) = Len(hs) + 1 /\ Len(hs) \in Nat /\ hs2[Len(hs) + 1] = d
      /\ \A i \in 1 .. Len(hs) : hs2[i] = hs[i]
  BY <1>2, <1>3, AppendIs
<1>7. ~HandedOut(k, hs)
  BY <1>1, <1>4 DEF Ordered, HandedOnce, PassInOrder
<1>8. PICK s \in Sources : \E n \in 1 .. Len(sent[s]) : k = Ord(n, base)
  <2>1. PlacedBucket(mBucketList[k % RingSize], base)
        /\ mBucketList[k % RingSize].mActive /\ mBucketList[k % RingSize].mDeliveryOrder = k
    BY <1>1, <1>4, KeyIsActive DEF Ordered, OrdersKept
  <2>. QED
    BY <2>1 DEF PlacedBucket
<1>9. ASSUME NEW i \in 1 .. Len(hs), hs[1].order < k
      PROVE  hs[i].order < k
  <2>1. hs[i].order # k
    BY <1>7 DEF HandedOut
  <2>2. ~(k < hs[i].order)
    BY <1>1, <1>4, <1>7, <1>8, <1>9 DEF Ordered, HandedInOrder
  <2>. QED
    BY <1>5, <2>1, <2>2
<1>. SUFFICES ASSUME NEW j \in 1 .. Len(hs2), NEW i \in 1 .. j - 1,
                     hs2[1].order < hs2[j].order
              PROVE  hs2[i].order < hs2[j].order
  BY DEF InSequence
<1>10. CASE j \in 1 .. Len(hs)
  <2>1. i \in 1 .. Len(hs) /\ 1 \in 1 .. Len(hs)
    BY <1>6, <1>10
  <2>. QED
    BY <1>6, <1>10, <2>1 DEF InSequence
<1>11. CASE j = Len(hs) + 1
  <2>1. i \in 1 .. Len(hs) /\ 1 \in 1 .. Len(hs)
    BY <1>6, <1>11
  <2>. QED
    BY <1>2, <1>6, <1>9, <1>11, <2>1
<1>. QED
  BY <1>6, <1>10, <1>11

LEMMA NextMayBeHanded ==
    ASSUME OneSource, StreamWithinReach, RingOutlastsWindow, HolMode => InOrderMode,
           SenderIInv, NEW hs \in Seq(SuperFrameRecord), KeepsOrder(hs),
           HolMode => InSequence(hs),
           \A i \in 1 .. Len(hs) : HandedRight(hs[i], {}),
           NEW j \in 1 .. Len(hs), NEW h, h = AsHanded(hs[j])
    PROVE  \E s \in Sources : \E n \in 1 .. Len(sent[s]) :
              /\ h.source = s /\ h.n = n
              /\ \/ h.packet = {sent[s][n].call} /\ h.bytes = PacketBytes(s, n)
                 \/ h.packet = {} /\ h.bytes \subseteq PacketBytes(s, n)
              /\ \A i \in 1 .. j - 1 : AsHanded(hs[i]).n # n
              /\ HolMode /\ n > AsHanded(hs[1]).n =>
                    \A i \in 1 .. j - 1 : AsHanded(hs[i]).n < n
<1>1. PICK d : d = hs[j]
  OBVIOUS
<1>2. PICK s \in Sources : \E n \in 1 .. Len(sent[s]) :
          /\ SentAs(d, s, n) /\ h.source = s /\ h.n = n
          /\ \/ h.packet = {sent[s][n].call} /\ h.bytes = PacketBytes(s, n)
             \/ h.packet = {} /\ h.bytes \subseteq PacketBytes(s, n)
  BY <1>1, Reach, HandedAsPromised DEF NumbersSuffice
<1>3. PICK n \in 1 .. Len(sent[s]) :
          /\ SentAs(d, s, n) /\ h.source = s /\ h.n = n
          /\ \/ h.packet = {sent[s][n].call} /\ h.bytes = PacketBytes(s, n)
             \/ h.packet = {} /\ h.bytes \subseteq PacketBytes(s, n)
  BY <1>2
<1>4. PICK base \in Int : Ordered(base, hs)
  BY DEF KeepsOrder
<1>5. hs[j].order = Ord(n, base)
  BY <1>1, <1>3, <1>4, PlaceOfOrder DEF Ordered, OrdersKept
<1>6. ASSUME NEW i \in 1 .. Len(hs)
      PROVE  AsHanded(hs[i]).n \in 1 .. Len(sent[s]) /\ hs[i].order = Ord(AsHanded(hs[i]).n, base)
  BY <1>4, HandedPlace DEF Ordered, OrdersKept
<1>7. Len(hs) \in Nat /\ j \in Nat /\ j <= Len(hs) /\ 1 \in 1 .. Len(hs)
  OBVIOUS
<1>8. \A i \in 1 .. j - 1 : i \in 1 .. Len(hs) /\ i # j
  BY <1>7
<1>9. \A i \in 1 .. j - 1 : AsHanded(hs[i]).n # n
  BY <1>4, <1>5, <1>6, <1>8 DEF Ordered, HandedOnce
<1>10. ASSUME HolMode, n > AsHanded(hs[1]).n, NEW i \in 1 .. j - 1
       PROVE  AsHanded(hs[i]).n < n
  <2>1. BaseIsFirst(base)
    BY <1>4, <1>7, <1>10 DEF Ordered, OrdersKept, KeepsOrder, NothingYet, InOrderMode
  <2>. DEFINE m == AsHanded(hs[i]).n
              first == AsHanded(hs[1]).n
  <2>2. m \in 1 .. Len(sent[s]) /\ first \in 1 .. Len(sent[s])
        /\ hs[i].order = Ord(m, base) /\ hs[1].order = Ord(first, base) /\ n > first
    BY <1>6, <1>7, <1>8, <1>10
  <2>. HIDE DEF m, first
  <2>3. Ord(m, base) = m - base /\ Ord(first, base) = first - base /\ Ord(n, base) = n - base
        /\ m \in Int /\ first \in Int /\ n \in Int
    BY <1>10, <2>1, <2>2, OrdIsPlace, NumberInStream DEF InOrderMode
  <2>4. hs[i].order < hs[j].order
    BY <1>5, <1>10, <2>2, <2>3 DEF InSequence
  <2>5. m < n
    BY <1>5, <2>2, <2>3, <2>4
  <2>. QED
    BY <2>5 DEF m
<1>. QED
  BY <1>3, <1>9, <1>10
=============================================================================
