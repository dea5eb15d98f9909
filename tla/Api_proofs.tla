------------------------------ MODULE Api_proofs ------------------------------
(***************************************************************************)
(* What an application builds on the protocol: data embedded in front of a *)
(* payload comes back, whatever the sizes and however many pieces; and the *)
(* handles of the C API name their objects, for any number of threads and  *)
(* calls, as long as one thread creates the objects.                       *)
(***************************************************************************)
EXTENDS Embedded, CApi, ModuloLemmas, SequenceTheorems

(***************************************************************************)
(* The packet.                                                             *)
(***************************************************************************)
BlockRecord ==
    [type : Types, last : BOOLEAN, mSize : Nat, size : Nat, ahead : Nat]

(* How far the payload is from the end of block i. *)
Behind(i) == IF i = Len(blocks) THEN 0 ELSE blocks[i + 1].ahead

(* The blocks follow each other without a gap up to the payload. *)
Layout ==
    /\ \A i \in 1 .. Len(blocks) :
          blocks[i].ahead = HeaderSize + blocks[i].size + Behind(i)
    /\ \A i, j \in 1 .. Len(blocks) : i < j => blocks[i].ahead > blocks[j].ahead

(* What was asked for first is the last in the packet. *)
Asked == [type : Types, size : Nat]

AskedInReverse ==
    /\ Len(asked) = Len(blocks)
    /\ \A i \in 1 .. Len(blocks) :
          /\ asked[Len(blocks) + 1 - i].type = blocks[i].type
          /\ asked[Len(blocks) + 1 - i].size = blocks[i].size

PacketInv ==
    /\ blocks \in Seq(BlockRecord) /\ payload \in Nat
    /\ asked \in Seq(Asked)
    /\ Layout
    /\ AskedInReverse

LEMMA PayloadStartType == PacketInv => PayloadStart \in Nat /\ mFrameSize \in Nat
<1>. SUFFICES ASSUME PacketInv
              PROVE  PayloadStart \in Nat
  BY DEF mFrameSize, PacketInv
<1>1. CASE blocks # <<>>
  <2>1. 1 \in 1 .. Len(blocks) /\ blocks[1] \in BlockRecord
    BY <1>1 DEF PacketInv
  <2>. QED
    BY <1>1, <2>1 DEF BlockRecord, PayloadStart
<1>. QED
  BY <1>1 DEF PayloadStart

(* A block put in front leaves the others where they are. *)
LEMMA InsertKeepsPacket ==
    ASSUME PacketInv, NEW type \in Types, NEW isLast \in BOOLEAN,
           NEW mSize \in Nat, NEW size \in Nat,
           InsertBlock(Block(type, isLast, mSize, size)),
           asked' = Append(asked, [type |-> type, size |-> size]),
           UNCHANGED payload
    PROVE  PacketInv'
<1>. DEFINE b == Block(type, isLast, mSize, size)
<1>1. HeaderSize \in Nat /\ HeaderSize > 0 /\ PayloadStart \in Nat
  BY PayloadStartType, EmbeddedAssumption
<1>2. b \in BlockRecord /\ b.ahead = HeaderSize + size + PayloadStart
      /\ b.type = type /\ b.size = size
  BY <1>1 DEF Block, BlockRecord
<1>3. blocks' = <<b>> \o blocks
  BY DEF InsertBlock
<1>. HIDE DEF b
<1>4. blocks \in Seq(BlockRecord) /\ Len(blocks) \in Nat
  BY DEF PacketInv
<1>5. /\ blocks' \in Seq(BlockRecord)
      /\ Len(blocks') = Len(blocks) + 1
      /\ blocks'[1] = b
      /\ \A i \in 2 .. Len(blocks) + 1 : blocks'[i] = blocks[i - 1]
  BY <1>2, <1>3, <1>4
<1>6. \A i \in 1 .. Len(blocks) : blocks[i].ahead \in Nat /\ blocks[i].ahead <= PayloadStart
  <2>. SUFFICES ASSUME NEW i \in 1 .. Len(blocks)
                PROVE  blocks[i].ahead \in Nat /\ blocks[i].ahead <= PayloadStart
    OBVIOUS
  <2>1. blocks # <<>> /\ 1 \in 1 .. Len(blocks)
    BY <1>4
  <2>2. blocks[i] \in BlockRecord /\ blocks[1] \in BlockRecord
    BY <1>4, <2>1
  <2>3. i = 1 \/ blocks[1].ahead > blocks[i].ahead
    BY <1>4, <2>1 DEF PacketInv, Layout
  <2>. QED
    BY <2>1, <2>2, <2>3 DEF BlockRecord, PayloadStart
<1>7. Layout'
  <2>1. ASSUME NEW i \in 1 .. Len(blocks')
        PROVE  blocks'[i].ahead = HeaderSize + blocks'[i].size + Behind(i)'
    <3>1. CASE i = 1
      <4>1. Behind(i)' = PayloadStart
        BY <1>4, <1>5, <3>1 DEF Behind, PayloadStart
      <4>. QED
        BY <1>2, <1>5, <3>1, <4>1
    <3>2. CASE i # 1
      <4>1. i - 1 \in 1 .. Len(blocks) /\ blocks'[i] = blocks[i - 1]
        BY <1>4, <1>5, <3>2
      <4>2. blocks[i - 1].ahead = HeaderSize + blocks[i - 1].size + Behind(i - 1)
        BY <4>1 DEF PacketInv, Layout
      <4>3. Behind(i)' = Behind(i - 1)
        <5>1. CASE i = Len(blocks')
          BY <1>4, <1>5, <5>1 DEF Behind
        <5>2. CASE i # Len(blocks')
          <6>1. i + 1 \in 2 .. Len(blocks) + 1 /\ (i + 1) - 1 = i /\ (i - 1) + 1 = i
                /\ i - 1 # Len(blocks)
            BY <1>4, <1>5, <5>2
          <6>2. blocks'[i + 1] = blocks[i]
            BY <1>5, <6>1
          <6>. QED
            BY <5>2, <6>1, <6>2 DEF Behind
        <5>. QED
          BY <5>1, <5>2
      <4>. QED
        BY <4>1, <4>2, <4>3
    <3>. QED
      BY <3>1, <3>2
  <2>2. ASSUME NEW i \in 1 .. Len(blocks'), NEW j \in 1 .. Len(blocks'), i < j
        PROVE  blocks'[i].ahead > blocks'[j].ahead
    <3>1. j - 1 \in 1 .. Len(blocks) /\ blocks'[j] = blocks[j - 1]
      BY <1>4, <1>5, <2>2
    <3>2. CASE i = 1
      BY <1>1, <1>2, <1>5, <1>6, <3>1, <3>2
    <3>3. CASE i # 1
      <4>1. i - 1 \in 1 .. Len(blocks) /\ blocks'[i] = blocks[i - 1] /\ i - 1 < j - 1
        BY <1>4, <1>5, <2>2, <3>3
      <4>. QED
        BY <3>1, <4>1 DEF PacketInv, Layout
    <3>. QED
      BY <3>2, <3>3
  <2>. QED
    BY <2>1, <2>2 DEF Layout
<1>8. asked' \in Seq(Asked) /\ AskedInReverse'
  <2>1. /\ asked \in Seq(Asked) /\ Len(asked) = Len(blocks)
        /\ \A i \in 1 .. Len(blocks) :
              /\ asked[Len(blocks) + 1 - i].type = blocks[i].type
              /\ asked[Len(blocks) + 1 - i].size = blocks[i].size
    BY DEF PacketInv, AskedInReverse
  <2>. DEFINE a == [type |-> type, size |-> size]
  <2>2. a.type = type /\ a.size = size /\ a \in Asked
    BY DEF Asked
  <2>. HIDE DEF a
  <2>3. /\ asked' \in Seq(Asked)
        /\ Len(asked') = Len(blocks) + 1 /\ asked'[Len(blocks) + 1] = a
        /\ \A i \in 1 .. Len(blocks) : asked'[i] = asked[i]
    BY <1>4, <2>1, <2>2 DEF a
  <2>4. ASSUME NEW i \in 1 .. Len(blocks')
        PROVE  /\ asked'[Len(blocks') + 1 - i].type = blocks'[i].type
               /\ asked'[Len(blocks') + 1 - i].size = blocks'[i].size
    <3>1. CASE i = 1
      BY <1>2, <1>4, <1>5, <2>2, <2>3, <3>1
    <3>2. CASE i # 1
      <4>1. i - 1 \in 1 .. Len(blocks) /\ blocks'[i] = blocks[i - 1]
            /\ Len(blocks') + 1 - i = Len(blocks) + 1 - (i - 1)
            /\ Len(blocks) + 1 - (i - 1) \in 1 .. Len(blocks)
        BY <1>4, <1>5, <3>2
      <4>. QED
        BY <2>1, <2>3, <4>1
    <3>. QED
      BY <3>1, <3>2
  <2>. QED
    BY <1>5, <2>3, <2>4 DEF AskedInReverse
<1>. QED
  BY <1>5, <1>7, <1>8 DEF PacketInv

(***************************************************************************)
(* The walk.  What it collected lies side by side from the first byte of   *)
(* the packet to its position, whatever the headers were.  If the blocks   *)
(* are as documented, it stands at a block and collected those before.     *)
(***************************************************************************)
Piece == [type : Types, from : Nat, size : Nat]

EndOf(i) == IF i = 0 THEN 0 ELSE embeddedData[i].from + embeddedData[i].size

SideBySide ==
    /\ \A i \in 1 .. Len(embeddedData) : embeddedData[i].from = HeaderSize + EndOf(i - 1)
    /\ position = EndOf(Len(embeddedData))

AtBlock ==
    LET n == Len(embeddedData)
    IN  /\ n <= Len(blocks)
        /\ \A i \in 1 .. n : /\ embeddedData[i].type = blocks[i].type
                             /\ embeddedData[i].size = blocks[i].size
        /\ position = PayloadStart - (IF n = Len(blocks) THEN 0 ELSE blocks[n + 1].ahead)
        /\ pc = "extract" <=> n < Len(blocks)

Walking == pc \in {"extract", "call"}

WalkInv ==
    /\ pc \in {"pack", "extract", "call", "done"}
    /\ embeddedData \in Seq(Piece) /\ position \in Nat
    /\ pc = "pack" => position = 0 /\ embeddedData = <<>> /\ called = <<>>
    /\ Walking =>
          /\ callbacks = {"c_receiveCallback", "c_receiveEmbeddedDataCallback"}
          /\ mFlags /\ ~mBroken /\ called = <<>>
          /\ SideBySide
          /\ UsedAsDocumented => AtBlock
    /\ pc = "call" => position < mFrameSize

EmbeddedInv ==
    /\ PacketInv
    /\ WalkInv
    /\ callbacks \subseteq {"c_receiveCallback", "c_receiveEmbeddedDataCallback"}
    /\ EmbeddedComesBack
    /\ CallbacksCoverPacket

LEMMA EmbeddedInvInit == EmbeddedInit => EmbeddedInv
<1>. SUFFICES ASSUME EmbeddedInit
              PROVE  EmbeddedInv
  OBVIOUS
<1>1. PacketInv
  BY EmbeddedAssumption DEF EmbeddedInit, PacketInv, Layout, AskedInReverse
<1>2. WalkInv
  BY DEF EmbeddedInit, WalkInv, Walking
<1>. QED
  BY <1>1, <1>2 DEF EmbeddedInit, EmbeddedInv, EmbeddedComesBack, CallbacksCoverPacket

LEMMA PackingKeeps ==
    ASSUME EmbeddedInv, NEW type \in Types, NEW isLast \in BOOLEAN, NEW size \in DataSizes,
           AddEmbeddedData(type, isLast, size) \/ EfpAddEmbeddedData(type, isLast, size)
    PROVE  EmbeddedInv'
<1>1. size \in Nat /\ size % U16Mod \in Nat
  BY EmbeddedAssumption, WidthsAssumption, DivMod
<1>2. PacketInv'
  <2>1. CASE AddEmbeddedData(type, isLast, size)
    BY <1>1, <2>1, InsertKeepsPacket DEF AddEmbeddedData, EmbeddedInv
  <2>2. CASE EfpAddEmbeddedData(type, isLast, size)
    BY <1>1, <2>2, InsertKeepsPacket DEF EfpAddEmbeddedData, EmbeddedInv
  <2>. QED
    BY <2>1, <2>2
<1>3. pc = "pack" /\ UNCHANGED <<callbacks, pc, position, embeddedData, called>>
  BY DEF AddEmbeddedData, EfpAddEmbeddedData
<1>4. WalkInv'
  BY <1>3 DEF EmbeddedInv, WalkInv, Walking
<1>. QED
  BY <1>2, <1>3, <1>4 DEF EmbeddedInv, EmbeddedComesBack, CallbacksCoverPacket

(* What depends on the packet alone, which is not changed once it is sent. *)
LEMMA PacketStays ==
    ASSUME PacketInv, UNCHANGED packetVars
    PROVE  /\ PacketInv'
           /\ PayloadStart' = PayloadStart /\ mFrameSize' = mFrameSize
           /\ UsedAsDocumented' <=> UsedAsDocumented
<1>1. UNCHANGED <<blocks, payload, asked, mFlags>>
  BY DEF packetVars
<1>. QED
  BY <1>1 DEF PacketInv, Layout, Behind, AskedInReverse, PayloadStart, mFrameSize,
     UsedAsDocumented

LEMMA GotDataKeeps ==
    ASSUME EmbeddedInv, NEW broken \in BOOLEAN, GotData(broken)
    PROVE  EmbeddedInv'
<1>1. UNCHANGED packetVars /\ UNCHANGED <<position, embeddedData>> /\ mBroken' = broken
      /\ pc = "pack" /\ position = 0 /\ embeddedData = <<>> /\ called = <<>>
  BY DEF GotData, EmbeddedInv, WalkInv
<1>2. /\ PacketInv'
      /\ PayloadStart' = PayloadStart /\ mFrameSize' = mFrameSize
      /\ UsedAsDocumented' <=> UsedAsDocumented
  BY <1>1, PacketStays DEF EmbeddedInv
<1>3. UNCHANGED callbacks /\ UNCHANGED mFlags
  BY <1>1 DEF packetVars
<1>4. mFrameSize \in Nat
  BY PayloadStartType DEF EmbeddedInv
<1>5. CASE "c_receiveCallback" \notin callbacks
  <2>1. pc' = "done" /\ called' = <<>>
    BY <1>1, <1>5 DEF GotData
  <2>2. WalkInv'
    BY <1>1, <2>1 DEF EmbeddedInv, WalkInv, Walking
  <2>. QED
    BY <1>2, <1>3, <1>5, <2>1, <2>2 DEF EmbeddedInv, EmbeddedComesBack,
       CallbacksCoverPacket
<1>6. CASE "c_receiveCallback" \in callbacks /\ MayExtract(broken)
  <2>1. pc' = "extract" /\ called' = <<>> /\ mFlags /\ ~broken
        /\ callbacks = {"c_receiveCallback", "c_receiveEmbeddedDataCallback"}
    BY <1>1, <1>6 DEF GotData, MayExtract, EmbeddedInv
  <2>2. SideBySide'
    BY <1>1 DEF SideBySide, EndOf
  <2>3. ASSUME UsedAsDocumented
        PROVE  AtBlock'
    <3>1. blocks # <<>> /\ blocks \in Seq(BlockRecord)
      BY <2>3 DEF UsedAsDocumented, EmbeddedInv, PacketInv
    <3>2. Len(blocks) > 0 /\ PayloadStart = blocks[1].ahead /\ UNCHANGED blocks
          /\ blocks[1] \in BlockRecord
      BY <1>1, <3>1 DEF PayloadStart, packetVars
    <3>3. PayloadStart - blocks[1].ahead = 0
      BY <3>2 DEF BlockRecord
    <3>4. Len(embeddedData') = 0 /\ position' = 0
      BY <1>1
    <3>. QED
      BY <1>2, <2>1, <3>1, <3>2, <3>3, <3>4 DEF AtBlock
  <2>4. WalkInv'
    BY <1>1, <1>2, <1>3, <2>1, <2>2, <2>3 DEF EmbeddedInv, WalkInv, Walking
  <2>. QED
    BY <1>2, <1>3, <2>1, <2>4 DEF EmbeddedInv, EmbeddedComesBack, CallbacksCoverPacket
<1>7. CASE "c_receiveCallback" \in callbacks /\ ~MayExtract(broken)
  <2>. DEFINE d == DataCallback(0)
  <2>1. pc' = "done" /\ called' = <<d>> /\ d' = d
    BY <1>2, <1>7 DEF GotData, DataCallback
  <2>2. d.callback = "c_receiveCallback" /\ d.from = 0 /\ d.size = mFrameSize
    BY <1>4 DEF DataCallback
  <2>. HIDE DEF d
  <2>3. WalkInv'
    BY <1>1, <2>1 DEF EmbeddedInv, WalkInv, Walking
  <2>4. EmbeddedComesBack'
    BY <1>1, <1>2, <1>3, <1>7 DEF EmbeddedComesBack, MayExtract, UsedAsDocumented
  <2>5. CallbacksCoverPacket'
    BY <1>2, <1>4, <2>1, <2>2 DEF CallbacksCoverPacket, Last
  <2>. QED
    BY <1>2, <1>3, <2>3, <2>4, <2>5 DEF EmbeddedInv
<1>. QED
  BY <1>5, <1>6, <1>7

(* Of the blocks, one starts at the position the walk has come to. *)
LEMMA BlockFound ==
    ASSUME PacketInv, NEW n \in 1 .. Len(blocks),
           NEW h \in HeadersAt(PayloadStart - blocks[n].ahead)
    PROVE  h.type = blocks[n].type /\ h.last = blocks[n].last /\ h.mSize = blocks[n].mSize
<1>. DEFINE start == PayloadStart - blocks[n].ahead
            there == {i \in 1 .. Len(blocks) : BlockStart(i) = start}
<1>1. n \in there
  BY DEF BlockStart
<1>2. ASSUME NEW i \in there PROVE i = n
  <2>1. i \in 1 .. Len(blocks) /\ PayloadStart - blocks[i].ahead = PayloadStart - blocks[n].ahead
    BY DEF BlockStart
  <2>2. PayloadStart \in Nat /\ blocks[i] \in BlockRecord /\ blocks[n] \in BlockRecord
    BY <2>1, PayloadStartType DEF PacketInv
  <2>3. blocks[i].ahead = blocks[n].ahead /\ blocks[i].ahead \in Nat
    BY <2>1, <2>2 DEF BlockRecord
  <2>. QED
    BY <2>1, <2>3 DEF PacketInv, Layout
<1>3. HeadersAt(start) = {[type |-> blocks[i].type, last |-> blocks[i].last,
                           mSize |-> blocks[i].mSize] : i \in there}
  BY <1>1 DEF HeadersAt
<1>. HIDE DEF there, start
<1>4. PICK i \in there : h = [type |-> blocks[i].type, last |-> blocks[i].last,
                              mSize |-> blocks[i].mSize]
  BY <1>3 DEF start
<1>. QED
  BY <1>2, <1>4

LEMMA HeaderTypes ==
    ASSUME PacketInv, NEW p, NEW h \in HeadersAt(p)
    PROVE  h.type \in Types /\ h.last \in BOOLEAN /\ h.mSize \in Nat
<1>. DEFINE there == {i \in 1 .. Len(blocks) : BlockStart(i) = p}
<1>1. CASE there # {}
  <2>1. PICK i \in there : h = [type |-> blocks[i].type, last |-> blocks[i].last,
                                mSize |-> blocks[i].mSize]
    BY <1>1 DEF HeadersAt
  <2>2. blocks[i] \in BlockRecord
    BY DEF PacketInv
  <2>. QED
    BY <2>1, <2>2 DEF BlockRecord
<1>2. CASE there = {}
  <2>1. h \in [type : Types, last : BOOLEAN, mSize : U16]
    BY <1>2 DEF HeadersAt
  <2>. QED
    BY <2>1, WidthsAssumption DEF U16, U16Max
<1>. QED
  BY <1>1, <1>2

LEMMA ExtractOneKeeps == ASSUME EmbeddedInv, ExtractOne PROVE EmbeddedInv'
<1>1. /\ UNCHANGED packetVars /\ UNCHANGED <<mBroken, called>> /\ pc = "extract"
      /\ Walking
  BY DEF ExtractOne, Walking
<1>2. /\ PacketInv /\ PacketInv'
      /\ PayloadStart' = PayloadStart /\ mFrameSize' = mFrameSize
      /\ UsedAsDocumented' <=> UsedAsDocumented
  BY <1>1, PacketStays DEF EmbeddedInv
<1>3. UNCHANGED <<blocks, callbacks, mFlags>>
  BY <1>1 DEF packetVars
<1>4. HeaderSize \in Nat /\ HeaderSize > 0 /\ PayloadStart \in Nat /\ mFrameSize \in Nat
  BY <1>2, EmbeddedAssumption, PayloadStartType
<1>5. /\ embeddedData \in Seq(Piece) /\ position \in Nat /\ SideBySide /\ called = <<>>
      /\ callbacks = {"c_receiveCallback", "c_receiveEmbeddedDataCallback"}
      /\ mFlags /\ ~mBroken /\ (UsedAsDocumented => AtBlock)
  BY <1>1 DEF EmbeddedInv, WalkInv
<1>6. PICK h \in HeadersAt(position) :
          IF h.type = "illegal" /\ ~h.last
          THEN pc' = "done" /\ UNCHANGED <<position, embeddedData>>
          ELSE /\ embeddedData' = Append(embeddedData,
                     [type |-> h.type, from |-> position + HeaderSize, size |-> h.mSize])
               /\ position' = position + h.mSize + HeaderSize
               /\ pc' = IF OutOfBounds(position') THEN "done"
                        ELSE IF h.last THEN "call" ELSE "extract"
  BY DEF ExtractOne
<1>7. h.type \in Types /\ h.last \in BOOLEAN /\ h.mSize \in Nat
  BY <1>2, HeaderTypes
<1>. DEFINE n == Len(embeddedData)
<1>8. n \in Nat
  BY <1>5
(* The block a documented packet has there. *)
<1>9. ASSUME UsedAsDocumented
      PROVE  /\ n + 1 \in 1 .. Len(blocks) /\ blocks[n + 1] \in BlockRecord
             /\ position = PayloadStart - blocks[n + 1].ahead
             /\ h.type = blocks[n + 1].type /\ h.type # "illegal"
             /\ h.mSize = blocks[n + 1].size
             /\ h.last <=> n + 1 = Len(blocks)
             /\ payload > 0 /\ payload \in Nat
  <2>1. AtBlock /\ n < Len(blocks) /\ Len(blocks) \in Nat
    BY <1>1, <1>2, <1>5, <1>9 DEF AtBlock, PacketInv
  <2>2. n + 1 \in 1 .. Len(blocks) /\ position = PayloadStart - blocks[n + 1].ahead
    BY <1>8, <2>1 DEF AtBlock
  <2>3. /\ h.type = blocks[n + 1].type /\ h.last = blocks[n + 1].last
        /\ h.mSize = blocks[n + 1].mSize
    BY <1>2, <2>2, BlockFound
  <2>. QED
    BY <1>2, <1>9, <2>2, <2>3 DEF UsedAsDocumented, PacketInv
<1>10. CASE h.type = "illegal" /\ ~h.last
  <2>1. pc' = "done" /\ UNCHANGED <<position, embeddedData>> /\ ~UsedAsDocumented
    BY <1>6, <1>9, <1>10
  <2>2. WalkInv'
    BY <1>5, <2>1 DEF WalkInv, Walking
  <2>. QED
    BY <1>1, <1>2, <1>3, <1>5, <2>1, <2>2 DEF EmbeddedInv, EmbeddedComesBack,
       CallbacksCoverPacket
<1>11. CASE ~(h.type = "illegal" /\ ~h.last)
  <2>. DEFINE piece == [type |-> h.type, from |-> position + HeaderSize, size |-> h.mSize]
  <2>1. piece \in Piece /\ piece.type = h.type /\ piece.size = h.mSize
        /\ piece.from = position + HeaderSize
    BY <1>4, <1>5, <1>7 DEF Piece
  <2>2. /\ embeddedData' = Append(embeddedData, piece)
        /\ position' = position + h.mSize + HeaderSize
        /\ pc' = IF OutOfBounds(position') THEN "done"
                 ELSE IF h.last THEN "call" ELSE "extract"
    BY <1>6, <1>11
  <2>. HIDE DEF piece
  <2>3. /\ embeddedData' \in Seq(Piece) /\ Len(embeddedData') = n + 1
        /\ embeddedData'[n + 1] = piece
        /\ \A i \in 1 .. n : embeddedData'[i] = embeddedData[i]
        /\ position' \in Nat
    BY <1>4, <1>5, <1>7, <2>1, <2>2
  <2>4. pc' \in {"extract", "call"} => position' < mFrameSize
    BY <1>4, <2>2, <2>3 DEF OutOfBounds
  <2>5. SideBySide'
    <3>1. \A i \in 0 .. n : EndOf(i)' = EndOf(i)
      BY <1>8, <2>3 DEF EndOf
    <3>2. \A i \in 1 .. n : embeddedData[i].from = HeaderSize + EndOf(i - 1)
      BY <1>5 DEF SideBySide
    <3>3. ASSUME NEW i \in 1 .. Len(embeddedData')
          PROVE  embeddedData'[i].from = HeaderSize + EndOf(i - 1)'
      <4>1. CASE i = n + 1
        <5>1. i - 1 = n /\ n \in 0 .. n
          BY <1>8, <4>1
        <5>2. EndOf(i - 1)' = position
          BY <1>5, <3>1, <5>1 DEF SideBySide
        <5>. QED
          BY <1>4, <1>5, <2>1, <2>3, <4>1, <5>2
      <4>2. CASE i # n + 1
        <5>1. i \in 1 .. n /\ i - 1 \in 0 .. n
          BY <1>8, <2>3, <4>2
        <5>. QED
          BY <2>3, <3>1, <3>2, <5>1
      <4>. QED
        BY <4>1, <4>2
    <3>4. position' = EndOf(Len(embeddedData))'
      <4>1. EndOf(Len(embeddedData))' = piece.from + piece.size
        BY <1>8, <2>3 DEF EndOf
      <4>. QED
        BY <1>4, <1>5, <1>7, <2>1, <2>2, <4>1
    <3>. QED
      BY <3>3, <3>4 DEF SideBySide
  <2>6. ASSUME UsedAsDocumented
        PROVE  AtBlock' /\ pc' # "done"
    <3>1. /\ n + 1 \in 1 .. Len(blocks) /\ blocks[n + 1] \in BlockRecord
          /\ position = PayloadStart - blocks[n + 1].ahead
          /\ h.type = blocks[n + 1].type /\ h.mSize = blocks[n + 1].size
          /\ h.last <=> n + 1 = Len(blocks)
          /\ payload > 0 /\ payload \in Nat
      BY <1>9, <2>6
    <3>2. blocks[n + 1].ahead = HeaderSize + blocks[n + 1].size + Behind(n + 1)
      BY <1>2, <3>1 DEF PacketInv, Layout
    <3>3. Behind(n + 1) \in Nat
      <4>1. CASE n + 1 = Len(blocks)
        BY <4>1 DEF Behind
      <4>2. CASE n + 1 # Len(blocks)
        <5>1. n + 2 \in 1 .. Len(blocks) /\ (n + 1) + 1 = n + 2
          BY <1>2, <1>8, <3>1, <4>2 DEF PacketInv
        <5>2. blocks[n + 2] \in BlockRecord
          BY <1>2, <5>1 DEF PacketInv
        <5>. QED
          BY <4>2, <5>1, <5>2 DEF Behind, BlockRecord
      <4>. QED
        BY <4>1, <4>2
    <3>4. position' = PayloadStart - Behind(n + 1)
      <4>. DEFINE a == blocks[n + 1].ahead
                  z == blocks[n + 1].size
                  w == Behind(n + 1)
      <4>1. a \in Nat /\ z \in Nat /\ w \in Nat /\ a = HeaderSize + z + w
            /\ position = PayloadStart - a /\ position' = position + z + HeaderSize
        BY <2>2, <3>1, <3>2, <3>3 DEF BlockRecord
      <4>. HIDE DEF a, z, w
      <4>2. position' = PayloadStart - w
        BY <1>4, <4>1
      <4>. QED
        BY <4>2 DEF w
    <3>5. pc' = IF n + 1 = Len(blocks) THEN "call" ELSE "extract"
      <4>1. position' < mFrameSize
        BY <1>4, <3>1, <3>3, <3>4 DEF mFrameSize
      <4>. QED
        BY <1>2, <1>4, <2>2, <2>3, <3>1, <4>1 DEF OutOfBounds
    <3>6. \A i \in 1 .. n + 1 : /\ embeddedData'[i].type = blocks[i].type
                                /\ embeddedData'[i].size = blocks[i].size
      <4>1. \A i \in 1 .. n : /\ embeddedData[i].type = blocks[i].type
                              /\ embeddedData[i].size = blocks[i].size
        BY <1>5, <2>6 DEF AtBlock
      <4>2. \A i \in 1 .. n + 1 : i = n + 1 \/ i \in 1 .. n
        BY <1>8
      <4>. QED
        BY <2>1, <2>3, <3>1, <4>1, <4>2
    <3>7. Len(blocks) \in Nat /\ (n + 1) + 1 = n + 2
      BY <1>2, <1>8 DEF PacketInv
    <3>8. pc' = "extract" <=> n + 1 < Len(blocks)
      BY <1>8, <3>1, <3>5, <3>7
    <3>9. position' = PayloadStart - (IF n + 1 = Len(blocks) THEN 0 ELSE blocks[(n + 1) + 1].ahead)
      BY <3>4 DEF Behind
    <3>. QED
      BY <1>2, <1>3, <1>8, <2>3, <3>1, <3>5, <3>6, <3>7, <3>8, <3>9 DEF AtBlock
  <2>7. pc' \in {"extract", "call", "done"}
    BY <2>2
  <2>8. WalkInv'
    BY <1>1, <1>2, <1>3, <1>5, <2>3, <2>4, <2>5, <2>6, <2>7 DEF WalkInv, Walking
  <2>9. EmbeddedComesBack'
    BY <1>2, <2>6 DEF EmbeddedComesBack
  <2>. QED
    BY <1>1, <1>2, <1>3, <1>5, <2>8, <2>9 DEF EmbeddedInv, CallbacksCoverPacket
<1>. QED
  BY <1>10, <1>11

LEMMA CallBackKeeps == ASSUME EmbeddedInv, CallBack PROVE EmbeddedInv'
<1>1. /\ UNCHANGED packetVars /\ UNCHANGED <<mBroken, position, embeddedData>>
      /\ pc = "call" /\ pc' = "done" /\ Walking
  BY DEF CallBack, Walking
<1>2. /\ PacketInv /\ PacketInv'
      /\ PayloadStart' = PayloadStart /\ mFrameSize' = mFrameSize
      /\ UsedAsDocumented' <=> UsedAsDocumented
  BY <1>1, PacketStays DEF EmbeddedInv
<1>3. UNCHANGED <<blocks, payload, asked, callbacks, mFlags>>
  BY <1>1 DEF packetVars
<1>4. HeaderSize \in Nat /\ PayloadStart \in Nat /\ mFrameSize \in Nat
  BY <1>2, EmbeddedAssumption, PayloadStartType
<1>5. /\ embeddedData \in Seq(Piece) /\ position \in Nat /\ SideBySide
      /\ mFlags /\ ~mBroken /\ (UsedAsDocumented => AtBlock) /\ position < mFrameSize
  BY <1>1 DEF EmbeddedInv, WalkInv
<1>. DEFINE n == Len(embeddedData)
            pieces == [i \in 1 .. Len(embeddedData) |-> EmbeddedCallback(embeddedData[i])]
            last == DataCallback(position)
<1>6. n \in Nat
  BY <1>5
<1>7. called' = Append(pieces, last)
  BY <1>1, <1>4, <1>5 DEF CallBack
<1>8. /\ last.callback = "c_receiveCallback" /\ last.type = "payload"
      /\ last.from = position /\ last.size = mFrameSize - position
  BY DEF DataCallback
<1>9. \A i \in 1 .. n : /\ pieces[i].callback = "c_receiveEmbeddedDataCallback"
                        /\ pieces[i].type = embeddedData[i].type
                        /\ pieces[i].from = embeddedData[i].from
                        /\ pieces[i].size = embeddedData[i].size
  BY DEF EmbeddedCallback
<1>10. pieces \in Seq(Range(pieces)) /\ Len(pieces) = n
  BY <1>6 DEF Range
<1>. HIDE DEF pieces, last
<1>11. /\ Len(called') = n + 1 /\ called'[n + 1] = last
       /\ \A i \in 1 .. n : called'[i] = pieces[i]
  BY <1>6, <1>7, <1>10
<1>12. called' # <<>> /\ Last(called') = last
  BY <1>6, <1>11 DEF Last
<1>13. WalkInv'
  BY <1>1, <1>5 DEF WalkInv, Walking
<1>14. EmbeddedComesBack'
  <2>. SUFFICES ASSUME UsedAsDocumented
                PROVE  Outline(called)' = Append(Reverse(asked'),
                           [type |-> "payload", size |-> payload'])
    BY <1>2 DEF EmbeddedComesBack
  <2>1. AtBlock /\ n = Len(blocks)
    BY <1>1, <1>2, <1>5, <1>6 DEF AtBlock, PacketInv
  <2>2. position = PayloadStart
    BY <1>4, <2>1 DEF AtBlock
  <2>3. payload \in Nat /\ mFrameSize - position = payload
    BY <1>2, <1>4, <2>2 DEF mFrameSize, PacketInv
  <2>4. \A i \in 1 .. n : /\ embeddedData[i].type = blocks[i].type
                          /\ embeddedData[i].size = blocks[i].size
    BY <2>1 DEF AtBlock
  <2>5. Len(asked) = n /\ asked \in Seq(Asked)
        /\ \A i \in 1 .. n : /\ asked[n + 1 - i].type = blocks[i].type
                             /\ asked[n + 1 - i].size = blocks[i].size
    BY <1>2, <2>1 DEF PacketInv, AskedInReverse
  <2>6. \A i \in 1 .. n : [type |-> called'[i].type, size |-> called'[i].size]
                            = asked[n + 1 - i]
    <3>. SUFFICES ASSUME NEW i \in 1 .. n
                  PROVE  [type |-> called'[i].type, size |-> called'[i].size]
                            = asked[n + 1 - i]
      OBVIOUS
    <3>1. asked[n + 1 - i] \in Asked
      <4>1. n + 1 - i \in 1 .. Len(asked)
        BY <1>6, <2>5
      <4>. QED
        BY <2>5, <4>1
    <3>2. /\ called'[i].type = asked[n + 1 - i].type
          /\ called'[i].size = asked[n + 1 - i].size
      BY <1>9, <1>11, <2>4, <2>5
    <3>. QED
      BY <3>1, <3>2 DEF Asked
  <2>. DEFINE S == [type : Types \cup {"payload"}, size : Nat]
              out == Outline(called')
              r == Reverse(asked)
              e == [type |-> "payload", size |-> payload]
              back == Append(r, e)
  <2>7. e \in S /\ \A a \in Asked : a \in S
    BY <2>3 DEF Asked
  <2>8. r = [i \in 1 .. n |-> asked[n + 1 - i]]
    <3>1. \A i \in 1 .. n : (n - i) + 1 = n + 1 - i
      BY <1>6
    <3>. QED
      BY <2>5, <3>1 DEF Reverse
  <2>9. \A i \in 1 .. n : asked[n + 1 - i] \in S
    <3>1. \A i \in 1 .. n : n + 1 - i \in 1 .. Len(asked)
      BY <1>6, <2>5
    <3>. QED
      BY <2>5, <2>7, <3>1
  <2>. HIDE DEF S, r
  <2>10. r \in Seq(S) /\ Len(r) = n
    BY <1>6, <2>8, <2>9
  <2>11. /\ back \in Seq(S) /\ Len(back) = n + 1 /\ back[n + 1] = e
         /\ \A i \in 1 .. n : back[i] = asked[n + 1 - i]
    BY <1>6, <2>7, <2>8, <2>10, AppendProperties
  <2>12. out = [i \in 1 .. n + 1 |-> [type |-> called'[i].type, size |-> called'[i].size]]
    BY <1>11 DEF Outline
  <2>13. \A i \in 1 .. n + 1 : i = n + 1 \/ i \in 1 .. n
    BY <1>6
  <2>14. out[n + 1] = e /\ \A i \in 1 .. n : out[i] = asked[n + 1 - i]
    <3>1. n + 1 \in 1 .. n + 1 /\ \A i \in 1 .. n : i \in 1 .. n + 1
      BY <1>6
    <3>. QED
      BY <1>8, <1>11, <2>3, <2>6, <2>12, <3>1
  <2>. HIDE DEF e, back
  <2>15. \A i \in 1 .. n + 1 : out[i] = back[i] /\ out[i] \in S
    BY <2>7, <2>9, <2>11, <2>13, <2>14
  <2>. HIDE DEF out
  <2>16. out \in Seq(S) /\ Len(out) = n + 1
    BY <1>6, <2>12, <2>15
  <2>17. out = back
    BY <2>11, <2>15, <2>16, SeqEqual
  <2>. QED
    BY <1>3, <2>17 DEF out, back, r, e, Outline
<1>15. CallbacksCoverPacket'
  <2>1. ASSUME NEW i \in 1 .. Len(called')
        PROVE  (called'[i].callback = "c_receiveCallback") <=> i = Len(called')
    BY <1>6, <1>8, <1>9, <1>11
  <2>2. ASSUME NEW i \in 1 .. Len(called')
        PROVE  called'[i].from =
                   (IF i = 1 THEN 0 ELSE called'[i - 1].from + called'[i - 1].size)
                     + (IF i = Len(called') THEN 0 ELSE HeaderSize)
    <3>. DEFINE before == IF i = 1 THEN 0 ELSE called'[i - 1].from + called'[i - 1].size
    <3>1. before = EndOf(i - 1) /\ before \in Nat
      <4>1. CASE i = 1
        BY <4>1 DEF EndOf
      <4>2. CASE i # 1
        <5>1. i - 1 \in 1 .. n
          BY <1>6, <1>11, <4>2
        <5>2. embeddedData[i - 1] \in Piece
          BY <1>5, <5>1
        <5>. QED
          BY <1>9, <1>11, <4>2, <5>1, <5>2 DEF EndOf, Piece
      <4>. QED
        BY <4>1, <4>2
    <3>. HIDE DEF before
    <3>2. CASE i = n + 1
      <4>1. i - 1 = n
        BY <1>6, <3>2
      <4>2. called'[i].from = before
        BY <1>5, <1>8, <1>11, <3>1, <3>2, <4>1 DEF SideBySide
      <4>. QED
        BY <1>11, <3>1, <3>2, <4>2 DEF before
    <3>3. CASE i # n + 1
      <4>1. i \in 1 .. n
        BY <1>6, <1>11, <3>3
      <4>2. called'[i].from = HeaderSize + before
        BY <1>5, <1>9, <1>11, <3>1, <4>1 DEF SideBySide
      <4>3. called'[i].from = before + HeaderSize
        BY <1>4, <3>1, <4>2
      <4>. QED
        BY <1>11, <3>3, <4>3 DEF before
    <3>. QED
      BY <3>2, <3>3
  <2>3. last.from + last.size = mFrameSize /\ last.size >= 0
    BY <1>4, <1>5, <1>8
  <2>. QED
    BY <1>2, <1>12, <2>1, <2>2, <2>3 DEF CallbacksCoverPacket
<1>. QED
  BY <1>2, <1>3, <1>13, <1>14, <1>15 DEF EmbeddedInv

LEMMA EmbeddedInvNext == EmbeddedInv /\ [EmbeddedNext]_embeddedVars => EmbeddedInv'
<1>. SUFFICES ASSUME EmbeddedInv, [EmbeddedNext]_embeddedVars
              PROVE  EmbeddedInv'
  OBVIOUS
<1>1. CASE UNCHANGED embeddedVars
  <2>1. UNCHANGED packetVars
        /\ UNCHANGED <<mBroken, pc, position, embeddedData, called, callbacks, mFlags, asked>>
    BY <1>1 DEF embeddedVars, packetVars
  <2>2. PacketInv' /\ mFrameSize' = mFrameSize /\ PayloadStart' = PayloadStart
        /\ (UsedAsDocumented' <=> UsedAsDocumented) /\ UNCHANGED blocks /\ UNCHANGED payload
    BY <2>1, PacketStays DEF EmbeddedInv, packetVars
  <2>3. SideBySide' <=> SideBySide
    BY <2>1 DEF SideBySide, EndOf
  <2>4. AtBlock' <=> AtBlock
    BY <2>1, <2>2 DEF AtBlock
  <2>5. WalkInv'
    BY <2>1, <2>2, <2>3, <2>4 DEF EmbeddedInv, WalkInv, Walking
  <2>6. EmbeddedComesBack'
    BY <2>1, <2>2 DEF EmbeddedInv, EmbeddedComesBack
  <2>7. CallbacksCoverPacket'
    BY <2>1, <2>2 DEF EmbeddedInv, CallbacksCoverPacket
  <2>. QED
    BY <2>1, <2>2, <2>5, <2>6, <2>7 DEF EmbeddedInv
<1>. QED
  BY <1>1, PackingKeeps, GotDataKeeps, ExtractOneKeeps, CallBackKeeps DEF EmbeddedNext

(* Every piece that was embedded as the documentation asks comes back with *)
(* its type and size, the one embedded last first, and then the payload,   *)
(* for any number of pieces of any sizes.                                  *)
THEOREM EmbeddedComesBackAlways == EmbeddedSpec => []EmbeddedComesBack
<1>1. EmbeddedInv => EmbeddedComesBack
  BY DEF EmbeddedInv
<1>. QED
  BY EmbeddedInvInit, EmbeddedInvNext, <1>1, PTL DEF EmbeddedSpec

(* Whatever is read as a header where none is, what the application is     *)
(* called back with makes up the packet from its first byte to its last,   *)
(* or it is not called back at all.                                        *)
THEOREM CallbacksCoverPacketAlways == EmbeddedSpec => []CallbacksCoverPacket
<1>1. EmbeddedInv => CallbacksCoverPacket
  BY DEF EmbeddedInv
<1>. QED
  BY EmbeddedInvInit, EmbeddedInvNext, <1>1, PTL DEF EmbeddedSpec

(***************************************************************************)
(* The handles.  A thread is in at most one call of init or end, at the    *)
(* bottom of its stack, and only one thread creates objects: were there    *)
(* two, both could be given the same handle, as the run handles_unique     *)
(* shows.                                                                  *)
(***************************************************************************)
OneCreatingThread == \A a, b \in Creators : a = b

CallRecord ==
    [fn : {"init", "use", "end"}, kind : Kinds, handle : Nat, callback : Nat,
     pc : {"enter", "locked", "inserted", "loaded", "callback", "leave"}, loaded : Nat]

Object == [kind : Kinds, handle : Nat, callback : Nat]

Idle == Call("none", "none", 0, 0)
Bottom(t) == IF stack[t] = <<>> THEN Idle ELSE stack[t][1]

Nested(s) ==
    /\ Len(s) <= 2
    /\ Len(s) = 2 => s[1].fn = "use" /\ s[2].fn = "use"

StackInv ==
    /\ inits \in Nat
    /\ stack \in [Threads -> Seq(CallRecord)]
    /\ \A t \in Threads : Nested(stack[t])
    /\ \A t \in Threads : Bottom(t).fn = "init" => t \in Creators

(* A call of init that has inserted its object. *)
Making(c) == c.fn = "init" /\ c.pc \in {"inserted", "loaded", "leave"}

(* The object of call c is no one else's. *)
MadeOnce(c) ==
    /\ c.handle \in DOMAIN efp_base_map[c.kind]
    /\ efp_base_map[c.kind][c.handle] = c.callback
    /\ IF c.pc = "leave" THEN c.handle < c_object_handle
                         ELSE c.handle = c_object_handle
    /\ c.pc = "loaded" => c.loaded = c_object_handle
    /\ \A o \in live : o.handle # c.handle

EndsItsOwn(c) ==
    /\ c.handle < c_object_handle
    /\ \A o \in live : o.handle # c.handle
    /\ c.pc = "leave" => c.handle \notin DOMAIN efp_base_map[c.kind]
    /\ \A u \in Threads : Making(Bottom(u)) => Bottom(u).handle # c.handle

Collected(kind, h) ==
    \/ \E o \in live : o.kind = kind /\ o.handle = h
    \/ \E t \in Threads : /\ Making(Bottom(t)) \/ Bottom(t).fn = "end"
                          /\ Bottom(t).kind = kind /\ Bottom(t).handle = h

NamesInv ==
    /\ c_object_handle \in Nat \ {0}
    /\ live \subseteq Object
    /\ efp_base_map = [k \in Kinds |-> efp_base_map[k]]
    /\ \A k \in Kinds : \A h \in DOMAIN efp_base_map[k] :
          h \in Nat \ {0} /\ efp_base_map[k][h] \in Nat /\ Collected(k, h)
    /\ \A o \in live :
          /\ o.handle < c_object_handle
          /\ o.handle \in DOMAIN efp_base_map[o.kind]
          /\ efp_base_map[o.kind][o.handle] = o.callback
    /\ \A o, p \in live : o.handle = p.handle => o = p
    /\ \A t \in Threads : Making(Bottom(t)) => MadeOnce(Bottom(t))
    /\ \A t \in Threads : Bottom(t).fn = "end" => EndsItsOwn(Bottom(t))

CApiInv == StackInv /\ NamesInv

LEMMA CApiInvInit == Init => CApiInv
<1>. SUFFICES ASSUME Init
              PROVE  CApiInv
  OBVIOUS
<1>1. \A t \in Threads : stack[t] = <<>> /\ Bottom(t) = Idle /\ Idle.fn = "none"
  BY DEF Init, Bottom, Idle, Call
<1>2. StackInv
  BY <1>1 DEF Init, StackInv, Nested
<1>3. NamesInv
  BY <1>1 DEF Init, NamesInv, Making
<1>. QED
  BY <1>2, <1>3 DEF CApiInv

(* The stack of a thread whose innermost call changes, calls or returns.   *)
LEMMA StackChange ==
    ASSUME StackInv, NEW t \in Threads, NEW s \in Seq(CallRecord), Nested(s),
           stack' = [stack EXCEPT ![t] = s], inits' \in Nat,
           s # <<>> /\ s[1].fn = "init" => t \in Creators
    PROVE  /\ StackInv'
           /\ Bottom(t)' = IF s = <<>> THEN Idle ELSE s[1]
           /\ \A u \in Threads : u # t => Bottom(u)' = Bottom(u)
<1>1. stack' \in [Threads -> Seq(CallRecord)] /\ stack'[t] = s
      /\ \A u \in Threads : u # t => stack'[u] = stack[u]
  BY DEF StackInv
<1>2. Bottom(t)' = IF s = <<>> THEN Idle ELSE s[1]
  BY <1>1 DEF Bottom, Idle, Call
<1>3. \A u \in Threads : u # t => Bottom(u)' = Bottom(u)
  BY <1>1 DEF Bottom, Idle, Call
<1>4. \A u \in Threads : Nested(stack[u])'
  BY <1>1 DEF StackInv, Nested
<1>5. \A u \in Threads : Bottom(u)'.fn = "init" => u \in Creators
  BY <1>2, <1>3 DEF StackInv, Idle, Call
<1>. QED
  BY <1>1, <1>2, <1>3, <1>4, <1>5 DEF StackInv

(* Where the innermost call is. *)
LEMMA TopIs ==
    ASSUME StackInv, NEW t \in Threads, Busy(t)
    PROVE  /\ stack[t] \in Seq(CallRecord) /\ Len(stack[t]) \in 1 .. 2
           /\ Top(t) \in CallRecord
           /\ Len(stack[t]) = 1 => Bottom(t) = Top(t)
           /\ Len(stack[t]) = 2 => Top(t).fn = "use" /\ Bottom(t).fn = "use"
<1>1. stack[t] \in Seq(CallRecord) /\ Nested(stack[t]) /\ stack[t] # <<>>
  BY DEF StackInv, Busy
<1>. DEFINE s == stack[t]
<1>. HIDE DEF s
<1>2. s \in Seq(CallRecord) /\ s # <<>> /\ Len(s) <= 2
  BY <1>1 DEF Nested, s
<1>3. Len(s) \in 1 .. 2 /\ s[Len(s)] \in CallRecord
  <2>1. Len(s) \in Nat /\ Len(s) # 0
    BY <1>2, EmptySeq
  <2>. DEFINE n == Len(s)
  <2>2. n \in Nat /\ n # 0 /\ n <= 2
    BY <1>2, <2>1
  <2>. HIDE DEF n
  <2>3. n \in 1 .. 2
    BY <2>2
  <2>. QED
    BY <1>2, <2>2, <2>3, ElementOfSeq DEF n
<1>. QED
  BY <1>1, <1>3 DEF Top, Bottom, Nested, s

LEMMA LastReplaced ==
    ASSUME NEW S, NEW q \in Seq(S), q # <<>>, NEW c \in S
    PROVE  LET s == [q EXCEPT ![Len(q)] = c]
           IN  /\ s \in Seq(S) /\ Len(s) = Len(q) /\ s # <<>> /\ s[Len(q)] = c
               /\ Len(q) = 2 => s[1] = q[1]
<1>1. Len(q) \in Nat /\ Len(q) >= 1 /\ q \in [1 .. Len(q) -> S]
  OBVIOUS
<1>. DEFINE s == [q EXCEPT ![Len(q)] = c]
<1>2. s \in [1 .. Len(q) -> S] /\ s[Len(q)] = c /\ (Len(q) = 2 => s[1] = q[1])
  BY <1>1
<1>. HIDE DEF s
<1>3. s \in Seq(S) /\ Len(s) = Len(q)
  BY <1>1, <1>2
<1>4. s # <<>>
  BY <1>1, <1>3
<1>. QED
  BY <1>2, <1>3, <1>4 DEF s

LEMMA TopChange ==
    ASSUME StackInv, NEW t \in Threads, Busy(t), NEW c \in CallRecord, c.fn = Top(t).fn,
           stack' = [stack EXCEPT ![t][Len(stack[t])] = c], UNCHANGED inits
    PROVE  /\ StackInv'
           /\ IF Len(stack[t]) = 1 THEN Bottom(t) = Top(t) /\ Bottom(t)' = c
              ELSE Bottom(t)' = Bottom(t) /\ Bottom(t).fn = "use"
           /\ \A u \in Threads : u # t => Bottom(u)' = Bottom(u)
<1>. DEFINE n == Len(stack[t])
            s == [stack[t] EXCEPT ![n] = c]
<1>1. /\ stack[t] \in Seq(CallRecord) /\ n \in 1 .. 2
      /\ n = 1 => Bottom(t) = Top(t)
      /\ n = 2 => Top(t).fn = "use" /\ Bottom(t).fn = "use"
  BY TopIs
<1>2. Nested(stack[t]) /\ (Bottom(t).fn = "init" => t \in Creators) /\ Bottom(t) = stack[t][1]
  BY <1>1 DEF StackInv, Bottom, Busy
<1>3. /\ s \in Seq(CallRecord) /\ Len(s) = n /\ s # <<>> /\ s[n] = c
      /\ n = 2 => s[1] = stack[t][1]
  BY <1>1, LastReplaced DEF Busy
<1>4. stack' = [stack EXCEPT ![t] = s]
  OBVIOUS
<1>. HIDE DEF s
<1>5. Nested(s) /\ (s[1].fn = "init" => t \in Creators)
  BY <1>1, <1>2, <1>3 DEF Nested
<1>6. inits' \in Nat
  BY DEF StackInv
<1>7. /\ StackInv'
      /\ Bottom(t)' = s[1]
      /\ \A u \in Threads : u # t => Bottom(u)' = Bottom(u)
  BY <1>3, <1>4, <1>5, <1>6, StackChange
<1>8. n = 1 \/ n = 2
  BY <1>1
<1>. QED
  BY <1>1, <1>2, <1>3, <1>7, <1>8

LEMMA GotoIs ==
    ASSUME StackInv, NEW t \in Threads, Busy(t),
           NEW pc_ \in {"enter", "locked", "inserted", "loaded", "callback", "leave"},
           Goto(t, pc_)
    PROVE  LET c == [Top(t) EXCEPT !.pc = pc_]
           IN  /\ c \in CallRecord /\ c.fn = Top(t).fn /\ c.kind = Top(t).kind
               /\ c.handle = Top(t).handle /\ c.callback = Top(t).callback
               /\ c.loaded = Top(t).loaded /\ c.pc = pc_
               /\ stack' = [stack EXCEPT ![t][Len(stack[t])] = c]
<1>1. Top(t) \in CallRecord
  BY TopIs
<1>2. stack' = [stack EXCEPT ![t][Len(stack[t])] = [Top(t) EXCEPT !.pc = pc_]]
  BY DEF Goto, Top
<1>. QED
  BY <1>1, <1>2 DEF CallRecord

(* Steps that change no more of calls of init and end than to let one      *)
(* begin or take its mutex.                                                *)
Alike(a, b) ==
    \/ a = b
    \/ a.fn \notin {"init", "end"} /\ b.fn \notin {"init", "end"}
    \/ a.fn \notin {"init", "end"} /\ b.fn = "init" /\ b.pc = "enter"
    \/ /\ a.pc = "enter" /\ b.pc = "locked"
       /\ a.fn = b.fn /\ a.kind = b.kind /\ a.handle = b.handle /\ a.callback = b.callback

LEMMA QuietKeepsNames ==
    ASSUME NamesInv, UNCHANGED <<c_object_handle, efp_base_map, live>>,
           \A u \in Threads : Alike(Bottom(u), Bottom(u)')
    PROVE  NamesInv'
<1>1. \A k, h : Collected(k, h) => Collected(k, h)'
  BY DEF Collected, Alike, Making
<1>2. \A u \in Threads : /\ Making(Bottom(u)') => Bottom(u)' = Bottom(u)
                         /\ Making(Bottom(u))' <=> Making(Bottom(u)')
  BY DEF Making, Alike
<1>3. \A u \in Threads : Making(Bottom(u))' => MadeOnce(Bottom(u))'
  BY <1>2 DEF NamesInv, MadeOnce
<1>4. \A u \in Threads : Bottom(u)'.fn = "end" =>
          /\ Bottom(u).fn = "end" /\ Bottom(u)'.handle = Bottom(u).handle
          /\ Bottom(u)'.kind = Bottom(u).kind
          /\ Bottom(u)'.pc = "leave" => Bottom(u).pc = "leave"
  BY DEF Alike
<1>5. \A u \in Threads : Bottom(u)'.fn = "end" => EndsItsOwn(Bottom(u))'
  BY <1>2, <1>4 DEF NamesInv, EndsItsOwn
<1>. QED
  BY <1>1, <1>3, <1>5 DEF NamesInv

LEMMA PushAlone ==
    ASSUME StackInv, NEW t \in Threads, ~Busy(t), NEW c \in CallRecord, Push(t, c),
           inits' \in Nat, c.fn = "init" => t \in Creators
    PROVE  /\ StackInv'
           /\ Bottom(t) = Idle /\ Bottom(t)' = c
           /\ \A u \in Threads : u # t => Bottom(u)' = Bottom(u)
<1>1. stack[t] = <<>> /\ Bottom(t) = Idle
  BY DEF Busy, Bottom
<1>. DEFINE s == Append(stack[t], c)
<1>2. s \in Seq(CallRecord) /\ Len(s) = 1 /\ s[1] = c /\ s # <<>>
  BY <1>1
<1>3. stack' = [stack EXCEPT ![t] = s]
  BY DEF Push
<1>. HIDE DEF s
<1>4. Nested(s) /\ (s # <<>> /\ s[1].fn = "init" => t \in Creators)
  BY <1>2 DEF Nested
<1>5. /\ StackInv'
      /\ Bottom(t)' = IF s = <<>> THEN Idle ELSE s[1]
      /\ \A u \in Threads : u # t => Bottom(u)' = Bottom(u)
  BY <1>2, <1>3, <1>4, StackChange
<1>. QED
  BY <1>1, <1>2, <1>5

LEMMA CallType ==
    ASSUME NEW fn \in {"init", "use", "end"}, NEW kind \in Kinds,
           NEW handle \in Nat, NEW callback \in Nat
    PROVE  LET c == Call(fn, kind, handle, callback)
           IN  /\ c \in CallRecord /\ c.fn = fn /\ c.kind = kind
               /\ c.handle = handle /\ c.callback = callback /\ c.pc = "enter"
  BY DEF Call, CallRecord

LEMMA AppInitKeeps ==
    ASSUME CApiInv, NEW t \in Threads, AppInit(t)
    PROVE  CApiInv'
<1>1. PICK kind \in Kinds : Push(t, Call("init", kind, 0, inits + 1))
  BY DEF AppInit
<1>. DEFINE c == Call("init", kind, 0, inits + 1)
<1>2. inits \in Nat /\ inits + 1 \in Nat /\ inits' = inits + 1 /\ t \in Creators /\ ~Busy(t)
  BY DEF CApiInv, StackInv, AppInit
<1>3. c \in CallRecord /\ c.fn = "init" /\ c.pc = "enter"
  BY <1>2, CallType
<1>. HIDE DEF c
<1>4. /\ StackInv' /\ Bottom(t) = Idle /\ Bottom(t)' = c
      /\ \A u \in Threads : u # t => Bottom(u)' = Bottom(u)
  BY <1>1, <1>2, <1>3, PushAlone DEF CApiInv, c
<1>5. Idle.fn = "none"
  BY DEF Idle, Call
<1>6. \A u \in Threads : Alike(Bottom(u), Bottom(u)')
  BY <1>3, <1>4, <1>5 DEF Alike
<1>7. NamesInv'
  BY <1>6, QuietKeepsNames DEF CApiInv, AppInit
<1>. QED
  BY <1>4, <1>7 DEF CApiInv

LEMMA AppUseKeeps ==
    ASSUME CApiInv, NEW t \in Threads, AppUse(t)
    PROVE  CApiInv'
<1>1. PICK o \in live : Push(t, Call("use", o.kind, o.handle, o.callback))
  BY DEF AppUse
<1>. DEFINE c == Call("use", o.kind, o.handle, o.callback)
<1>2. o \in Object /\ inits' \in Nat /\ ~Busy(t)
  BY DEF CApiInv, StackInv, NamesInv, AppUse
<1>3. c \in CallRecord /\ c.fn = "use"
  BY <1>2, CallType DEF Object
<1>. HIDE DEF c
<1>4. /\ StackInv' /\ Bottom(t) = Idle /\ Bottom(t)' = c
      /\ \A u \in Threads : u # t => Bottom(u)' = Bottom(u)
  BY <1>1, <1>2, <1>3, PushAlone DEF CApiInv, c
<1>5. Idle.fn = "none"
  BY DEF Idle, Call
<1>6. \A u \in Threads : Alike(Bottom(u), Bottom(u)')
  BY <1>3, <1>4, <1>5 DEF Alike
<1>7. NamesInv'
  BY <1>6, QuietKeepsNames DEF CApiInv, AppUse
<1>. QED
  BY <1>4, <1>7 DEF CApiInv

(* The object's handle passes from the live ones to the call that ends it. *)
LEMMA AppEndKeeps ==
    ASSUME CApiInv, NEW t \in Threads, AppEnd(t)
    PROVE  CApiInv'
<1>1. PICK o \in live : /\ Push(t, Call("end", o.kind, o.handle, o.callback))
                        /\ live' = live \ {o}
  BY DEF AppEnd
<1>. DEFINE c == Call("end", o.kind, o.handle, o.callback)
<1>2. o \in Object /\ inits' \in Nat /\ ~Busy(t) /\ UNCHANGED <<c_object_handle, efp_base_map>>
  BY DEF CApiInv, StackInv, NamesInv, AppEnd
<1>3. c \in CallRecord /\ c.fn = "end" /\ c.pc = "enter" /\ c.kind = o.kind /\ c.handle = o.handle
  BY <1>2, CallType DEF Object
<1>. HIDE DEF c
<1>4. /\ StackInv' /\ Bottom(t) = Idle /\ Bottom(t)' = c
      /\ \A u \in Threads : u # t => Bottom(u)' = Bottom(u)
  BY <1>1, <1>2, <1>3, PushAlone DEF CApiInv, c
<1>5. Idle.fn = "none"
  BY DEF Idle, Call
<1>6. \A u \in Threads : /\ Making(Bottom(u)') <=> Making(Bottom(u))
                         /\ Making(Bottom(u)) => Bottom(u)' = Bottom(u)
  BY <1>3, <1>4, <1>5 DEF Making
<1>7. \A k, h : Collected(k, h) => Collected(k, h)'
  <2>. SUFFICES ASSUME NEW k, NEW h, Collected(k, h)
                PROVE  Collected(k, h)'
    OBVIOUS
  <2>1. CASE \E p \in live : p.kind = k /\ p.handle = h
    <3>1. PICK p \in live : p.kind = k /\ p.handle = h
      BY <2>1
    <3>2. CASE p = o
      BY <1>3, <1>4, <3>1, <3>2 DEF Collected
    <3>3. CASE p # o
      BY <1>1, <3>1, <3>3 DEF Collected
    <3>. QED
      BY <3>2, <3>3
  <2>2. CASE \E u \in Threads : /\ Making(Bottom(u)) \/ Bottom(u).fn = "end"
                                /\ Bottom(u).kind = k /\ Bottom(u).handle = h
    BY <1>4, <1>5, <2>2 DEF Collected, Making
  <2>. QED
    BY <2>1, <2>2 DEF Collected
<1>8. \A u \in Threads : Making(Bottom(u))' => MadeOnce(Bottom(u))'
  <2>1. \A u \in Threads : Making(Bottom(u))' <=> Making(Bottom(u)')
    BY DEF Making
  <2>. QED
    BY <1>1, <1>2, <1>6, <2>1 DEF CApiInv, NamesInv, MadeOnce
<1>9. \A u \in Threads : Bottom(u)'.fn = "end" => EndsItsOwn(Bottom(u))'
  <2>. SUFFICES ASSUME NEW u \in Threads, Bottom(u)'.fn = "end"
                PROVE  EndsItsOwn(Bottom(u))'
    OBVIOUS
  <2>1. \A v \in Threads : Making(Bottom(v))' =>
            /\ Bottom(v)' = Bottom(v) /\ MadeOnce(Bottom(v)) /\ Making(Bottom(v))
    BY <1>6 DEF Making, CApiInv, NamesInv
  <2>2. CASE u = t
    <3>1. o.handle < c_object_handle /\ \A p \in live : p # o => p.handle # o.handle
      BY DEF CApiInv, NamesInv
    <3>. QED
      BY <1>1, <1>2, <1>3, <1>4, <2>1, <2>2, <3>1 DEF EndsItsOwn, MadeOnce
  <2>3. CASE u # t
    <3>1. EndsItsOwn(Bottom(u)) /\ Bottom(u)' = Bottom(u)
      BY <1>4, <2>3 DEF CApiInv, NamesInv
    <3>. QED
      BY <1>1, <1>2, <2>1, <3>1 DEF EndsItsOwn
  <2>. QED
    BY <2>2, <2>3
<1>10. NamesInv'
  BY <1>1, <1>2, <1>7, <1>8, <1>9 DEF CApiInv, NamesInv
<1>. QED
  BY <1>4, <1>10 DEF CApiInv

(* A call of init or end stands alone on its thread's stack.               *)
LEMMA BottomChange ==
    ASSUME StackInv, NEW t \in Threads, Busy(t), Top(t).fn # "use",
           NEW c \in CallRecord, c.fn = Top(t).fn,
           stack' = [stack EXCEPT ![t][Len(stack[t])] = c], UNCHANGED inits
    PROVE  /\ StackInv'
           /\ Bottom(t) = Top(t) /\ Bottom(t)' = c
           /\ \A u \in Threads : u # t => Bottom(u)' = Bottom(u)
<1>1. Len(stack[t]) = 1
  <2>1. Len(stack[t]) \in 1 .. 2 /\ (Len(stack[t]) = 2 => Top(t).fn = "use")
    BY TopIs
  <2>. QED
    BY <2>1
<1>. QED
  BY <1>1, TopChange

LEMMA AppendedToOne ==
    ASSUME NEW S, NEW q \in Seq(S), Len(q) = 1, NEW c \in S
    PROVE  LET s == Append(q, c)
           IN  s \in Seq(S) /\ Len(s) = 2 /\ s[2] = c /\ s[1] = q[1]
  OBVIOUS

LEMMA BottomIs ==
    ASSUME StackInv, NEW t \in Threads, Bottom(t).fn \in {"init", "use", "end"}
    PROVE  Bottom(t) \in CallRecord
<1>1. stack[t] # <<>> /\ stack[t] \in Seq(CallRecord) /\ Bottom(t) = stack[t][1]
  BY DEF StackInv, Bottom, Idle, Call
<1>. QED
  BY <1>1

(* A step of a call that is not one of init or end, or that takes its mutex. *)
LEMMA QuietTop ==
    ASSUME CApiInv, NEW t \in Threads, Busy(t), NEW c \in CallRecord, c.fn = Top(t).fn,
           stack' = [stack EXCEPT ![t][Len(stack[t])] = c],
           c.fn = "use" \/ Alike(Top(t), c),
           UNCHANGED <<c_object_handle, efp_base_map, live, inits>>
    PROVE  CApiInv'
<1>1. /\ StackInv'
      /\ IF Len(stack[t]) = 1 THEN Bottom(t) = Top(t) /\ Bottom(t)' = c
         ELSE Bottom(t)' = Bottom(t) /\ Bottom(t).fn = "use"
      /\ \A u \in Threads : u # t => Bottom(u)' = Bottom(u)
  BY TopChange DEF CApiInv
<1>2. \A u \in Threads : Alike(Bottom(u), Bottom(u)')
  BY <1>1 DEF Alike
<1>3. NamesInv'
  BY <1>2, QuietKeepsNames DEF CApiInv
<1>. QED
  BY <1>1, <1>3 DEF CApiInv

LEMMA LockKeeps ==
    ASSUME CApiInv, NEW t \in Threads, Lock(t)
    PROVE  CApiInv'
<1>. DEFINE c == [Top(t) EXCEPT !.pc = "locked"]
<1>1. Busy(t) /\ Top(t).pc = "enter" /\ Goto(t, "locked")
      /\ UNCHANGED <<c_object_handle, efp_base_map, live, inits>>
  BY DEF Lock
<1>2. /\ c \in CallRecord /\ c.fn = Top(t).fn /\ c.kind = Top(t).kind
      /\ c.handle = Top(t).handle /\ c.callback = Top(t).callback /\ c.pc = "locked"
      /\ stack' = [stack EXCEPT ![t][Len(stack[t])] = c]
  BY <1>1, GotoIs DEF CApiInv
<1>. HIDE DEF c
<1>3. Alike(Top(t), c)
  BY <1>1, <1>2 DEF Alike
<1>. QED
  BY <1>1, <1>2, <1>3, QuietTop

LEMMA CallbackReturnsKeeps ==
    ASSUME CApiInv, NEW t \in Threads, CallbackReturns(t)
    PROVE  CApiInv'
<1>. DEFINE c == [Top(t) EXCEPT !.pc = "leave"]
<1>1. Busy(t) /\ Top(t).fn = "use" /\ Goto(t, "leave")
      /\ UNCHANGED <<c_object_handle, efp_base_map, live, inits>>
  BY DEF CallbackReturns, At
<1>2. /\ c \in CallRecord /\ c.fn = Top(t).fn
      /\ stack' = [stack EXCEPT ![t][Len(stack[t])] = c]
  BY <1>1, GotoIs DEF CApiInv
<1>. HIDE DEF c
<1>. QED
  BY <1>1, <1>2, QuietTop

(* What the callback is, the map of objects says.                          *)
LEMMA UseKeeps ==
    ASSUME CApiInv, NEW t \in Threads, NEW kind \in Kinds, Use(t, kind)
    PROVE  CApiInv'
<1>. DEFINE n == Len(stack[t])
            found == efp_base_map[kind][Top(t).handle]
            c == [Top(t) EXCEPT !.callback = found, !.pc = "callback"]
<1>1. /\ Busy(t) /\ Top(t).fn = "use" /\ Top(t).handle \in DOMAIN efp_base_map[kind]
      /\ stack' = [stack EXCEPT ![t][n] = c]
      /\ UNCHANGED <<c_object_handle, efp_base_map, live, inits>>
  BY DEF Use, At, Top
<1>2. found \in Nat
  BY <1>1 DEF CApiInv, NamesInv
<1>3. Top(t) \in CallRecord
  BY <1>1, TopIs DEF CApiInv
<1>4. c \in CallRecord /\ c.fn = "use"
  <2>. HIDE DEF found
  <2>. QED
    BY <1>1, <1>2, <1>3 DEF CallRecord
<1>. HIDE DEF c
<1>. QED
  BY <1>1, <1>4, QuietTop

LEMMA CallbackUsesKeeps ==
    ASSUME CApiInv, NEW t \in Threads, CallbackUses(t)
    PROVE  CApiInv'
<1>1. PICK o \in live :
          stack' = [stack EXCEPT ![t] =
              Append([stack[t] EXCEPT ![Len(stack[t])].pc = "leave"],
                     Call("use", o.kind, o.handle, o.callback))]
  BY DEF CallbackUses
<1>. DEFINE b == [Top(t) EXCEPT !.pc = "leave"]
            c == Call("use", o.kind, o.handle, o.callback)
            q == [stack[t] EXCEPT ![Len(stack[t])] = b]
            s == Append(q, c)
<1>2. /\ Busy(t) /\ Top(t).fn = "use" /\ Len(stack[t]) = 1
      /\ UNCHANGED <<c_object_handle, efp_base_map, live, inits>>
  BY DEF CallbackUses, At
<1>3. /\ stack[t] \in Seq(CallRecord) /\ Top(t) \in CallRecord /\ Bottom(t) = Top(t)
      /\ stack[t] # <<>>
  BY <1>2, TopIs DEF CApiInv, Busy
<1>4. c \in CallRecord /\ c.fn = "use"
  <2>1. o \in Object
    BY DEF CApiInv, NamesInv
  <2>. QED
    BY <2>1, CallType DEF Object
<1>5. b \in CallRecord /\ b.fn = "use"
  BY <1>2, <1>3 DEF CallRecord
<1>6. stack' = [stack EXCEPT ![t] = s]
  BY <1>1 DEF Top
<1>. HIDE DEF b, c
<1>7. q \in Seq(CallRecord) /\ Len(q) = 1 /\ q[1] = b
  BY <1>2, <1>3, <1>5, LastReplaced
<1>. HIDE DEF q
<1>8. /\ s \in Seq(CallRecord) /\ Len(s) = 2 /\ s[1] = b /\ s[2] = c /\ s # <<>>
  <2>1. c \in CallRecord /\ q \in Seq(CallRecord) /\ Len(q) = 1 /\ q[1] = b
    BY <1>4, <1>7
  <2>2. s \in Seq(CallRecord) /\ Len(s) = 2 /\ s[2] = c /\ s[1] = q[1]
    BY <2>1, AppendedToOne
  <2>3. s # <<>>
    BY <2>2
  <2>. QED
    BY <2>1, <2>2, <2>3
<1>. HIDE DEF s
<1>9. Nested(s) /\ inits' \in Nat
  BY <1>2, <1>4, <1>5, <1>8 DEF Nested, CApiInv, StackInv
<1>10. /\ StackInv'
       /\ Bottom(t)' = b
       /\ \A u \in Threads : u # t => Bottom(u)' = Bottom(u)
  BY <1>5, <1>6, <1>8, <1>9, StackChange DEF CApiInv
<1>11. \A u \in Threads : Alike(Bottom(u), Bottom(u)')
  BY <1>2, <1>3, <1>5, <1>10 DEF Alike
<1>12. NamesInv'
  BY <1>2, <1>11, QuietKeepsNames DEF CApiInv
<1>. QED
  BY <1>10, <1>12 DEF CApiInv

(* The new object's handle is the counter, which no other object has.      *)
LEMMA InsertKeeps ==
    ASSUME OneCreatingThread, CApiInv, NEW t \in Threads, NEW kind \in Kinds, Insert(t, kind)
    PROVE  CApiInv'
<1>. DEFINE n == Len(stack[t])
            c == [Top(t) EXCEPT !.handle = c_object_handle, !.pc = "inserted"]
<1>1. /\ Busy(t) /\ Top(t).fn = "init" /\ Top(t).pc = "locked" /\ Top(t).kind = kind
      /\ stack' = [stack EXCEPT ![t][n] = c]
      /\ efp_base_map' = [efp_base_map EXCEPT ![kind] =
             [h \in DOMAIN efp_base_map[kind] \cup {c_object_handle} |->
                 IF h = c_object_handle THEN Top(t).callback ELSE efp_base_map[kind][h]]]
      /\ UNCHANGED <<c_object_handle, live, inits>>
  BY DEF Insert, At, Top
<1>2. Top(t) \in CallRecord
  BY <1>1, TopIs DEF CApiInv
<1>3. c_object_handle \in Nat \ {0}
  BY DEF CApiInv, NamesInv
<1>4. /\ c \in CallRecord /\ c.fn = "init" /\ c.pc = "inserted" /\ c.kind = kind
      /\ c.handle = c_object_handle /\ c.callback = Top(t).callback
  BY <1>1, <1>2, <1>3 DEF CallRecord
<1>. HIDE DEF c
<1>5. /\ StackInv' /\ Bottom(t) = Top(t) /\ Bottom(t)' = c
      /\ \A u \in Threads : u # t => Bottom(u)' = Bottom(u)
  BY <1>1, <1>4, BottomChange DEF CApiInv
<1>6. \A u \in Threads : u # t => Bottom(u).fn # "init"
  BY <1>1, <1>5 DEF CApiInv, StackInv, OneCreatingThread
<1>7. /\ \A k \in Kinds : k # kind => efp_base_map'[k] = efp_base_map[k]
      /\ DOMAIN efp_base_map'[kind] = DOMAIN efp_base_map[kind] \cup {c_object_handle}
      /\ efp_base_map'[kind][c_object_handle] = Top(t).callback
      /\ \A h \in DOMAIN efp_base_map[kind] :
             h # c_object_handle => efp_base_map'[kind][h] = efp_base_map[kind][h]
      /\ efp_base_map' = [k \in Kinds |-> efp_base_map'[k]]
  BY <1>1 DEF CApiInv, NamesInv
<1>8. \A o \in live : o \in Object /\ o.handle # c_object_handle
  BY <1>3 DEF CApiInv, NamesInv, Object
<1>9. \A k \in Kinds : \A h \in DOMAIN efp_base_map'[k] :
          h \in Nat \ {0} /\ efp_base_map'[k][h] \in Nat /\ Collected(k, h)'
  <2>. SUFFICES ASSUME NEW k \in Kinds, NEW h \in DOMAIN efp_base_map'[k]
                PROVE  h \in Nat \ {0} /\ efp_base_map'[k][h] \in Nat /\ Collected(k, h)'
    OBVIOUS
  <2>1. CASE k = kind /\ h = c_object_handle
    <3>1. Collected(k, h)'
      BY <1>4, <1>5, <2>1 DEF Collected, Making
    <3>2. Top(t).callback \in Nat
      BY <1>2 DEF CallRecord
    <3>. QED
      BY <1>3, <1>7, <2>1, <3>1, <3>2
  <2>2. CASE ~(k = kind /\ h = c_object_handle)
    <3>1. h \in DOMAIN efp_base_map[k] /\ efp_base_map'[k][h] = efp_base_map[k][h]
      BY <1>7, <2>2
    <3>2. h \in Nat \ {0} /\ efp_base_map[k][h] \in Nat /\ Collected(k, h)
      BY <3>1 DEF CApiInv, NamesInv
    <3>3. Collected(k, h)'
      <4>1. CASE \E o \in live : o.kind = k /\ o.handle = h
        BY <1>1, <4>1 DEF Collected
      <4>2. CASE \E u \in Threads : /\ Making(Bottom(u)) \/ Bottom(u).fn = "end"
                                    /\ Bottom(u).kind = k /\ Bottom(u).handle = h
        <5>1. PICK u \in Threads : /\ Making(Bottom(u)) \/ Bottom(u).fn = "end"
                                   /\ Bottom(u).kind = k /\ Bottom(u).handle = h
          BY <4>2
        <5>2. CASE u # t
          BY <1>5, <5>1, <5>2 DEF Collected
        <5>3. CASE u = t
          BY <1>1, <1>5, <5>1, <5>3 DEF Making
        <5>. QED
          BY <5>2, <5>3
      <4>. QED
        BY <3>2, <4>1, <4>2 DEF Collected
    <3>. QED
      BY <3>1, <3>2, <3>3
  <2>. QED
    BY <2>1, <2>2
<1>10. \A o \in live : /\ o.handle < c_object_handle
                       /\ o.handle \in DOMAIN efp_base_map'[o.kind]
                       /\ efp_base_map'[o.kind][o.handle] = o.callback
  BY <1>7, <1>8 DEF CApiInv, NamesInv, Object
<1>11. \A u \in Threads : Making(Bottom(u))' => u = t
  BY <1>5, <1>6 DEF Making
<1>12. \A u \in Threads : Making(Bottom(u))' => MadeOnce(Bottom(u))'
  <2>1. MadeOnce(Bottom(t))'
    BY <1>1, <1>4, <1>5, <1>7, <1>8 DEF MadeOnce
  <2>. QED
    BY <1>11, <2>1
<1>13. \A u \in Threads : Bottom(u)'.fn = "end" => EndsItsOwn(Bottom(u))'
  <2>. SUFFICES ASSUME NEW u \in Threads, Bottom(u)'.fn = "end"
                PROVE  EndsItsOwn(Bottom(u))'
    OBVIOUS
  <2>1. Bottom(u)' = Bottom(u) /\ EndsItsOwn(Bottom(u)) /\ u # t
    BY <1>4, <1>5 DEF CApiInv, NamesInv
  <2>2. Bottom(u)'.handle < c_object_handle' /\ Bottom(u)'.handle # c_object_handle
    BY <1>1, <1>3, <2>1 DEF EndsItsOwn
  <2>3. \A v \in Threads : Making(Bottom(v))' => Bottom(v)'.handle # Bottom(u)'.handle
    BY <1>4, <1>5, <1>11, <2>2
  <2>4. Bottom(u)'.pc = "leave" => Bottom(u)'.handle \notin DOMAIN efp_base_map'[Bottom(u)'.kind]
    <3>1. Bottom(u).kind \in Kinds
      BY <2>1, BottomIs DEF CApiInv, CallRecord
    <3>. QED
      BY <1>7, <2>1, <2>2, <3>1 DEF EndsItsOwn
  <2>. QED
    BY <1>1, <2>1, <2>2, <2>3, <2>4 DEF EndsItsOwn
<1>14. /\ c_object_handle' \in Nat \ {0} /\ live' \subseteq Object
       /\ efp_base_map' = [k \in Kinds |-> efp_base_map'[k]]
       /\ \A o, p \in live' : o.handle = p.handle => o = p
  BY <1>1, <1>7 DEF CApiInv, NamesInv
<1>15. live' = live /\ c_object_handle' = c_object_handle
  BY <1>1
<1>16. NamesInv'
  BY <1>9, <1>10, <1>12, <1>13, <1>14, <1>15 DEF NamesInv
<1>. QED
  BY <1>5, <1>16 DEF CApiInv

(* Steps of the call of init under way, which no other thread's disturbs.  *)
LEMMA OnlyOneMakes ==
    ASSUME OneCreatingThread, CApiInv, NEW t \in Threads, Bottom(t).fn = "init"
    PROVE  \A u \in Threads : Making(Bottom(u)) => u = t
  BY DEF OneCreatingThread, CApiInv, StackInv, Making

LEMMA IncrementLoadKeeps ==
    ASSUME OneCreatingThread, CApiInv, NEW t \in Threads, IncrementLoad(t)
    PROVE  CApiInv'
<1>. DEFINE n == Len(stack[t])
            c == [Top(t) EXCEPT !.loaded = c_object_handle, !.pc = "loaded"]
<1>1. /\ Busy(t) /\ Top(t).fn = "init" /\ Top(t).pc = "inserted"
      /\ stack' = [stack EXCEPT ![t][n] = c]
      /\ UNCHANGED <<c_object_handle, efp_base_map, live, inits>>
  BY DEF IncrementLoad, At, Top
<1>2. Top(t) \in CallRecord
  BY <1>1, TopIs DEF CApiInv
<1>3. /\ c \in CallRecord /\ c.fn = "init" /\ c.pc = "loaded" /\ c.kind = Top(t).kind
      /\ c.handle = Top(t).handle /\ c.callback = Top(t).callback
      /\ c.loaded = c_object_handle
  BY <1>1, <1>2 DEF CallRecord, CApiInv, NamesInv
<1>. HIDE DEF c
<1>4. /\ StackInv' /\ Bottom(t) = Top(t) /\ Bottom(t)' = c
      /\ \A u \in Threads : u # t => Bottom(u)' = Bottom(u)
  BY <1>1, <1>3, BottomChange DEF CApiInv
<1>5. MadeOnce(Bottom(t)) /\ Making(Bottom(t)) /\ Making(c)
  BY <1>1, <1>3, <1>4 DEF CApiInv, NamesInv, Making
<1>6. MadeOnce(Bottom(t))'
  BY <1>1, <1>3, <1>4, <1>5 DEF MadeOnce
<1>7. \A k, h : Collected(k, h) => Collected(k, h)'
  BY <1>1, <1>3, <1>4, <1>5 DEF Collected, Making
<1>8. \A u \in Threads : Making(Bottom(u))' => MadeOnce(Bottom(u))'
  BY <1>1, <1>4, <1>6 DEF CApiInv, NamesInv, Making, MadeOnce
<1>9. \A u \in Threads : Bottom(u)'.fn = "end" => EndsItsOwn(Bottom(u))'
  BY <1>1, <1>3, <1>4, <1>5 DEF CApiInv, NamesInv, Making, EndsItsOwn
<1>10. NamesInv'
  BY <1>1, <1>7, <1>8, <1>9 DEF CApiInv, NamesInv
<1>. QED
  BY <1>4, <1>10 DEF CApiInv

(* The counter moves past the new handle: no one has written it since it   *)
(* was read.                                                               *)
LEMMA IncrementStoreKeeps ==
    ASSUME OneCreatingThread, CApiInv, NEW t \in Threads, IncrementStore(t)
    PROVE  CApiInv'
<1>. DEFINE n == Len(stack[t])
            c == [Top(t) EXCEPT !.pc = "leave"]
<1>1. /\ Busy(t) /\ Top(t).fn = "init" /\ Top(t).pc = "loaded" /\ Goto(t, "leave")
      /\ c_object_handle' = Top(t).loaded + 1
      /\ UNCHANGED <<efp_base_map, live, inits>>
  BY DEF IncrementStore, At
<1>2. /\ c \in CallRecord /\ c.fn = "init" /\ c.kind = Top(t).kind
      /\ c.handle = Top(t).handle /\ c.callback = Top(t).callback /\ c.pc = "leave"
      /\ stack' = [stack EXCEPT ![t][n] = c]
  BY <1>1, GotoIs DEF CApiInv
<1>. HIDE DEF c
<1>3. /\ StackInv' /\ Bottom(t) = Top(t) /\ Bottom(t)' = c
      /\ \A u \in Threads : u # t => Bottom(u)' = Bottom(u)
  BY <1>1, <1>2, BottomChange DEF CApiInv
<1>4. MadeOnce(Bottom(t)) /\ Making(Bottom(t)) /\ Making(c)
  BY <1>1, <1>2, <1>3 DEF CApiInv, NamesInv, Making
<1>5. c_object_handle \in Nat \ {0} /\ c_object_handle' = c_object_handle + 1
      /\ Top(t).handle = c_object_handle
  BY <1>1, <1>3, <1>4 DEF CApiInv, NamesInv, MadeOnce
<1>6. MadeOnce(Bottom(t))'
  BY <1>1, <1>2, <1>3, <1>4, <1>5 DEF MadeOnce
<1>7. \A k, h : Collected(k, h) => Collected(k, h)'
  BY <1>1, <1>2, <1>3, <1>4 DEF Collected, Making
<1>8. \A u \in Threads : Making(Bottom(u))' => u = t
  BY <1>1, <1>3, OnlyOneMakes DEF Making
<1>9. \A u \in Threads : Bottom(u)'.fn = "end" => EndsItsOwn(Bottom(u))'
  <2>. SUFFICES ASSUME NEW u \in Threads, Bottom(u)'.fn = "end"
                PROVE  EndsItsOwn(Bottom(u))'
    OBVIOUS
  <2>1. Bottom(u)' = Bottom(u) /\ EndsItsOwn(Bottom(u)) /\ u # t
    BY <1>2, <1>3 DEF CApiInv, NamesInv
  <2>2. Bottom(u)'.handle < c_object_handle'
    <3>1. Bottom(u).handle \in Nat
      BY <2>1, BottomIs DEF CApiInv, CallRecord
    <3>. QED
      BY <1>5, <2>1, <3>1 DEF EndsItsOwn
  <2>. QED
    BY <1>1, <1>2, <1>3, <1>4, <1>8, <2>1, <2>2 DEF EndsItsOwn
<1>10. \A o \in live : /\ o.handle < c_object_handle'
                       /\ o.handle \in DOMAIN efp_base_map[o.kind]
                       /\ efp_base_map[o.kind][o.handle] = o.callback
  BY <1>5 DEF CApiInv, NamesInv, Object
<1>11. NamesInv'
  BY <1>1, <1>5, <1>6, <1>7, <1>8, <1>9, <1>10 DEF CApiInv, NamesInv
<1>. QED
  BY <1>3, <1>11 DEF CApiInv

(* What goes is the entry of the object that is ended, of which the call   *)
(* has the handle and nothing else has.                                    *)
LEMMA EraseKeeps ==
    ASSUME CApiInv, NEW t \in Threads, NEW kind \in Kinds, Erase(t, kind)
    PROVE  CApiInv'
<1>. DEFINE n == Len(stack[t])
            c == [Top(t) EXCEPT !.pc = "leave"]
<1>1. /\ Busy(t) /\ Top(t).fn = "end" /\ Top(t).pc = "locked" /\ Top(t).kind = kind
      /\ Goto(t, "leave")
      /\ efp_base_map' = [efp_base_map EXCEPT ![kind] =
             [h \in DOMAIN efp_base_map[kind] \ {Top(t).handle} |-> efp_base_map[kind][h]]]
      /\ UNCHANGED <<c_object_handle, live, inits>>
  BY DEF Erase, At
<1>2. /\ c \in CallRecord /\ c.fn = "end" /\ c.kind = kind
      /\ c.handle = Top(t).handle /\ c.callback = Top(t).callback /\ c.pc = "leave"
      /\ stack' = [stack EXCEPT ![t][n] = c]
  BY <1>1, GotoIs DEF CApiInv
<1>. HIDE DEF c
<1>3. /\ StackInv' /\ Bottom(t) = Top(t) /\ Bottom(t)' = c
      /\ \A u \in Threads : u # t => Bottom(u)' = Bottom(u)
  BY <1>1, <1>2, BottomChange DEF CApiInv
<1>4. EndsItsOwn(Bottom(t)) /\ ~Making(Bottom(t)) /\ ~Making(c)
  BY <1>1, <1>2, <1>3 DEF CApiInv, NamesInv, Making
<1>5. /\ \A k \in Kinds : k # kind => efp_base_map'[k] = efp_base_map[k]
      /\ DOMAIN efp_base_map'[kind] = DOMAIN efp_base_map[kind] \ {c.handle}
      /\ \A h \in DOMAIN efp_base_map'[kind] :
             efp_base_map'[kind][h] = efp_base_map[kind][h]
      /\ efp_base_map' = [k \in Kinds |-> efp_base_map'[k]]
  BY <1>1, <1>2 DEF CApiInv, NamesInv
<1>6. \A k \in Kinds : \A h : h # c.handle /\ h \in DOMAIN efp_base_map[k] =>
          h \in DOMAIN efp_base_map'[k] /\ efp_base_map'[k][h] = efp_base_map[k][h]
  BY <1>5
<1>7. \A k \in Kinds : \A h \in DOMAIN efp_base_map'[k] :
          /\ h \in DOMAIN efp_base_map[k] /\ efp_base_map'[k][h] = efp_base_map[k][h]
  BY <1>5
<1>8. \A u \in Threads : Making(Bottom(u))' =>
          u # t /\ Bottom(u)' = Bottom(u) /\ Making(Bottom(u)) /\ Bottom(u).handle # c.handle
  BY <1>2, <1>3, <1>4 DEF EndsItsOwn, Making
<1>9. \A k, h : Collected(k, h) => Collected(k, h)'
  <2>. SUFFICES ASSUME NEW k, NEW h, Collected(k, h)
                PROVE  Collected(k, h)'
    OBVIOUS
  <2>1. CASE \E o \in live : o.kind = k /\ o.handle = h
    BY <1>1, <2>1 DEF Collected
  <2>2. CASE \E u \in Threads : /\ Making(Bottom(u)) \/ Bottom(u).fn = "end"
                                /\ Bottom(u).kind = k /\ Bottom(u).handle = h
    BY <1>1, <1>2, <1>3, <1>4, <2>2 DEF Collected, Making
  <2>. QED
    BY <2>1, <2>2 DEF Collected
<1>10. \A u \in Threads : Making(Bottom(u))' => MadeOnce(Bottom(u))'
  <2>. SUFFICES ASSUME NEW u \in Threads, Making(Bottom(u))'
                PROVE  MadeOnce(Bottom(u))'
    OBVIOUS
  <2>1. /\ Bottom(u)' = Bottom(u) /\ MadeOnce(Bottom(u)) /\ Bottom(u).handle # c.handle
        /\ Bottom(u).fn = "init"
    BY <1>8 DEF CApiInv, NamesInv, Making
  <2>2. Bottom(u).kind \in Kinds
    BY <2>1, BottomIs DEF CApiInv, CallRecord
  <2>. QED
    BY <1>1, <1>6, <2>1, <2>2 DEF MadeOnce
<1>11. \A u \in Threads : Bottom(u)'.fn = "end" => EndsItsOwn(Bottom(u))'
  <2>. SUFFICES ASSUME NEW u \in Threads, Bottom(u)'.fn = "end"
                PROVE  EndsItsOwn(Bottom(u))'
    OBVIOUS
  <2>1. CASE u = t
    BY <1>1, <1>2, <1>3, <1>4, <1>5, <1>8, <2>1 DEF EndsItsOwn
  <2>2. CASE u # t
    <3>1. Bottom(u)' = Bottom(u) /\ EndsItsOwn(Bottom(u))
      BY <1>3, <2>2 DEF CApiInv, NamesInv
    <3>2. Bottom(u).kind \in Kinds
      BY <3>1, BottomIs DEF CApiInv, CallRecord
    <3>. QED
      BY <1>1, <1>7, <1>8, <3>1, <3>2 DEF EndsItsOwn
  <2>. QED
    BY <2>1, <2>2
<1>12. \A o \in live : /\ o.handle < c_object_handle
                       /\ o.handle \in DOMAIN efp_base_map'[o.kind]
                       /\ efp_base_map'[o.kind][o.handle] = o.callback
  <2>1. \A o \in live : o.handle # c.handle
    BY <1>2, <1>3, <1>4 DEF EndsItsOwn
  <2>. QED
    BY <1>6, <2>1 DEF CApiInv, NamesInv, Object
<1>13. \A k \in Kinds : \A h \in DOMAIN efp_base_map'[k] :
           h \in Nat \ {0} /\ efp_base_map'[k][h] \in Nat /\ Collected(k, h)'
  BY <1>7, <1>9 DEF CApiInv, NamesInv
<1>14. /\ c_object_handle' \in Nat \ {0} /\ live' \subseteq Object
       /\ live' = live /\ c_object_handle' = c_object_handle
       /\ \A o, p \in live' : o.handle = p.handle => o = p
  BY <1>1 DEF CApiInv, NamesInv
<1>15. NamesInv'
  BY <1>5, <1>10, <1>11, <1>12, <1>13, <1>14 DEF NamesInv
<1>. QED
  BY <1>3, <1>15 DEF CApiInv

LEMMA Popped ==
    ASSUME NEW S, NEW q \in Seq(S)
    PROVE  /\ Len(q) = 1 => SubSeq(q, 1, Len(q) - 1) = <<>>
           /\ Len(q) = 2 => /\ SubSeq(q, 1, Len(q) - 1) \in Seq(S)
                            /\ Len(SubSeq(q, 1, Len(q) - 1)) = 1
                            /\ SubSeq(q, 1, Len(q) - 1) # <<>>
                            /\ SubSeq(q, 1, Len(q) - 1)[1] = q[1]
<1>1. ASSUME Len(q) = 1 PROVE SubSeq(q, 1, Len(q) - 1) = <<>>
  BY <1>1
<1>2. ASSUME Len(q) = 2
      PROVE  SubSeq(q, 1, 1) \in Seq(S) /\ Len(SubSeq(q, 1, 1)) = 1 /\ SubSeq(q, 1, 1)[1] = q[1]
  <2>1. \A i \in 1 .. 1 : q[i] \in S
    BY <1>2
  <2>. QED
    BY <1>2, <2>1, SubSeqProperties
<1>3. ASSUME Len(q) = 2 PROVE Len(q) - 1 = 1 /\ SubSeq(q, 1, 1) # <<>>
  <2>1. Len(SubSeq(q, 1, 1)) = 1 /\ Len(<<>>) = 0
    BY <1>2, <1>3
  <2>. QED
    BY <1>3, <2>1
<1>. QED
  BY <1>1, <1>2, <1>3

(* A call within a callback returns: the outer call goes on.               *)
LEMMA InnerReturnKeeps ==
    ASSUME CApiInv, NEW t \in Threads, Return(t), Len(stack[t]) = 2
    PROVE  CApiInv'
<1>. DEFINE s == SubSeq(stack[t], 1, Len(stack[t]) - 1)
<1>1. /\ Busy(t) /\ stack' = [stack EXCEPT ![t] = s]
      /\ UNCHANGED <<c_object_handle, efp_base_map, inits>>
  BY DEF Return, Pop
<1>2. stack[t] \in Seq(CallRecord) /\ Top(t).fn = "use" /\ Bottom(t).fn = "use"
  BY <1>1, TopIs DEF CApiInv
<1>3. Bottom(t) = stack[t][1] /\ live' = live
  BY <1>1, <1>2 DEF Return, Bottom, Busy
<1>4. s \in Seq(CallRecord) /\ Len(s) = 1 /\ s # <<>> /\ s[1] = stack[t][1]
  BY <1>2, Popped
<1>. HIDE DEF s
<1>5. Nested(s) /\ inits' \in Nat
  BY <1>1, <1>4 DEF Nested, CApiInv, StackInv
<1>6. /\ StackInv' /\ Bottom(t)' = s[1]
      /\ \A u \in Threads : u # t => Bottom(u)' = Bottom(u)
  BY <1>1, <1>2, <1>3, <1>4, <1>5, StackChange DEF CApiInv
<1>7. \A u \in Threads : Alike(Bottom(u), Bottom(u)')
  BY <1>3, <1>4, <1>6 DEF Alike
<1>8. NamesInv'
  BY <1>1, <1>3, <1>7, QuietKeepsNames DEF CApiInv
<1>. QED
  BY <1>6, <1>8 DEF CApiInv

LEMMA ReturnEmpties ==
    ASSUME CApiInv, NEW t \in Threads, Return(t), Len(stack[t]) # 2
    PROVE  /\ StackInv' /\ Bottom(t) = Top(t) /\ Top(t) \in CallRecord
           /\ Bottom(t)' = Idle /\ Idle.fn = "none"
           /\ \A u \in Threads : u # t => Bottom(u)' = Bottom(u)
<1>. DEFINE s == SubSeq(stack[t], 1, Len(stack[t]) - 1)
<1>1. Busy(t) /\ stack' = [stack EXCEPT ![t] = s] /\ UNCHANGED inits
  BY DEF Return, Pop
<1>2. /\ stack[t] \in Seq(CallRecord) /\ Len(stack[t]) = 1
      /\ Bottom(t) = Top(t) /\ Top(t) \in CallRecord
  BY <1>1, TopIs DEF CApiInv
<1>3. s = <<>>
  BY <1>2, Popped
<1>. HIDE DEF s
<1>4. s \in Seq(CallRecord) /\ Nested(s) /\ inits' \in Nat
  BY <1>1, <1>3 DEF Nested, CApiInv, StackInv
<1>5. /\ StackInv' /\ Bottom(t)' = Idle
      /\ \A u \in Threads : u # t => Bottom(u)' = Bottom(u)
  BY <1>1, <1>3, <1>4, StackChange DEF CApiInv
<1>6. Idle.fn = "none"
  BY DEF Idle, Call
<1>. QED
  BY <1>2, <1>5, <1>6

(* The object goes from the call that made it to the application.          *)
LEMMA InitReturnKeeps ==
    ASSUME OneCreatingThread, CApiInv, NEW t \in Threads, Return(t), Len(stack[t]) # 2,
           Top(t).fn = "init"
    PROVE  CApiInv'
<1>. DEFINE o == [kind |-> Top(t).kind, handle |-> Top(t).handle, callback |-> Top(t).callback]
<1>1. /\ Top(t).pc = "leave" /\ live' = live \cup {o}
      /\ UNCHANGED <<c_object_handle, efp_base_map>>
  BY DEF Return
<1>2. /\ StackInv' /\ Bottom(t) = Top(t) /\ Top(t) \in CallRecord
      /\ Bottom(t)' = Idle /\ Idle.fn = "none"
      /\ \A u \in Threads : u # t => Bottom(u)' = Bottom(u)
  BY ReturnEmpties
<1>3. /\ o \in Object /\ o.kind = Bottom(t).kind /\ o.handle = Bottom(t).handle
      /\ o.callback = Bottom(t).callback
  BY <1>2 DEF CallRecord, Object
<1>. HIDE DEF o
<1>4. Making(Bottom(t)) /\ MadeOnce(Bottom(t))
  BY <1>1, <1>2 DEF CApiInv, NamesInv, Making
<1>5. /\ o.handle < c_object_handle /\ o.handle \in DOMAIN efp_base_map[o.kind]
      /\ efp_base_map[o.kind][o.handle] = o.callback
      /\ \A p \in live : p.handle # o.handle
  BY <1>1, <1>2, <1>3, <1>4 DEF MadeOnce
<1>6. \A u \in Threads : ~Making(Bottom(u)')
  BY <1>2, OnlyOneMakes DEF Making
<1>7. \A u \in Threads : ~Making(Bottom(u))'
  BY <1>6 DEF Making
<1>8. \A k, h : Collected(k, h) => Collected(k, h)'
  <2>. SUFFICES ASSUME NEW k, NEW h, Collected(k, h)
                PROVE  Collected(k, h)'
    OBVIOUS
  <2>1. CASE \E p \in live : p.kind = k /\ p.handle = h
    BY <1>1, <2>1 DEF Collected
  <2>2. CASE \E u \in Threads : /\ Making(Bottom(u)) \/ Bottom(u).fn = "end"
                                /\ Bottom(u).kind = k /\ Bottom(u).handle = h
    <3>1. PICK u \in Threads : /\ Making(Bottom(u)) \/ Bottom(u).fn = "end"
                               /\ Bottom(u).kind = k /\ Bottom(u).handle = h
      BY <2>2
    <3>2. CASE u = t
      BY <1>1, <1>3, <3>1, <3>2 DEF Collected
    <3>3. CASE u # t
      <4>1. Bottom(u)'.fn = "end" /\ Bottom(u)' = Bottom(u)
        BY <1>2, <1>6, <3>1, <3>3
      <4>. QED
        BY <3>1, <4>1 DEF Collected
    <3>. QED
      BY <3>2, <3>3
  <2>. QED
    BY <2>1, <2>2 DEF Collected
<1>9. \A u \in Threads : Bottom(u)'.fn = "end" => EndsItsOwn(Bottom(u))'
  <2>. SUFFICES ASSUME NEW u \in Threads, Bottom(u)'.fn = "end"
                PROVE  EndsItsOwn(Bottom(u))'
    OBVIOUS
  <2>1. Bottom(u)' = Bottom(u) /\ EndsItsOwn(Bottom(u))
    BY <1>2 DEF CApiInv, NamesInv
  <2>2. o.handle # Bottom(u).handle
    BY <1>3, <1>4, <2>1 DEF EndsItsOwn
  <2>. QED
    BY <1>1, <1>7, <2>1, <2>2 DEF EndsItsOwn
<1>10. \A p \in live' : /\ p \in Object /\ p.handle < c_object_handle
                        /\ p.handle \in DOMAIN efp_base_map[p.kind]
                        /\ efp_base_map[p.kind][p.handle] = p.callback
  BY <1>1, <1>3, <1>5 DEF CApiInv, NamesInv
<1>11. \A p, q \in live' : p.handle = q.handle => p = q
  BY <1>1, <1>5 DEF CApiInv, NamesInv
<1>12. NamesInv'
  BY <1>1, <1>7, <1>8, <1>9, <1>10, <1>11 DEF CApiInv, NamesInv
<1>. QED
  BY <1>2, <1>12 DEF CApiInv

(* What a call of end erased needs no one to answer for it.                *)
LEMMA EndReturnKeeps ==
    ASSUME CApiInv, NEW t \in Threads, Return(t), Len(stack[t]) # 2, Top(t).fn = "end"
    PROVE  CApiInv'
<1>1. Top(t).pc = "leave" /\ UNCHANGED <<c_object_handle, efp_base_map, live>>
  BY DEF Return
<1>2. /\ StackInv' /\ Bottom(t) = Top(t) /\ Top(t) \in CallRecord
      /\ Bottom(t)' = Idle /\ Idle.fn = "none"
      /\ \A u \in Threads : u # t => Bottom(u)' = Bottom(u)
  BY ReturnEmpties
<1>3. Bottom(t).handle \notin DOMAIN efp_base_map[Bottom(t).kind] /\ ~Making(Bottom(t))
  BY <1>1, <1>2 DEF CApiInv, NamesInv, EndsItsOwn, Making
<1>4. \A u \in Threads : Making(Bottom(u))' => u # t /\ Making(Bottom(u)) /\ Bottom(u)' = Bottom(u)
  BY <1>2 DEF Making
<1>5. \A k \in Kinds : \A h \in DOMAIN efp_base_map[k] : Collected(k, h)'
  <2>. SUFFICES ASSUME NEW k \in Kinds, NEW h \in DOMAIN efp_base_map[k]
                PROVE  Collected(k, h)'
    OBVIOUS
  <2>1. Collected(k, h)
    BY DEF CApiInv, NamesInv
  <2>2. CASE \E p \in live : p.kind = k /\ p.handle = h
    BY <1>1, <2>2 DEF Collected
  <2>3. CASE \E u \in Threads : /\ Making(Bottom(u)) \/ Bottom(u).fn = "end"
                                /\ Bottom(u).kind = k /\ Bottom(u).handle = h
    <3>1. PICK u \in Threads : /\ Making(Bottom(u)) \/ Bottom(u).fn = "end"
                               /\ Bottom(u).kind = k /\ Bottom(u).handle = h
      BY <2>3
    <3>2. u # t
      BY <1>3, <3>1
    <3>. QED
      BY <1>2, <3>1, <3>2 DEF Collected, Making
  <2>. QED
    BY <2>1, <2>2, <2>3 DEF Collected
<1>6. \A u \in Threads : Making(Bottom(u))' => MadeOnce(Bottom(u))'
  BY <1>1, <1>4 DEF CApiInv, NamesInv, MadeOnce
<1>7. \A u \in Threads : Bottom(u)'.fn = "end" => EndsItsOwn(Bottom(u))'
  BY <1>1, <1>2, <1>4 DEF CApiInv, NamesInv, EndsItsOwn
<1>8. NamesInv'
  BY <1>1, <1>5, <1>6, <1>7 DEF CApiInv, NamesInv
<1>. QED
  BY <1>2, <1>8 DEF CApiInv

LEMMA ReturnKeeps ==
    ASSUME OneCreatingThread, CApiInv, NEW t \in Threads, Return(t)
    PROVE  CApiInv'
<1>1. CASE Len(stack[t]) # 2 /\ Top(t).fn = "use"
  <2>1. /\ StackInv' /\ Bottom(t) = Top(t) /\ Top(t) \in CallRecord
        /\ Bottom(t)' = Idle /\ Idle.fn = "none"
        /\ \A u \in Threads : u # t => Bottom(u)' = Bottom(u)
    BY <1>1, ReturnEmpties
  <2>2. UNCHANGED <<c_object_handle, efp_base_map, live>>
    BY <1>1 DEF Return
  <2>3. \A u \in Threads : Alike(Bottom(u), Bottom(u)')
    BY <1>1, <2>1 DEF Alike
  <2>4. NamesInv'
    BY <2>2, <2>3, QuietKeepsNames DEF CApiInv
  <2>. QED
    BY <2>1, <2>4 DEF CApiInv
<1>2. Top(t).fn \in {"init", "use", "end"}
  BY TopIs DEF CApiInv, CallRecord, Return
<1>. QED
  BY <1>1, <1>2, InnerReturnKeeps, InitReturnKeeps, EndReturnKeeps

LEMMA CApiInvNext == ASSUME OneCreatingThread PROVE CApiInv /\ [Next]_vars => CApiInv'
<1>. SUFFICES ASSUME CApiInv, [Next]_vars
              PROVE  CApiInv'
  OBVIOUS
<1>1. CASE UNCHANGED vars
  <2>1. /\ \A u \in Threads : Bottom(u)' = Bottom(u)
        /\ UNCHANGED <<c_object_handle, efp_base_map, live, stack, inits>>
    BY <1>1 DEF vars, Bottom
  <2>2. NamesInv'
    BY <2>1, QuietKeepsNames DEF CApiInv, Alike
  <2>3. StackInv'
    BY <2>1 DEF CApiInv, StackInv, Nested
  <2>. QED
    BY <2>2, <2>3 DEF CApiInv
<1>2. ASSUME NEW t \in Threads, AppInit(t) \/ AppUse(t) \/ AppEnd(t) \/ Run(t)
      PROVE  CApiInv'
  <2>1. CASE AppInit(t) \/ AppUse(t) \/ AppEnd(t)
    BY <2>1, AppInitKeeps, AppUseKeeps, AppEndKeeps
  <2>2. CASE CallbackUses(t) \/ CallbackReturns(t) \/ Lock(t) \/ Return(t)
    BY <2>2, CallbackUsesKeeps, CallbackReturnsKeeps, LockKeeps, ReturnKeeps
  <2>3. CASE EfpInitSend(t) \/ EfpInitReceive(t)
    BY <2>3, InsertKeeps DEF EfpInitSend, EfpInitReceive, Kinds
  <2>4. CASE IncrementLoad(t) \/ IncrementStore(t)
    BY <2>4, IncrementLoadKeeps, IncrementStoreKeeps
  <2>5. CASE EfpSendData(t) \/ EfpReceiveFragment(t)
    BY <2>5, UseKeeps DEF EfpSendData, EfpReceiveFragment, Kinds
  <2>6. CASE EfpEndSend(t) \/ EfpEndReceive(t)
    BY <2>6, EraseKeeps DEF EfpEndSend, EfpEndReceive, Kinds
  <2>. QED
    BY <1>2, <2>1, <2>2, <2>3, <2>4, <2>5, <2>6 DEF Run
<1>. QED
  BY <1>1, <1>2 DEF Next

(* As long as an object is not ended, its handle finds it, with the        *)
(* callback its owner gave, whatever the other calls do meanwhile: if the  *)
(* objects are created by one thread.                                      *)
THEOREM HandleNamesItsObjectAlways ==
    ASSUME OneCreatingThread
    PROVE  Spec => []HandleNamesItsObject
<1>1. CApiInv => HandleNamesItsObject
  BY DEF CApiInv, NamesInv, HandleNamesItsObject
<1>2. CApiInv /\ [Next]_vars => CApiInv'
  BY CApiInvNext
<1>. QED
  BY CApiInvInit, <1>1, <1>2, PTL DEF Spec

(* The maps keep no entry of an object that efp_end_send or                *)
(* efp_end_receive ended, nor one whose handle nobody was given.           *)
THEOREM EndedAreCollectedAlways ==
    ASSUME OneCreatingThread
    PROVE  Spec => []EndedAreCollected
<1>1. CApiInv => EndedAreCollected
  <2>. SUFFICES ASSUME CApiInv, NEW kind \in Kinds, NEW h \in DOMAIN efp_base_map[kind],
                       ~\E o \in live : o.kind = kind /\ o.handle = h
                PROVE  \E t \in Threads : Busy(t) /\ stack[t][1].fn # "use"
                          /\ stack[t][1].kind = kind /\ stack[t][1].handle = h
    BY DEF EndedAreCollected
  <2>1. Collected(kind, h)
    BY DEF CApiInv, NamesInv
  <2>2. PICK t \in Threads : /\ Bottom(t).fn \in {"init", "end"}
                             /\ Bottom(t).kind = kind /\ Bottom(t).handle = h
    BY <2>1 DEF Collected, Making
  <2>3. Busy(t) /\ Bottom(t) = stack[t][1]
    BY <2>2 DEF Bottom, Idle, Call, Busy
  <2>. QED
    BY <2>2, <2>3
<1>2. CApiInv /\ [Next]_vars => CApiInv'
  BY CApiInvNext
<1>. QED
  BY CApiInvInit, <1>1, <1>2, PTL DEF Spec
=============================================================================
