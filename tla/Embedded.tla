------------------------------- MODULE Embedded -------------------------------
(***************************************************************************)
(* Data embedded in front of a payload.  addEmbeddedData, or in the C API  *)
(* efp_add_embedded_data, puts a header and the data before what is there  *)
(* already; at the receiver gotData walks over the headers and calls the   *)
(* application back for each piece and then for the payload.  The walk     *)
(* trusts the headers: what is no header is read as one all the same.      *)
(*                                                                         *)
(* A packet is the list of its embedded blocks and the size of its payload;*)
(* data is named by where it is in the packet.                             *)
(***************************************************************************)
EXTENDS Widths, SequencesExt

CONSTANTS
    HeaderSize,     \* sizeof(ElasticEmbeddedHeader)
    DataSizes,      \* sizes of the data to embed
    PayloadSizes,   \* sizes of the payload
    MaxBlocks       \* bound: pieces of data embedded in one packet

ASSUME EmbeddedAssumption ==
    /\ HeaderSize \in Nat \ {0} /\ MaxBlocks \in Nat
    /\ DataSizes \subseteq Nat /\ PayloadSizes \subseteq Nat

Types == {"illegal", "embeddedprivatedata"}

VARIABLES
    blocks,         \* the embedded blocks, first to last in the packet
    payload,        \* size of the payload
    asked,          \* what was embedded, in the order of the calls
    mFlags,         \* is INLINE_PAYLOAD set
    mBroken,        \* did the superframe arrive incomplete
    callbacks,      \* the callbacks of the application that are set
    pc,             \* "pack", "extract", "call" or "done"
    position,       \* payloadDataPosition
    embeddedData,   \* what the walk collected
    called          \* the callbacks made, in their order

packetVars == <<blocks, payload, asked, mFlags, callbacks>>
embeddedVars == <<packetVars, mBroken, pc, position, embeddedData, called>>

EmbeddedInit ==
    /\ blocks = <<>> /\ asked = <<>>
    /\ payload \in PayloadSizes
    /\ mFlags \in BOOLEAN
    /\ callbacks \in SUBSET {"c_receiveCallback", "c_receiveEmbeddedDataCallback"}
    /\ mBroken = FALSE
    /\ pc = "pack"
    /\ position = 0
    /\ embeddedData = <<>>
    /\ called = <<>>

(***************************************************************************)
(* Packing.  mSize is what the header says, size what was copied, and      *)
(* ahead how far the payload is from the first byte of the header: what is *)
(* put in front later does not change that.                                *)
(***************************************************************************)
PayloadStart == IF blocks = <<>> THEN 0 ELSE blocks[1].ahead
mFrameSize == PayloadStart + payload

Block(type, isLast, mSize, size) ==
    [type |-> type, last |-> isLast, mSize |-> mSize, size |-> size,
     ahead |-> HeaderSize + size + PayloadStart]

BlockStart(i) == PayloadStart - blocks[i].ahead

(* A block that is put behind those already there. *)
AppendBlock(b) ==
    LET room == HeaderSize + b.size
    IN  blocks' = Append([i \in 1 .. Len(blocks) |-> [blocks[i] EXCEPT !.ahead = @ + room]],
                         [b EXCEPT !.ahead = room])

InsertBlock(b) == blocks' = <<b>> \o blocks

(* addEmbeddedData; tooLargeEmbeddedData leaves the packet as it is. *)
AddEmbeddedData(type, isLast, size) ==
    /\ pc = "pack" /\ Len(blocks) < MaxBlocks
    /\ size <= U16Max
    /\ InsertBlock(Block(type, isLast, size, size))
    /\ asked' = Append(asked, [type |-> type, size |-> size])
    /\ UNCHANGED <<payload, mFlags, callbacks, mBroken, pc, position, embeddedData, called>>

(* efp_add_embedded_data, which casts the size to uint16_t unchecked. *)
EfpAddEmbeddedData(type, isLast, size) ==
    /\ pc = "pack" /\ Len(blocks) < MaxBlocks
    /\ InsertBlock(Block(type, isLast, size % U16Mod, size))
    /\ asked' = Append(asked, [type |-> type, size |-> size])
    /\ UNCHANGED <<payload, mFlags, callbacks, mBroken, pc, position, embeddedData, called>>

(***************************************************************************)
(* Unpacking.                                                              *)
(***************************************************************************)
DataCallback(from) ==
    [callback |-> "c_receiveCallback", type |-> "payload", from |-> from,
     size |-> mFrameSize - from]
EmbeddedCallback(e) ==
    [callback |-> "c_receiveEmbeddedDataCallback", type |-> e.type, from |-> e.from,
     size |-> e.size]

MayExtract(broken) ==
    "c_receiveEmbeddedDataCallback" \in callbacks /\ mFlags /\ ~broken

(* gotData up to extractEmbeddedData.  The superframe it is called for is  *)
(* the one packed, or broken.                                              *)
GotData(broken) ==
    /\ pc = "pack"
    /\ mBroken' = broken
    /\ IF "c_receiveCallback" \notin callbacks
       THEN pc' = "done" /\ UNCHANGED called
       ELSE IF MayExtract(broken)
       THEN pc' = "extract" /\ UNCHANGED called
       ELSE pc' = "done" /\ called' = <<DataCallback(0)>>
    /\ UNCHANGED <<packetVars, position, embeddedData>>

(* The header read at a position: that of a block, or whatever the bytes   *)
(* there, within the packet or behind it, come to.                         *)
HeadersAt(p) ==
    LET there == {i \in 1 .. Len(blocks) : BlockStart(i) = p}
    IN  IF there # {}
        THEN {[type |-> blocks[i].type, last |-> blocks[i].last, mSize |-> blocks[i].mSize] :
                i \in there}
        ELSE [type : Types, last : BOOLEAN, mSize : U16]

(* A walk that takes an end behind the packet for its end. *)
NeverOutOfBounds(p) == FALSE

OutOfBounds(p) == p >= mFrameSize

(* One round of the loop of extractEmbeddedData.  The test for illegal     *)
(* looks at the whole byte, so that the last flag makes any type legal.    *)
ExtractOne ==
    /\ pc = "extract"
    /\ \E h \in HeadersAt(position) :
          IF h.type = "illegal" /\ ~h.last
          THEN pc' = "done" /\ UNCHANGED <<position, embeddedData>>
          ELSE /\ embeddedData' = Append(embeddedData,
                     [type |-> h.type, from |-> position + HeaderSize, size |-> h.mSize])
               /\ position' = position + h.mSize + HeaderSize
               /\ pc' = IF OutOfBounds(position') THEN "done"
                        ELSE IF h.last THEN "call" ELSE "extract"
    /\ UNCHANGED <<packetVars, mBroken, called>>

(* The callbacks; the payload's is left out if the walk left the packet. *)
CallBack ==
    /\ pc = "call"
    /\ LET pieces == [i \in 1 .. Len(embeddedData) |-> EmbeddedCallback(embeddedData[i])]
       IN  called' = IF mFrameSize < position THEN pieces
                     ELSE Append(pieces, DataCallback(position))
    /\ pc' = "done"
    /\ UNCHANGED <<packetVars, mBroken, position, embeddedData>>

EmbeddedNext ==
    \/ \E type \in Types, isLast \in BOOLEAN, size \in DataSizes :
          AddEmbeddedData(type, isLast, size) \/ EfpAddEmbeddedData(type, isLast, size)
    \/ \E broken \in BOOLEAN : GotData(broken)
    \/ ExtractOne
    \/ CallBack

EmbeddedSpec == EmbeddedInit /\ [][EmbeddedNext]_embeddedVars

(***************************************************************************)
(* Correctness.                                                            *)
(***************************************************************************)

(* The use the documentation asks for: legal types, the last flag with the *)
(* first call and no other, sizes that fit the header, and a payload.      *)
UsedAsDocumented ==
    /\ blocks # <<>> /\ payload > 0 /\ mFlags
    /\ \A i \in 1 .. Len(blocks) :
          /\ blocks[i].type # "illegal"
          /\ blocks[i].mSize = blocks[i].size
          /\ blocks[i].last <=> i = Len(blocks)

Outline(pieces) == [i \in 1 .. Len(pieces) |-> [type |-> pieces[i].type, size |-> pieces[i].size]]

(* What was embedded as documented comes back: every piece with its type   *)
(* and size, the one embedded last first, and then the payload, where it   *)
(* is in the packet.                                                       *)
EmbeddedComesBack ==
    pc = "done" /\ UsedAsDocumented /\ ~mBroken
      /\ callbacks = {"c_receiveCallback", "c_receiveEmbeddedDataCallback"} =>
        Outline(called) = Append(Reverse(asked), [type |-> "payload", size |-> payload])

(* Whatever the bytes are taken for, the application is called back for a  *)
(* whole superframe or not at all: the pieces, then the payload, make up   *)
(* the packet from its first byte to its last, with one header each.       *)
CallbacksCoverPacket ==
    pc = "done" /\ called # <<>> =>
        /\ \A i \in 1 .. Len(called) :
              (called[i].callback = "c_receiveCallback") <=> i = Len(called)
        /\ \A i \in 1 .. Len(called) :
              called[i].from =
                  (IF i = 1 THEN 0 ELSE called[i - 1].from + called[i - 1].size)
                    + (IF i = Len(called) THEN 0 ELSE HeaderSize)
        /\ Last(called).from + Last(called).size = mFrameSize
        /\ Last(called).size >= 0

=============================================================================
