-------------------------------- MODULE Sender --------------------------------
(***************************************************************************)
(* ElasticFrameProtocolSender: packAndSendFromPtr checks a call, cuts the  *)
(* packet into type1 fragments, at most one type3 fragment for a remainder *)
(* that a type2 header leaves no room for, and the closing type2 fragment  *)
(* that carries the time stamps, and numbers the superframe with the       *)
(* 16 bit mSuperFrameNoGenerator.  Several senders may exist; each is      *)
(* named by the lFromSource value under which its fragments are received.  *)
(*                                                                         *)
(* The bytes of a packet are abstracted to their offsets: a fragment says  *)
(* which part of which packet it carries.                                  *)
(***************************************************************************)
EXTENDS Widths, Contents, Sequences, FiniteSets

CONSTANTS
    Sources,        \* the senders
    MTU,            \* mCurrentMTU
    SizeofType1,    \* sizeof(ElasticFrameType1) and, equal, of type3
    SizeofType2,    \* sizeof(ElasticFrameType2)
    Calls,          \* the arguments packAndSend is called with
    StartNumbers,   \* values given to setSuperFrameNo
    MaxFrames       \* bound: superframes sent by each sender

ASSUME SenderAssumption ==
    /\ MTU \in Nat /\ SizeofType1 \in Nat /\ SizeofType2 \in Nat
    /\ SizeofType1 < SizeofType2 /\ SizeofType2 < MTU /\ MTU < U16Mod
    /\ StartNumbers \subseteq U16 /\ MaxFrames \in Nat

ASSUME CallsAssumption ==
    Calls \subseteq [size : Nat, pts : U64, dts : U64, content : Contents,
                     code : Codes, stream : Nat]

VARIABLES
    mSuperFrameNoGenerator, \* per sender, the next superframe number
    sent,                   \* per sender, the superframes handed to sendCallback
    sendMessage             \* what the last call of the API returned

senderVars == <<mSuperFrameNoGenerator, sent, sendMessage>>

(***************************************************************************)
(* The arithmetic of packAndSendFromPtr.                                   *)
(***************************************************************************)
DataPayloadType1 == MTU - SizeofType1
DataPayloadType2 == MTU - SizeofType2

(* A limit that uses all of uint16_t for type1 fragments. *)
LargestPacketByMax == DataPayloadType1 * U16Max + DataPayloadType2

LargestPacket == DataPayloadType1 * (U16Max - 1) + DataPayloadType2

FitsType2(size) == size + SizeofType2 <= MTU

OfFragmentNoType1(size) == (size \div DataPayloadType1) % U16Mod
ReminderData(size) == size - OfFragmentNoType1(size) * DataPayloadType1

(* The remainder compared with what a type1 fragment has room for. *)
Type3NeededByType1Payload(size) == ReminderData(size) > DataPayloadType1

Type3Needed(size) == ReminderData(size) > DataPayloadType2

OfFragmentNo(size) ==
    (OfFragmentNoType1(size) + (IF Type3Needed(size) THEN 1 ELSE 0)) % U16Mod

(* lDataPointer when the type2 fragment is built, and what is left then. *)
DataPointerAtEnd(size) ==
    OfFragmentNoType1(size) * DataPayloadType1
        + (IF Type3Needed(size) THEN ReminderData(size) ELSE 0)
DataLeftToSend(size) == size - DataPointerAtEnd(size)

(* The three tests before the type2 fragment, and the one before type3. *)
CalculationError(size) ==
    \/ Type3Needed(size) /\ DataPointerAtEnd(size) # size
    \/ Type3Needed(size) /\ DataLeftToSend(size) # 0
    \/ DataLeftToSend(size) + SizeofType2 > MTU
    \/ OfFragmentNo(size)
         # OfFragmentNoType1(size) + (IF Type3Needed(size) THEN 1 ELSE 0)

(***************************************************************************)
(* The early returns of packAndSendFromPtr, in their order.                *)
(***************************************************************************)
PtsDtsDiff(c) == (c.pts - c.dts) % U64Mod

PackMessage(c) ==
    IF c.pts = U64Max THEN "reservedPTSValue"
    ELSE IF c.dts = U64Max THEN "reservedDTSValue"
    ELSE IF c.code = "UINT32_MAX" THEN "reservedCodeValue"
    ELSE IF c.stream = 0 /\ c.content # "efpsig" THEN "reservedStreamValue"
    ELSE IF PtsDtsDiff(c) >= U32Max THEN "dtsptsDiffToLarge"
    ELSE IF c.size > LargestPacket THEN "tooLargeFrame"
    ELSE IF FitsType2(c.size) THEN "noError"
    ELSE IF CalculationError(c.size) THEN "internalCalculationError"
    ELSE "noError"

(***************************************************************************)
(* The fragments of one superframe.  frag is the position of the fragment, *)
(* of the position of the last one; off and len say which bytes of the     *)
(* packet id = <<sender, n>> it carries, and only a type2 fragment         *)
(* carries pts, the difference to dts, the content, the code and, apart    *)
(* from the bytes of its payload, their number len (hSizeOfData).          *)
(***************************************************************************)
Type1Fragment(id, c, sfn, i) ==
    [type |-> 1, sfn |-> sfn, stream |-> c.stream, frag |-> i,
     of |-> OfFragmentNo(c.size),
     off |-> i * DataPayloadType1, len |-> DataPayloadType1, id |-> id]

(* A type3 fragment that takes the position of the type2 fragment. *)
Type3FragmentAtEnd(id, c, sfn) ==
    [type |-> 3, sfn |-> sfn, stream |-> c.stream,
     frag |-> OfFragmentNo(c.size), of |-> OfFragmentNo(c.size),
     type1PacketSize |-> DataPayloadType1,
     off |-> OfFragmentNoType1(c.size) * DataPayloadType1,
     len |-> ReminderData(c.size), id |-> id]

Type3Fragment(id, c, sfn) ==
    [type |-> 3, sfn |-> sfn, stream |-> c.stream,
     frag |-> OfFragmentNo(c.size) - 1, of |-> OfFragmentNo(c.size),
     type1PacketSize |-> DataPayloadType1,
     off |-> OfFragmentNoType1(c.size) * DataPayloadType1,
     len |-> ReminderData(c.size), id |-> id]

Type2Fragment(id, c, sfn, of, type1PacketSize, off) ==
    [type |-> 2, sfn |-> sfn, stream |-> c.stream, frag |-> of, of |-> of,
     type1PacketSize |-> type1PacketSize,
     pts |-> c.pts, dtsPtsDiff |-> PtsDtsDiff(c) % U32Mod,
     content |-> c.content, code |-> c.code,
     off |-> off, len |-> c.size - off, bytes |-> c.size - off, id |-> id]

FragmentsOf(id, c, sfn) ==
    IF FitsType2(c.size)
    THEN {Type2Fragment(id, c, sfn, 0, c.size, 0)}
    ELSE {Type1Fragment(id, c, sfn, i) : i \in 0 .. OfFragmentNoType1(c.size) - 1}
         \cup (IF Type3Needed(c.size) THEN {Type3Fragment(id, c, sfn)} ELSE {})
         \cup {Type2Fragment(id, c, sfn, OfFragmentNo(c.size),
                             DataPayloadType1, DataPointerAtEnd(c.size))}

(***************************************************************************)
(* The operations.                                                         *)
(***************************************************************************)
SenderInit ==
    /\ mSuperFrameNoGenerator = [s \in Sources |-> 0]
    /\ sent = [s \in Sources |-> <<>>]
    /\ sendMessage = "none"

(* setSuperFrameNo, which its users call before the first superframe. *)
SetSuperFrameNo(s, n) ==
    /\ sent[s] = <<>>
    /\ mSuperFrameNoGenerator' = [mSuperFrameNoGenerator EXCEPT ![s] = n]
    /\ UNCHANGED <<sent, sendMessage>>

(* A generator that also counts the calls it rejects. *)
RejectAndCount(s, c) ==
    /\ PackMessage(c) # "noError"
    /\ sendMessage' = PackMessage(c)
    /\ mSuperFrameNoGenerator' = [mSuperFrameNoGenerator EXCEPT ![s] = (@ + 1) % U16Mod]
    /\ UNCHANGED sent

PackAndSendRejected(s, c) ==
    /\ PackMessage(c) # "noError"
    /\ sendMessage' = PackMessage(c)
    /\ UNCHANGED <<mSuperFrameNoGenerator, sent>>

(* A generator that does not wrap. *)
PackAndSendUnwrapped(s, c, at) ==
    /\ Len(sent[s]) < MaxFrames
    /\ PackMessage(c) = "noError"
    /\ sendMessage' = "noError"
    /\ sent' = [sent EXCEPT
           ![s] = Append(@, [call |-> c, sfn |-> mSuperFrameNoGenerator[s], at |-> at])]
    /\ mSuperFrameNoGenerator' = [mSuperFrameNoGenerator EXCEPT ![s] = @ + 1]

(* at is the instant the fragments leave; the model's link bounds delays. *)
PackAndSendAccepted(s, c, at) ==
    /\ Len(sent[s]) < MaxFrames
    /\ PackMessage(c) = "noError"
    /\ sendMessage' = "noError"
    /\ sent' = [sent EXCEPT
           ![s] = Append(@, [call |-> c, sfn |-> mSuperFrameNoGenerator[s], at |-> at])]
    /\ mSuperFrameNoGenerator' = [mSuperFrameNoGenerator EXCEPT ![s] = (@ + 1) % U16Mod]

SenderNext ==
    \E s \in Sources :
        \/ \E n \in StartNumbers : SetSuperFrameNo(s, n)
        \/ \E c \in Calls : PackAndSendRejected(s, c)
        \/ \E c \in Calls : PackAndSendAccepted(s, c, 0)

SenderSpec == SenderInit /\ [][SenderNext]_senderVars

SentFragments(s, n) == FragmentsOf(<<s, n>>, sent[s][n].call, sent[s][n].sfn)

(***************************************************************************)
(* Correctness.                                                            *)
(***************************************************************************)
SentFrame == [call : Calls, sfn : U16, at : Nat]

(* The state of a sender stays within its types: in particular the         *)
(* superframe number, incremented after each superframe, wraps.            *)
SenderTypeOK ==
    /\ mSuperFrameNoGenerator \in [Sources -> U16]
    /\ \A s \in Sources :
          /\ sent[s] \in Seq(SentFrame)
          /\ Len(sent[s]) <= MaxFrames

(* Two superframes sent one after the other are numbered one after the     *)
(* other, whatever calls were rejected in between: packAndSendFromPtr must *)
(* not use up a number on a path that returns an error, for the receiver   *)
(* would wait for that number until its time-outs expire.                  *)
NumbersConsecutive ==
    \A s \in Sources : \A n \in 1 .. Len(sent[s]) - 1 :
        sent[s][n + 1].sfn = (sent[s][n].sfn + 1) % U16Mod

(* The "Debug me for calculation errors" returns of packAndSendFromPtr are *)
(* dead code: no packet size within the limit makes the count of           *)
(* fragments, the bytes left for the type2 fragment and the MTU disagree.  *)
NoCalculationError == sendMessage # "internalCalculationError"

(* The fragments of a superframe carry every byte of the packet exactly    *)
(* once, carry each position 0 .. hOfFragmentNo once, and none, with its   *)
(* header, is longer than the MTU.                                         *)
HeaderSize(f) == IF f.type = 2 THEN SizeofType2 ELSE SizeofType1

FragmentsCoverPacket ==
    \A s \in Sources : \A n \in 1 .. Len(sent[s]) :
        LET F == SentFragments(s, n)
            size == sent[s][n].call.size
        IN  /\ \A f \in F : f.len + HeaderSize(f) <= MTU
            /\ \A f \in F : {g \in F : g.frag = f.frag} = {f}
            /\ \A f \in F : {g.frag : g \in F} = 0 .. f.of
            /\ \A b \in 0 .. size - 1 :
                  Cardinality({f \in F : f.off <= b /\ b < f.off + f.len}) = 1
            /\ \A f \in F : f.off + f.len <= size

(* The position of the last fragment is an index of the receiver's         *)
(* mHaveReceivedFragment, a bitset of UINT16_MAX bits, at the largest      *)
(* packet tooLargeFrame lets through too.                                  *)
FragmentNoFitsBitset ==
    \A s \in Sources : \A n \in 1 .. Len(sent[s]) :
        OfFragmentNo(sent[s][n].call.size) < U16Max
=============================================================================
