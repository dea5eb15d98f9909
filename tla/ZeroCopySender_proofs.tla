------------------------- MODULE ZeroCopySender_proofs -------------------------
(***************************************************************************)
(* The zero-copy sender is a Sender, and writes its headers only where it  *)
(* may, for every MTU, header sizes, packet and number of senders.         *)
(***************************************************************************)
EXTENDS ZeroCopySender, Sender_proofs

(***************************************************************************)
(* A call in progress.  The pointer stands behind the type1 fragments sent *)
(* so far, or at the end of the packet once the type3 fragment is sent.    *)
(***************************************************************************)
FieldsOf(z) ==
    DOMAIN z = {"call", "lFragmentNo", "lDataPointer", "type3Sent", "overwritten", "out"}

Progress(z) ==
    /\ z.call \in Calls /\ PackMessage(z.call) = "noError"
    /\ z.lFragmentNo \in Nat /\ z.lDataPointer \in Nat
    /\ z.type3Sent \in BOOLEAN
    /\ FitsType2(z.call.size) => z.lFragmentNo = 0 /\ z.lDataPointer = 0 /\ ~z.type3Sent
    /\ ~z.type3Sent =>
          /\ z.lFragmentNo <= OfFragmentNoType1(z.call.size)
          /\ z.lDataPointer = z.lFragmentNo * DataPayloadType1
    /\ z.type3Sent =>
          /\ Type3Needed(z.call.size)
          /\ z.lFragmentNo = OfFragmentNoType1(z.call.size) + 1
          /\ z.lDataPointer = z.call.size

ZInv ==
    \A s \in Sources : ~Idle(s) =>
        /\ FieldsOf(zeroCopy[s])
        /\ Progress(zeroCopy[s])
        /\ Len(sent[s]) < MaxFrames

Functions ==
    /\ zeroCopy = [s \in Sources |-> zeroCopy[s]]
    /\ sent = [s \in Sources |-> sent[s]]

IInv == Functions /\ ZInv

(* A call that passed its checks is within the limit. *)
LEMMA CallFits ==
    ASSUME NEW c \in Calls, PackMessage(c) = "noError"
    PROVE  c.size \in Nat /\ c.size <= LargestPacket
  BY NeverAnError, CallsAssumption

LEMMA NeverMiscalculated ==
    ASSUME NEW z, Progress(z), ~FitsType2(z.call.size), ~InLoop(z), ~Type3Due(z)
    PROVE  ~Miscalculated(z) /\ z.lDataPointer <= z.call.size
<1>. DEFINE c == z.call
            size == c.size
            n == OfFragmentNoType1(size)
            r == ReminderData(size)
            np == n * DataPayloadType1
            x == IF Type3Needed(size) THEN 1 ELSE 0
<1>1. c \in Calls /\ size \in Nat /\ size <= LargestPacket
  BY CallFits DEF Progress
<1>2. /\ n \in Nat /\ r \in Nat /\ np \in Nat /\ size = np + r /\ n + x < U16Max
      /\ U16Max \in Nat /\ U16Mod = U16Max + 1
  BY <1>1, CountOfType1, PayloadSizes, WidthsAssumption DEF U16Max
<1>3. OfFragmentNo(size) = n + x
  <2>1. n + x = U16Mod * 0 + (n + x) /\ n + x < U16Mod /\ n + x \in Nat
        /\ U16Mod \in Nat /\ U16Mod > 0
    BY <1>2
  <2>. HIDE DEF n, x
  <2>2. (n + x) % U16Mod = n + x
    BY <2>1, ModIs
  <2>. QED
    BY <2>2 DEF OfFragmentNo, n, x
<1>4. CASE z.type3Sent
  <2>1. Type3Needed(size) /\ z.lFragmentNo = n + 1 /\ z.lDataPointer = size
    BY <1>4 DEF Progress
  <2>. HIDE DEF n, np, r, size
  <2>. QED
    BY <2>1, <1>1, <1>2, <1>3, PayloadSizes DEF Miscalculated, size, c
<1>5. CASE ~z.type3Sent
  <2>1. ~Type3Needed(size)
    BY <1>5 DEF Type3Due
  <2>2. z.lFragmentNo = n /\ z.lDataPointer = np
    BY <1>2, <1>5 DEF InLoop, Progress
  <2>3. r <= DataPayloadType2
    BY <2>1, <1>2, PayloadSizes DEF Type3Needed
  <2>. HIDE DEF n, np, r, size
  <2>4. size - z.lDataPointer = r /\ z.lFragmentNo = OfFragmentNo(size)
    BY <2>1, <2>2, <1>2, <1>3
  <2>. QED
    BY <2>1, <2>2, <2>3, <2>4, <1>1, <1>2, PayloadSizes DEF Miscalculated, size, c
<1>. QED
  BY <1>4, <1>5 DEF Progress

(***************************************************************************)
(* Each step of a call in progress keeps Progress.                         *)
(***************************************************************************)
LEMMA BeginProgress ==
    ASSUME NEW c \in Calls, PackMessage(c) = "noError", NEW z,
           z = [call |-> c, lFragmentNo |-> 0, lDataPointer |-> 0, type3Sent |-> FALSE,
                overwritten |-> {}, out |-> <<>>]
    PROVE  FieldsOf(z) /\ Progress(z)
<1>1. /\ z.call = c /\ z.lFragmentNo = 0 /\ z.lDataPointer = 0 /\ z.type3Sent = FALSE
  OBVIOUS
<1>2. OfFragmentNoType1(c.size) \in Nat /\ DataPayloadType1 \in Nat
  BY CallFits, CountOfType1, PayloadSizes
<1>3. FieldsOf(z)
  BY DEF FieldsOf
<1>. QED
  BY <1>1, <1>2, <1>3 DEF Progress

LEMMA EmitFields ==
    ASSUME NEW z, FieldsOf(z), NEW f, NEW header, NEW len
    PROVE  LET y == Emit(z, f, header, len)
           IN  /\ FieldsOf(y)
               /\ y.call = z.call /\ y.lFragmentNo = z.lFragmentNo
               /\ y.type3Sent = z.type3Sent
               /\ y.lDataPointer = z.lDataPointer + len
  BY DEF Emit, FieldsOf

LEMMA Type1Progress ==
    ASSUME NEW z, FieldsOf(z), Progress(z), InLoop(z), NEW f,
           NEW y, y = [Emit(z, f, SizeofType1, DataPayloadType1) EXCEPT
                           !.lFragmentNo = (z.lFragmentNo + 1) % U16Mod]
    PROVE  FieldsOf(y) /\ Progress(y)
<1>. DEFINE n == OfFragmentNoType1(z.call.size)
            P == DataPayloadType1
<1>1. /\ FieldsOf(y) /\ y.call = z.call /\ y.type3Sent = z.type3Sent
      /\ y.lDataPointer = z.lDataPointer + P
      /\ y.lFragmentNo = (z.lFragmentNo + 1) % U16Mod
  BY EmitFields DEF FieldsOf
<1>2. z.call \in Calls /\ PackMessage(z.call) = "noError" /\ z.lFragmentNo \in Nat
      /\ z.lDataPointer \in Nat /\ z.type3Sent \in BOOLEAN
  BY DEF Progress
<1>3. n \in Nat /\ n < U16Max /\ P \in Nat /\ U16Mod \in Nat /\ U16Max = U16Mod - 1
  BY <1>2, CallFits, CountOfType1, PayloadSizes DEF U16Max
<1>4. ~FitsType2(z.call.size) /\ z.lFragmentNo < n
  BY DEF InLoop
<1>5. ~z.type3Sent
  <2>1. z.type3Sent => z.lFragmentNo = n + 1
    BY DEF Progress
  <2>. QED
    BY <2>1, <1>2, <1>3, <1>4
<1>6. z.lDataPointer = z.lFragmentNo * P
  BY <1>5 DEF Progress
<1>. HIDE DEF n, P
<1>7. (z.lFragmentNo + 1) % U16Mod = z.lFragmentNo + 1
  <2>1. /\ z.lFragmentNo + 1 = U16Mod * 0 + (z.lFragmentNo + 1) /\ z.lFragmentNo + 1 < U16Mod
        /\ z.lFragmentNo + 1 \in Nat /\ U16Mod \in Nat /\ U16Mod > 0
    BY <1>2, <1>3, <1>4
  <2>. QED
    BY <2>1, ModIs
<1>8. z.lDataPointer + P = (z.lFragmentNo + 1) * P /\ z.lDataPointer + P \in Nat
  BY <1>2, <1>3, <1>6
<1>9. y.lFragmentNo = z.lFragmentNo + 1 /\ y.lDataPointer = (z.lFragmentNo + 1) * P
      /\ y.lDataPointer \in Nat /\ ~y.type3Sent /\ y.type3Sent \in BOOLEAN
  BY <1>1, <1>2, <1>5, <1>7, <1>8
<1>10. y.lFragmentNo \in Nat /\ y.lFragmentNo <= n
  BY <1>2, <1>3, <1>4, <1>9
<1>. QED
  BY <1>1, <1>2, <1>4, <1>9, <1>10 DEF Progress, n, P

LEMMA Type3Pointer ==
    ASSUME NEW z, FieldsOf(z), Progress(z), Type3Due(z), NEW f
    PROVE  Emit(z, f, SizeofType1, ReminderData(z.call.size)).lDataPointer = z.call.size
<1>. DEFINE size == z.call.size
            n == OfFragmentNoType1(size)
            np == n * DataPayloadType1
<1>1. z.call \in Calls /\ PackMessage(z.call) = "noError" /\ z.lFragmentNo \in Nat
  BY DEF Progress
<1>2. n \in Nat /\ size = np + ReminderData(size)
  BY <1>1, CallFits, CountOfType1
<1>3. z.lFragmentNo = n
  BY <1>1, <1>2 DEF Type3Due, InLoop, Progress
<1>4. z.lDataPointer = np
  BY <1>3 DEF Type3Due, Progress
<1>. HIDE DEF n, np, size
<1>. QED
  BY <1>2, <1>4, EmitFields DEF size

LEMMA Type3Progress ==
    ASSUME NEW z, FieldsOf(z), Progress(z), Type3Due(z), NEW f,
           NEW y, y = [Emit(z, f, SizeofType1, ReminderData(z.call.size)) EXCEPT
                           !.lFragmentNo = (z.lFragmentNo + 1) % U16Mod, !.type3Sent = TRUE]
    PROVE  FieldsOf(y) /\ Progress(y)
<1>. DEFINE size == z.call.size
            n == OfFragmentNoType1(size)
            r == ReminderData(size)
            np == n * DataPayloadType1
<1>1. /\ FieldsOf(y) /\ y.call = z.call /\ y.type3Sent = TRUE
      /\ y.lDataPointer = z.lDataPointer + r
      /\ y.lFragmentNo = (z.lFragmentNo + 1) % U16Mod
  BY EmitFields DEF FieldsOf
<1>2. z.call \in Calls /\ PackMessage(z.call) = "noError" /\ z.lFragmentNo \in Nat
  BY DEF Progress
<1>3. /\ n \in Nat /\ r \in Nat /\ size = np + r /\ n + 1 < U16Max /\ size \in Nat
      /\ U16Mod \in Nat /\ U16Max = U16Mod - 1
  BY <1>2, CallFits, CountOfType1, PayloadSizes DEF U16Max, Type3Due
<1>4. z.lFragmentNo = n /\ z.lDataPointer = np /\ ~FitsType2(size) /\ Type3Needed(size)
  <2>1. ~z.type3Sent /\ ~FitsType2(size) /\ Type3Needed(size) /\ ~(z.lFragmentNo < n)
    BY DEF Type3Due, InLoop
  <2>2. z.lFragmentNo <= n /\ z.lDataPointer = z.lFragmentNo * DataPayloadType1
    BY <2>1 DEF Progress
  <2>. QED
    BY <2>1, <2>2, <1>2, <1>3
<1>5. (n + 1) % U16Mod = n + 1
  <2>. HIDE DEF n
  <2>1. /\ n + 1 = U16Mod * 0 + (n + 1) /\ n + 1 < U16Mod /\ n + 1 \in Nat
        /\ U16Mod \in Nat /\ U16Mod > 0
    BY <1>3
  <2>. QED
    BY <2>1, ModIs
<1>6. y.lFragmentNo = n + 1 /\ y.lDataPointer = size
  BY <1>1, <1>3, <1>4, <1>5
<1>. QED
  BY <1>1, <1>2, <1>3, <1>4, <1>6 DEF Progress, n, size

(***************************************************************************)
(* Every step keeps the invariant.                                         *)
(***************************************************************************)
LEMMA OneCallChanges ==
    ASSUME IInv, NEW s \in Sources, NEW z, zeroCopy' = [zeroCopy EXCEPT ![s] = z],
           FieldsOf(z) /\ Progress(z) /\ Len(sent[s]) < MaxFrames,
           UNCHANGED sent
    PROVE  IInv'
  BY DEF IInv, Functions, ZInv, Idle

LEMMA CallEnds ==
    ASSUME IInv, NEW s \in Sources, zeroCopy' = [zeroCopy EXCEPT ![s] = NoCall],
           NEW S, sent' = sent \/ sent' = [sent EXCEPT ![s] = S]
    PROVE  IInv'
  BY DEF IInv, Functions, ZInv, Idle

LEMMA OtherCallsStay ==
    ASSUME IInv, NEW s \in Sources, Idle(s), UNCHANGED zeroCopy,
           NEW S, sent' = sent \/ sent' = [sent EXCEPT ![s] = S]
    PROVE  IInv'
  BY DEF IInv, Functions, ZInv, Idle

LEMMA InCall ==
    ASSUME IInv, NEW s \in Sources, ~Idle(s)
    PROVE  FieldsOf(zeroCopy[s]) /\ Progress(zeroCopy[s]) /\ Len(sent[s]) < MaxFrames
  BY DEF IInv, ZInv

LEMMA StepKeepsInvariant ==
    ASSUME IInv, [ZeroCopyNext]_allVars
    PROVE  IInv'
<1>1. CASE UNCHANGED allVars
  BY <1>1 DEF allVars, zeroCopyVars, senderVars, IInv, Functions, ZInv, Idle
<1>2. CASE ZeroCopyNext
  <2>. PICK s \in Sources :
          \/ \E c \in Calls : Begin(s, c)
          \/ SendType1(s) \/ SendType3(s) \/ SendOnlyType2(s) \/ SendClosingType2(s)
          \/ /\ Idle(s)
             /\ \/ \E n \in StartNumbers : SetSuperFrameNo(s, n)
                \/ \E c \in Calls : PackAndSendRejected(s, c)
                \/ \E c \in Calls : PackAndSendAccepted(s, c, 0)
             /\ UNCHANGED zeroCopyVars
    BY <1>2 DEF ZeroCopyNext
  <2>1. CASE \E c \in Calls : Begin(s, c)
    <3>. PICK c \in Calls : Begin(s, c)
      BY <2>1
    <3>. DEFINE z == [call |-> c, lFragmentNo |-> 0, lDataPointer |-> 0, type3Sent |-> FALSE,
                      overwritten |-> {}, out |-> <<>>]
    <3>1. FieldsOf(z) /\ Progress(z)
      BY BeginProgress DEF Begin
    <3>2. zeroCopy' = [zeroCopy EXCEPT ![s] = z] /\ Len(sent[s]) < MaxFrames /\ UNCHANGED sent
      BY DEF Begin, senderVars
    <3>. HIDE DEF z
    <3>. QED
      BY <3>1, <3>2, OneCallChanges
  <2>2. CASE SendType1(s)
    <3>. DEFINE z == zeroCopy[s]
                f == Type1Fragment(Id(s), z.call, mSuperFrameNoGenerator[s], z.lFragmentNo)
                y == [Emit(z, f, SizeofType1, DataPayloadType1) EXCEPT
                         !.lFragmentNo = (z.lFragmentNo + 1) % U16Mod]
    <3>1. FieldsOf(z) /\ Progress(z) /\ Len(sent[s]) < MaxFrames /\ InLoop(z)
      BY <2>2, InCall DEF SendType1
    <3>2. zeroCopy' = [zeroCopy EXCEPT ![s] = y] /\ UNCHANGED sent
      BY <2>2 DEF SendType1, senderVars
    <3>. HIDE DEF f, z
    <3>3. FieldsOf(y) /\ Progress(y)
      BY <3>1, Type1Progress
    <3>. HIDE DEF y
    <3>. QED
      BY <3>1, <3>2, <3>3, OneCallChanges
  <2>3. CASE SendType3(s)
    <3>. DEFINE z == zeroCopy[s]
                f == Type3Fragment(Id(s), z.call, mSuperFrameNoGenerator[s])
                y == [Emit(z, f, SizeofType1, ReminderData(z.call.size)) EXCEPT
                         !.lFragmentNo = (z.lFragmentNo + 1) % U16Mod, !.type3Sent = TRUE]
    <3>1. FieldsOf(z) /\ Progress(z) /\ Len(sent[s]) < MaxFrames /\ Type3Due(z)
      BY <2>3, InCall DEF SendType3
    <3>2. FieldsOf(y) /\ Progress(y)
      <4>. HIDE DEF f, z
      <4>. QED
        BY <3>1, Type3Progress
    <3>3. Emit(z, f, SizeofType1, ReminderData(z.call.size)).lDataPointer = z.call.size
      <4>. HIDE DEF f, z
      <4>. QED
        BY <3>1, Type3Pointer
    <3>4. zeroCopy' = [zeroCopy EXCEPT ![s] = y] /\ UNCHANGED sent
      BY <2>3, <3>3 DEF SendType3, senderVars
    <3>. HIDE DEF y, f, z
    <3>. QED
      BY <3>1, <3>2, <3>4, OneCallChanges
  <2>4. CASE SendOnlyType2(s)
    BY <2>4, CallEnds DEF SendOnlyType2, Finish
  <2>5. CASE SendClosingType2(s)
    BY <2>5, CallEnds DEF SendClosingType2, Finish, Sink
  <2>6. CASE /\ Idle(s)
             /\ \/ \E n \in StartNumbers : SetSuperFrameNo(s, n)
                \/ \E c \in Calls : PackAndSendRejected(s, c)
                \/ \E c \in Calls : PackAndSendAccepted(s, c, 0)
             /\ UNCHANGED zeroCopyVars
    BY <2>6, OtherCallsStay
       DEF SetSuperFrameNo, PackAndSendRejected, PackAndSendAccepted, zeroCopyVars
  <2>. QED
    BY <2>1, <2>2, <2>3, <2>4, <2>5, <2>6
<1>. QED
  BY <1>1, <1>2

LEMMA InitInvariant ==
    ASSUME ZeroCopyInit
    PROVE  IInv
  BY DEF ZeroCopyInit, SenderInit, IInv, Functions, ZInv, Idle

(***************************************************************************)
(* Every step is one of the Sender's or leaves its state alone.            *)
(***************************************************************************)
LEMMA FinishIsAccepted ==
    ASSUME IInv, NEW s \in Sources, ~Idle(s), NEW z, z.call = zeroCopy[s].call, Finish(s, z)
    PROVE  SenderNext
<1>1. /\ z.call \in Calls /\ PackMessage(z.call) = "noError" /\ Len(sent[s]) < MaxFrames
  BY InCall DEF Progress
<1>2. PackAndSendAccepted(s, z.call, 0)
  BY <1>1 DEF Finish, PackAndSendAccepted
<1>. QED
  BY <1>1, <1>2 DEF SenderNext

LEMMA StepIsASenders ==
    ASSUME IInv, [ZeroCopyNext]_allVars
    PROVE  [SenderNext]_senderVars
<1>1. CASE UNCHANGED allVars
  BY <1>1 DEF allVars, senderVars
<1>2. CASE ZeroCopyNext
  <2>. PICK s \in Sources :
          \/ \E c \in Calls : Begin(s, c)
          \/ SendType1(s) \/ SendType3(s) \/ SendOnlyType2(s) \/ SendClosingType2(s)
          \/ /\ Idle(s)
             /\ \/ \E n \in StartNumbers : SetSuperFrameNo(s, n)
                \/ \E c \in Calls : PackAndSendRejected(s, c)
                \/ \E c \in Calls : PackAndSendAccepted(s, c, 0)
             /\ UNCHANGED zeroCopyVars
    BY <1>2 DEF ZeroCopyNext
  <2>1. CASE (\E c \in Calls : Begin(s, c)) \/ SendType1(s)
    BY <2>1 DEF Begin, SendType1
  <2>5. CASE SendType3(s)
    <3>. DEFINE z == zeroCopy[s]
                f == Type3Fragment(Id(s), z.call, mSuperFrameNoGenerator[s])
    <3>1. FieldsOf(z) /\ Progress(z) /\ Type3Due(z)
      BY <2>5, InCall DEF SendType3
    <3>2. Emit(z, f, SizeofType1, ReminderData(z.call.size)).lDataPointer = z.call.size
      <4>. HIDE DEF f, z
      <4>. QED
        BY <3>1, Type3Pointer
    <3>. QED
      BY <2>5, <3>2 DEF SendType3
  <2>2. CASE SendOnlyType2(s)
    <3>. DEFINE z == zeroCopy[s]
                f == Type2Fragment(Id(s), z.call, mSuperFrameNoGenerator[s], 0, z.call.size, 0)
                y == Emit(z, f, SizeofType2, z.call.size)
    <3>1. ~Idle(s) /\ Finish(s, y)
      BY <2>2 DEF SendOnlyType2
    <3>2. y.call = z.call
      BY <3>1, InCall, EmitFields
    <3>. HIDE DEF y
    <3>. QED
      BY <3>1, <3>2, FinishIsAccepted
  <2>3. CASE SendClosingType2(s)
    <3>. DEFINE z == zeroCopy[s]
                f == Type2Fragment(Id(s), z.call, mSuperFrameNoGenerator[s],
                                   OfFragmentNo(z.call.size), DataPayloadType1, z.lDataPointer)
                y == Emit(z, f, SizeofType2, z.call.size - z.lDataPointer)
    <3>1. ~Idle(s) /\ FieldsOf(z) /\ Progress(z)
      BY <2>3, InCall DEF SendClosingType2
    <3>2. ~Miscalculated(z)
      BY <2>3, <3>1, NeverMiscalculated DEF SendClosingType2
    <3>3. Finish(s, y)
      BY <2>3, <3>2 DEF SendClosingType2
    <3>4. y.call = z.call
      BY <3>1, EmitFields
    <3>. HIDE DEF y
    <3>. QED
      BY <3>1, <3>3, <3>4, FinishIsAccepted
  <2>4. CASE /\ Idle(s)
             /\ \/ \E n \in StartNumbers : SetSuperFrameNo(s, n)
                \/ \E c \in Calls : PackAndSendRejected(s, c)
                \/ \E c \in Calls : PackAndSendAccepted(s, c, 0)
             /\ UNCHANGED zeroCopyVars
    BY <2>4 DEF SenderNext
  <2>. QED
    BY <2>1, <2>2, <2>3, <2>4, <2>5
<1>. QED
  BY <1>1, <1>2

(* Seen from outside, a sender that uses packAndSend and                   *)
(* destructivePackAndSendFromPtr is a Sender, for every MTU, header sizes  *)
(* and packet: a zero-copy call never ends in a calculation error, counts  *)
(* one superframe when it is done and none before.                         *)
THEOREM ZeroCopySpecIsSender == ZeroCopySpec => IsSender
<1>1. ZeroCopyInit => IInv /\ SenderInit
  BY InitInvariant DEF ZeroCopyInit
<1>2. IInv /\ [ZeroCopyNext]_allVars => IInv'
  BY StepKeepsInvariant
<1>3. IInv /\ [ZeroCopyNext]_allVars => [SenderNext]_senderVars
  BY StepIsASenders
<1>. QED
  BY <1>1, <1>2, <1>3, PTL DEF ZeroCopySpec, IsSender, SenderSpec

(***************************************************************************)
(* Where the headers go.  Each lies before the pointer, which only moves   *)
(* on, and is no longer than the room before the packet.                   *)
(***************************************************************************)
Room(bytes, pointer) == bytes \subseteq -Headroom .. pointer - 1

IsList(q) == Len(q) \in Nat /\ q = [i \in 1 .. Len(q) |-> q[i]]

RoomInv ==
    /\ emitted = [s \in Sources |-> emitted[s]]
    /\ \A s \in Sources :
          /\ IsList(emitted[s])
          /\ ~Idle(s) => Room(zeroCopy[s].overwritten, zeroCopy[s].lDataPointer)
          /\ \A i \in 1 .. Len(emitted[s]) :
                /\ emitted[s][i].n \in 1 .. Len(sent[s])
                /\ Room(emitted[s][i].overwritten, sent[s][emitted[s][i].n].call.size)

LEMMA SeqIsList ==
    ASSUME NEW S, NEW q \in Seq(S)
    PROVE  IsList(q)
  BY DEF IsList

LEMMA AppendToList ==
    ASSUME NEW q, IsList(q), NEW e
    PROVE  /\ IsList(Append(q, e))
           /\ Len(Append(q, e)) = Len(q) + 1
           /\ \A i \in 1 .. Len(q) : Append(q, e)[i] = q[i]
           /\ Append(q, e)[Len(q) + 1] = e
<1>. DEFINE S == {q[i] : i \in 1 .. Len(q)} \cup {e}
<1>1. q \in Seq(S)
  BY DEF IsList
<1>2. e \in S
  OBVIOUS
<1>. HIDE DEF S
<1>3. Append(q, e) \in Seq(S)
  BY <1>1, <1>2
<1>4. IsList(Append(q, e))
  BY <1>3, SeqIsList
<1>5. Len(Append(q, e)) = Len(q) + 1 /\ Append(q, e)[Len(q) + 1] = e
  BY <1>1, <1>2
<1>6. ASSUME NEW i \in 1 .. Len(q)
      PROVE  Append(q, e)[i] = q[i]
  BY <1>1, <1>2
<1>. QED
  BY <1>4, <1>5, <1>6

LEMMA EmitKeepsRoom ==
    ASSUME NEW z, FieldsOf(z), Progress(z), Room(z.overwritten, z.lDataPointer),
           NEW f, NEW header \in Nat, header <= Headroom, NEW len \in Nat
    PROVE  LET y == Emit(z, f, header, len)
           IN  Room(y.overwritten, y.lDataPointer)
<1>. DEFINE y == Emit(z, f, header, len)
            p == z.lDataPointer
<1>1. p \in Nat /\ Headroom \in Nat
  BY HeadroomAssumption DEF Progress
<1>2. y.lDataPointer = p + len
  BY EmitFields
<1>3. y.overwritten = z.overwritten \cup (p - header .. p - header + header - 1)
  BY DEF Emit, FieldsOf, HeaderAt
<1>4. z.overwritten \subseteq -Headroom .. p - 1
  BY DEF Room
<1>. HIDE DEF y, p
<1>5. -Headroom .. p - 1 \subseteq -Headroom .. p + len - 1
  BY <1>1
<1>6. (p - header .. p - header + header - 1) \subseteq -Headroom .. p + len - 1
  BY <1>1
<1>7. y.overwritten \subseteq -Headroom .. p + len - 1
  BY <1>3, <1>4, <1>5, <1>6
<1>8. y.overwritten \subseteq -Headroom .. y.lDataPointer - 1
  BY <1>1, <1>2, <1>7
<1>9. Room(y.overwritten, y.lDataPointer)
  BY <1>8 DEF Room
<1>. QED
  BY <1>9 DEF y

LEMMA HeaderSizes ==
    /\ SizeofType1 \in Nat /\ SizeofType1 <= Headroom
    /\ SizeofType2 \in Nat /\ SizeofType2 <= Headroom
  BY SenderAssumption, HeadroomAssumption

(***************************************************************************)
(* A step leaves what was sent and emitted before where it is.             *)
(***************************************************************************)
LEMMA RoomOfOneCall ==
    ASSUME RoomInv, NEW s \in Sources, NEW z, zeroCopy' = [zeroCopy EXCEPT ![s] = z],
           IInv, Room(z.overwritten, z.lDataPointer), UNCHANGED <<sent, emitted>>
    PROVE  RoomInv'
  BY DEF RoomInv, IInv, Functions, Idle

LEMMA RoomOfFinished ==
    ASSUME RoomInv, IInv, SenderTypeOK, NEW s \in Sources, NEW z, Finish(s, z),
           Room(z.overwritten, z.call.size), z.call \in Calls
    PROVE  RoomInv'
<1>. DEFINE e == [n |-> Id(s)[2], out |-> z.out, overwritten |-> z.overwritten]
            d == [call |-> z.call, sfn |-> mSuperFrameNoGenerator[s], at |-> 0]
<1>1. IsList(sent[s]) /\ IsList(emitted[s])
  BY SeqIsList DEF SenderTypeOK, RoomInv
<1>2. /\ sent' = [sent EXCEPT ![s] = Append(sent[s], d)]
      /\ emitted' = [emitted EXCEPT ![s] = Append(emitted[s], e)]
      /\ zeroCopy' = [zeroCopy EXCEPT ![s] = NoCall]
  BY DEF Finish
<1>3. e.n = Len(sent[s]) + 1 /\ e.overwritten = z.overwritten /\ d.call = z.call
  BY DEF Id
<1>. HIDE DEF e, d
<1>4. /\ \A t \in Sources \ {s} : sent'[t] = sent[t] /\ emitted'[t] = emitted[t]
                                   /\ zeroCopy'[t] = zeroCopy[t]
      /\ sent'[s] = Append(sent[s], d) /\ emitted'[s] = Append(emitted[s], e)
      /\ zeroCopy'[s] = NoCall
      /\ emitted' = [t \in Sources |-> emitted'[t]]
  BY <1>2 DEF IInv, Functions, RoomInv
<1>5. /\ Len(sent'[s]) = Len(sent[s]) + 1 /\ sent'[s][Len(sent[s]) + 1] = d
      /\ \A n \in 1 .. Len(sent[s]) : sent'[s][n] = sent[s][n]
      /\ IsList(emitted'[s]) /\ Len(emitted'[s]) = Len(emitted[s]) + 1
      /\ emitted'[s][Len(emitted[s]) + 1] = e
      /\ \A i \in 1 .. Len(emitted[s]) : emitted'[s][i] = emitted[s][i]
  BY <1>1, <1>4, AppendToList
<1>6. ASSUME NEW i \in 1 .. Len(emitted'[s])
      PROVE  /\ emitted'[s][i].n \in 1 .. Len(sent'[s])
             /\ Room(emitted'[s][i].overwritten, sent'[s][emitted'[s][i].n].call.size)
  <2>1. Len(emitted[s]) \in Nat /\ Len(sent[s]) \in Nat
    BY <1>1 DEF IsList
  <2>2. CASE i \in 1 .. Len(emitted[s])
    <3>1. /\ emitted[s][i].n \in 1 .. Len(sent[s])
          /\ Room(emitted[s][i].overwritten, sent[s][emitted[s][i].n].call.size)
      BY <2>2 DEF RoomInv
    <3>2. emitted'[s][i] = emitted[s][i]
      BY <2>2, <1>5
    <3>3. sent'[s][emitted[s][i].n] = sent[s][emitted[s][i].n]
      BY <3>1, <1>5
    <3>4. emitted[s][i].n \in 1 .. Len(sent'[s])
      BY <3>1, <2>1, <1>5
    <3>. QED
      BY <3>1, <3>2, <3>3, <3>4
  <2>3. CASE i = Len(emitted[s]) + 1
    BY <2>1, <2>3, <1>3, <1>5
  <2>. QED
    BY <2>1, <2>2, <2>3, <1>5
<1>7. ASSUME NEW t \in Sources
      PROVE  /\ IsList(emitted'[t])
             /\ ~Idle(t)' => Room(zeroCopy'[t].overwritten, zeroCopy'[t].lDataPointer)
             /\ \A i \in 1 .. Len(emitted'[t]) :
                   /\ emitted'[t][i].n \in 1 .. Len(sent'[t])
                   /\ Room(emitted'[t][i].overwritten, sent'[t][emitted'[t][i].n].call.size)
  <2>1. CASE t = s
    BY <2>1, <1>4, <1>5, <1>6 DEF Idle
  <2>2. CASE t # s
    BY <2>2, <1>4 DEF RoomInv, Idle
  <2>. QED
    BY <2>1, <2>2
<1>. QED
  BY <1>4, <1>7 DEF RoomInv

LEMMA RoomOfOthers ==
    ASSUME RoomInv, IInv, SenderTypeOK, NEW s \in Sources, Idle(s), UNCHANGED zeroCopyVars,
           \/ \E n \in StartNumbers : SetSuperFrameNo(s, n)
           \/ \E c \in Calls : PackAndSendRejected(s, c)
           \/ \E c \in Calls : PackAndSendAccepted(s, c, 0)
    PROVE  RoomInv'
<1>1. IsList(sent[s])
  BY SeqIsList DEF SenderTypeOK
<1>2. CASE UNCHANGED sent
  BY <1>2 DEF RoomInv, zeroCopyVars, Idle
<1>3. CASE \E d : sent' = [sent EXCEPT ![s] = Append(sent[s], d)]
  <2>. PICK d : sent' = [sent EXCEPT ![s] = Append(sent[s], d)]
    BY <1>3
  <2>1. /\ \A t \in Sources \ {s} : sent'[t] = sent[t]
        /\ sent'[s] = Append(sent[s], d)
    BY DEF IInv, Functions
  <2>2. /\ Len(sent'[s]) = Len(sent[s]) + 1 /\ Len(sent[s]) \in Nat
        /\ \A n \in 1 .. Len(sent[s]) : sent'[s][n] = sent[s][n]
    BY <2>1, <1>1, AppendToList DEF IsList
  <2>3. \A t \in Sources : \A n \in 1 .. Len(sent[t]) :
            n \in 1 .. Len(sent'[t]) /\ sent'[t][n] = sent[t][n]
    BY <2>1, <2>2
  <2>4. zeroCopy' = zeroCopy /\ emitted' = emitted
    BY DEF zeroCopyVars
  <2>. QED
    BY <2>3, <2>4 DEF RoomInv, Idle
<1>. QED
  BY <1>2, <1>3 DEF SetSuperFrameNo, PackAndSendRejected, PackAndSendAccepted

LEMMA StepKeepsRoom ==
    ASSUME RoomInv, IInv, SenderTypeOK, [ZeroCopyNext]_allVars
    PROVE  RoomInv'
<1>1. CASE UNCHANGED allVars
  BY <1>1 DEF allVars, zeroCopyVars, senderVars, RoomInv, Idle
<1>2. CASE ZeroCopyNext
  <2>. PICK s \in Sources :
          \/ \E c \in Calls : Begin(s, c)
          \/ SendType1(s) \/ SendType3(s) \/ SendOnlyType2(s) \/ SendClosingType2(s)
          \/ /\ Idle(s)
             /\ \/ \E n \in StartNumbers : SetSuperFrameNo(s, n)
                \/ \E c \in Calls : PackAndSendRejected(s, c)
                \/ \E c \in Calls : PackAndSendAccepted(s, c, 0)
             /\ UNCHANGED zeroCopyVars
    BY <1>2 DEF ZeroCopyNext
  <2>. DEFINE z == zeroCopy[s]
              c == z.call
  <2>0. ~Idle(s) => /\ FieldsOf(z) /\ Progress(z) /\ Room(z.overwritten, z.lDataPointer)
                    /\ c \in Calls /\ c.size \in Nat /\ c.size <= LargestPacket
                    /\ z.lDataPointer \in Nat
    BY InCall, CallFits DEF RoomInv, Progress
  <2>1. CASE \E b \in Calls : Begin(s, b)
    <3>. PICK b \in Calls : Begin(s, b)
      BY <2>1
    <3>. DEFINE y == [call |-> b, lFragmentNo |-> 0, lDataPointer |-> 0, type3Sent |-> FALSE,
                      overwritten |-> {}, out |-> <<>>]
    <3>1. zeroCopy' = [zeroCopy EXCEPT ![s] = y] /\ UNCHANGED <<sent, emitted>>
      BY DEF Begin, senderVars
    <3>2. Room(y.overwritten, y.lDataPointer)
      BY DEF Room
    <3>. HIDE DEF y
    <3>. QED
      BY <3>1, <3>2, RoomOfOneCall
  <2>2. CASE SendType1(s)
    <3>. DEFINE f == Type1Fragment(Id(s), z.call, mSuperFrameNoGenerator[s], z.lFragmentNo)
                x == Emit(z, f, SizeofType1, DataPayloadType1)
                y == [x EXCEPT !.lFragmentNo = (z.lFragmentNo + 1) % U16Mod]
    <3>1. zeroCopy' = [zeroCopy EXCEPT ![s] = y] /\ UNCHANGED <<sent, emitted>> /\ ~Idle(s)
      BY <2>2 DEF SendType1, senderVars
    <3>. HIDE DEF z, f
    <3>2. FieldsOf(x) /\ Room(x.overwritten, x.lDataPointer)
      BY <3>1, <2>0, HeaderSizes, PayloadSizes, EmitFields, EmitKeepsRoom
    <3>. HIDE DEF x
    <3>3. Room(y.overwritten, y.lDataPointer)
      BY <3>2 DEF FieldsOf
    <3>. HIDE DEF y
    <3>. QED
      BY <3>1, <3>3, RoomOfOneCall
  <2>3. CASE SendType3(s)
    <3>. DEFINE f == Type3Fragment(Id(s), z.call, mSuperFrameNoGenerator[s])
                x == Emit(z, f, SizeofType1, ReminderData(z.call.size))
                y == [x EXCEPT !.lFragmentNo = (z.lFragmentNo + 1) % U16Mod, !.type3Sent = TRUE]
    <3>1. ~Idle(s) /\ Type3Due(z)
      BY <2>3 DEF SendType3
    <3>2. x.lDataPointer = z.call.size
      <4>. HIDE DEF f, z
      <4>. QED
        BY <3>1, <2>0, Type3Pointer
    <3>3. zeroCopy' = [zeroCopy EXCEPT ![s] = y] /\ UNCHANGED <<sent, emitted>>
      BY <2>3, <3>2 DEF SendType3, senderVars
    <3>. HIDE DEF z, f
    <3>4. FieldsOf(x) /\ Room(x.overwritten, x.lDataPointer)
      BY <3>1, <2>0, HeaderSizes, CountOfType1, EmitFields, EmitKeepsRoom
    <3>. HIDE DEF x
    <3>5. Room(y.overwritten, y.lDataPointer)
      BY <3>4 DEF FieldsOf
    <3>. HIDE DEF y
    <3>. QED
      BY <3>3, <3>5, RoomOfOneCall
  <2>4. CASE SendOnlyType2(s)
    <3>. DEFINE f == Type2Fragment(Id(s), z.call, mSuperFrameNoGenerator[s], 0, z.call.size, 0)
                y == Emit(z, f, SizeofType2, z.call.size)
    <3>1. ~Idle(s) /\ FitsType2(z.call.size) /\ Finish(s, y)
      BY <2>4 DEF SendOnlyType2
    <3>. HIDE DEF z, f
    <3>2. y.call = z.call /\ y.lDataPointer = z.lDataPointer + z.call.size
          /\ Room(y.overwritten, y.lDataPointer)
      BY <3>1, <2>0, HeaderSizes, EmitFields, EmitKeepsRoom
    <3>3. z.lDataPointer = 0
      BY <3>1, <2>0 DEF Progress
    <3>. HIDE DEF y
    <3>. QED
      BY <3>1, <3>2, <3>3, <2>0, RoomOfFinished
  <2>5. CASE SendClosingType2(s)
    <3>. DEFINE f == Type2Fragment(Id(s), z.call, mSuperFrameNoGenerator[s],
                                   OfFragmentNo(z.call.size), DataPayloadType1, z.lDataPointer)
                left == z.call.size - z.lDataPointer
                y == Emit(z, f, SizeofType2, left)
    <3>1. ~Idle(s) /\ ~Miscalculated(z) /\ z.lDataPointer <= z.call.size
      BY <2>5, <2>0, NeverMiscalculated DEF SendClosingType2
    <3>2. Finish(s, y)
      BY <2>5, <3>1 DEF SendClosingType2
    <3>. HIDE DEF z, f
    <3>3. left \in Nat /\ z.lDataPointer + left = z.call.size
      BY <3>1, <2>0
    <3>. HIDE DEF left
    <3>4. y.call = z.call /\ y.lDataPointer = z.lDataPointer + left
          /\ Room(y.overwritten, y.lDataPointer)
      BY <3>1, <3>3, <2>0, HeaderSizes, EmitFields, EmitKeepsRoom
    <3>. HIDE DEF y
    <3>. QED
      BY <3>1, <3>2, <3>3, <3>4, <2>0, RoomOfFinished
  <2>6. CASE /\ Idle(s)
             /\ \/ \E n \in StartNumbers : SetSuperFrameNo(s, n)
                \/ \E b \in Calls : PackAndSendRejected(s, b)
                \/ \E b \in Calls : PackAndSendAccepted(s, b, 0)
             /\ UNCHANGED zeroCopyVars
    BY <2>6, RoomOfOthers
  <2>. QED
    BY <2>1, <2>2, <2>3, <2>4, <2>5, <2>6
<1>. QED
  BY <1>1, <1>2

LEMMA RoomInvInit ==
    ASSUME ZeroCopyInit
    PROVE  RoomInv
  BY DEF ZeroCopyInit, RoomInv, IsList, Idle

(* The zero-copy sender writes its headers only into the room before the   *)
(* packet and over bytes it has sent, for every MTU, header sizes, packet  *)
(* and room at least as long as a type2 header; never behind the packet    *)
(* and never over bytes still to be sent.                                  *)
THEOREM HeadersInTheirRoomAlways == ZeroCopySpec => []HeadersInTheirRoom
<1>1. ZeroCopyInit => IInv /\ RoomInv
  BY InitInvariant, RoomInvInit
<1>2. IInv /\ [ZeroCopyNext]_allVars => IInv'
  BY StepKeepsInvariant
<1>3. RoomInv /\ IInv /\ SenderTypeOK /\ [ZeroCopyNext]_allVars => RoomInv'
  BY StepKeepsRoom
<1>4. ZeroCopySpec => []SenderTypeOK
  BY ZeroCopySpecIsSender, SenderTypeOKAlways, PTL DEF IsSender
<1>5. RoomInv => HeadersInTheirRoom
  BY DEF RoomInv, Room, HeadersInTheirRoom
<1>. QED
  BY <1>1, <1>2, <1>3, <1>4, <1>5, PTL DEF ZeroCopySpec

(***************************************************************************)
(* What rSendFunction was given.  The j-th list of bytes is the fragment   *)
(* at position j - 1, and no header lies in it.                            *)
(***************************************************************************)
Clean(f) == [fragment |-> f, polluted |-> {}]

OutOf(out, id, c, sfn) ==
    /\ IsList(out)
    /\ \A j \in 1 .. Len(out) : out[j] = Clean(FragmentAt(id, c, sfn, j - 1))

(* So far in the call in progress. *)
OutSoFar(s) ==
    ~Idle(s) => /\ OutOf(zeroCopy[s].out, Id(s), zeroCopy[s].call, mSuperFrameNoGenerator[s])
                /\ Len(zeroCopy[s].out) = zeroCopy[s].lFragmentNo

(* In a superframe that is done: m is what was sent, e what was emitted. *)
AllOut(s, e, m) ==
    /\ OutOf(e.out, <<s, e.n>>, m.call, m.sfn)
    /\ Len(e.out) = LastFragmentNo(m.call.size) + 1

OutInv ==
    \A s \in Sources :
        /\ OutSoFar(s)
        /\ \A i \in 1 .. Len(emitted[s]) :
              AllOut(s, emitted[s][i], sent[s][emitted[s][i].n])

(* A fragment whose place is known is not changed by Emit.                 *)
Placed(f, off, len) ==
    f = [x \in DOMAIN f |-> f[x]] /\ f.off = off /\ f.len = len

LEMMA PlacedStays ==
    ASSUME NEW f, NEW off, NEW len, Placed(f, off, len)
    PROVE  [f EXCEPT !.off = off, !.len = len] = f
  BY DEF Placed

LEMMA EmitOut ==
    ASSUME NEW z, FieldsOf(z), Progress(z), Room(z.overwritten, z.lDataPointer),
           NEW header \in Nat, NEW len \in Nat, NEW f,
           Placed(f, z.lDataPointer, len)
    PROVE  Emit(z, f, header, len).out = Append(z.out, Clean(f))
<1>. DEFINE p == z.lDataPointer
            o == z.overwritten \cup (p - header .. p - header + header - 1)
            read == p - header + header .. p - header + header + len - 1
<1>1. p \in Nat /\ Headroom \in Nat
  BY HeadroomAssumption DEF Progress
<1>2. z.overwritten \subseteq -Headroom .. p - 1
  BY DEF Room
<1>. HIDE DEF p
<1>3. p - header + header = p
  BY <1>1
<1>4. read \cap o = {}
  BY <1>1, <1>2
<1>5. Emit(z, f, header, len).out
        = Append(z.out, [fragment |-> [f EXCEPT !.off = p - header + header, !.len = len],
                         polluted |-> read \cap o])
  BY DEF Emit, FieldsOf, HeaderAt, p
<1>6. [f EXCEPT !.off = p, !.len = len] = f
  BY PlacedStays DEF p
<1>. QED
  BY <1>3, <1>4, <1>5, <1>6 DEF Clean

LEMMA OutGrows ==
    ASSUME NEW out, NEW id, NEW c, NEW sfn, OutOf(out, id, c, sfn),
           NEW f, f = FragmentAt(id, c, sfn, Len(out))
    PROVE  /\ OutOf(Append(out, Clean(f)), id, c, sfn)
           /\ Len(Append(out, Clean(f))) = Len(out) + 1
<1>1. Len(out) \in Nat /\ IsList(out)
  BY DEF OutOf, IsList
<1>. DEFINE e == Clean(f)
            q == Append(out, e)
<1>2. /\ IsList(q) /\ Len(q) = Len(out) + 1
      /\ \A i \in 1 .. Len(out) : q[i] = out[i]
      /\ q[Len(out) + 1] = e
  BY <1>1, AppendToList
<1>. HIDE DEF q
<1>3. ASSUME NEW j \in 1 .. Len(q)
      PROVE  q[j] = Clean(FragmentAt(id, c, sfn, j - 1))
  <2>1. CASE j = Len(out) + 1
    <3>1. j - 1 = Len(out)
      BY <1>1, <2>1
    <3>. QED
      BY <2>1, <3>1, <1>2
  <2>2. CASE j # Len(out) + 1
    BY <2>2, <1>1, <1>2 DEF OutOf
  <2>. QED
    BY <2>1, <2>2
<1>4. OutOf(q, id, c, sfn)
  BY <1>2, <1>3 DEF OutOf
<1>. QED
  BY <1>2, <1>4 DEF q

(***************************************************************************)
(* Each fragment that is emitted is the one at its position.               *)
(***************************************************************************)
LEMMA Type1Emitted ==
    ASSUME NEW z, FieldsOf(z), Progress(z), InLoop(z), NEW id, NEW sfn,
           NEW f, f = Type1Fragment(id, z.call, sfn, z.lFragmentNo)
    PROVE  /\ f = FragmentAt(id, z.call, sfn, z.lFragmentNo)
           /\ Placed(f, z.lDataPointer, DataPayloadType1)
<1>1. z.call \in Calls /\ PackMessage(z.call) = "noError" /\ z.lFragmentNo \in Nat
  BY DEF Progress
<1>2. OfFragmentNoType1(z.call.size) \in Nat
  BY <1>1, CallFits, CountOfType1
<1>3. ~FitsType2(z.call.size) /\ z.lFragmentNo < OfFragmentNoType1(z.call.size)
  BY DEF InLoop
<1>4. z.lDataPointer = z.lFragmentNo * DataPayloadType1
  BY <1>1, <1>2, <1>3 DEF Progress
<1>. QED
  BY <1>3, <1>4 DEF FragmentAt, Type1Fragment, Placed

LEMMA Type3Emitted ==
    ASSUME NEW z, FieldsOf(z), Progress(z), Type3Due(z), NEW id, NEW sfn,
           NEW f, f = Type3Fragment(id, z.call, sfn)
    PROVE  /\ f = FragmentAt(id, z.call, sfn, z.lFragmentNo)
           /\ Placed(f, z.lDataPointer, ReminderData(z.call.size))
<1>. DEFINE size == z.call.size
            n == OfFragmentNoType1(size)
<1>1. z.call \in Calls /\ PackMessage(z.call) = "noError" /\ z.lFragmentNo \in Nat
  BY DEF Progress
<1>2. size \in Nat /\ size <= LargestPacket
  BY <1>1, CallFits
<1>3. ~FitsType2(size) /\ Type3Needed(size) /\ ~z.type3Sent /\ ~(z.lFragmentNo < n)
  BY DEF Type3Due, InLoop
<1>4. n \in Nat /\ OfFragmentNo(size) = n + 1
  BY <1>2, <1>3, Cut
<1>5. z.lFragmentNo = n /\ z.lDataPointer = n * DataPayloadType1
  BY <1>1, <1>3, <1>4 DEF Progress
<1>6. FragmentAt(id, z.call, sfn, n) = f
  BY <1>3, <1>4 DEF FragmentAt
<1>7. Placed(f, n * DataPayloadType1, ReminderData(size))
  BY DEF Type3Fragment, Placed
<1>. QED
  BY <1>5, <1>6, <1>7

LEMMA OnlyType2Emitted ==
    ASSUME NEW z, FieldsOf(z), Progress(z), FitsType2(z.call.size), NEW id, NEW sfn,
           NEW f, f = Type2Fragment(id, z.call, sfn, 0, z.call.size, 0)
    PROVE  /\ f = FragmentAt(id, z.call, sfn, z.lFragmentNo)
           /\ Placed(f, z.lDataPointer, z.call.size)
           /\ z.lFragmentNo = LastFragmentNo(z.call.size)
<1>1. z.lFragmentNo = 0 /\ z.lDataPointer = 0 /\ z.call \in Calls
  BY DEF Progress
<1>2. z.call.size \in Nat
  BY <1>1, CallsAssumption
<1>3. f = FragmentAt(id, z.call, sfn, 0)
  BY DEF FragmentAt
<1>4. z.call.size - 0 = z.call.size
  BY <1>2
<1>5. Placed(f, 0, z.call.size)
  BY <1>4 DEF Type2Fragment, Placed
<1>. QED
  BY <1>1, <1>3, <1>5 DEF LastFragmentNo

LEMMA ClosingType2Emitted ==
    ASSUME NEW z, FieldsOf(z), Progress(z), ~FitsType2(z.call.size), ~InLoop(z), ~Type3Due(z),
           NEW id, NEW sfn,
           NEW f, f = Type2Fragment(id, z.call, sfn, OfFragmentNo(z.call.size),
                                    DataPayloadType1, z.lDataPointer)
    PROVE  /\ f = FragmentAt(id, z.call, sfn, z.lFragmentNo)
           /\ Placed(f, z.lDataPointer, z.call.size - z.lDataPointer)
           /\ z.lFragmentNo = LastFragmentNo(z.call.size)
<1>. DEFINE size == z.call.size
            n == OfFragmentNoType1(size)
            r == ReminderData(size)
            np == n * DataPayloadType1
            of == OfFragmentNo(size)
<1>1. z.call \in Calls /\ PackMessage(z.call) = "noError" /\ z.lFragmentNo \in Nat
      /\ z.type3Sent \in BOOLEAN
  BY DEF Progress
<1>2. size \in Nat /\ size <= LargestPacket
  BY <1>1, CallFits
<1>3. /\ n \in Nat /\ r \in Nat /\ np \in Nat /\ of \in Nat /\ size = np + r
      /\ of = n + (IF Type3Needed(size) THEN 1 ELSE 0)
      /\ DataPointerAtEnd(size) = np + (IF Type3Needed(size) THEN r ELSE 0)
  BY <1>2, Cut
<1>4. z.lFragmentNo = of /\ z.lDataPointer = DataPointerAtEnd(size)
  <2>1. CASE z.type3Sent
    <3>1. Type3Needed(size) /\ z.lFragmentNo = n + 1 /\ z.lDataPointer = size
      BY <2>1 DEF Progress
    <3>. HIDE DEF n, r, np, of, size
    <3>. QED
      BY <3>1, <1>2, <1>3
  <2>2. CASE ~z.type3Sent
    <3>1. ~Type3Needed(size) /\ ~(z.lFragmentNo < n)
      BY <2>2 DEF Type3Due, InLoop
    <3>2. z.lFragmentNo <= n /\ z.lDataPointer = z.lFragmentNo * DataPayloadType1
      BY <2>2 DEF Progress
    <3>3. z.lFragmentNo = n /\ z.lDataPointer = np
      BY <3>1, <3>2, <1>1, <1>3
    <3>. HIDE DEF n, r, np, of, size
    <3>. QED
      BY <3>1, <3>3, <1>3
  <2>. QED
    BY <1>1, <2>1, <2>2
<1>5. f = FragmentAt(id, z.call, sfn, of)
  BY <1>3, <1>4 DEF FragmentAt
<1>6. Placed(f, z.lDataPointer, z.call.size - z.lDataPointer)
  BY DEF Type2Fragment, Placed
<1>. QED
  BY <1>4, <1>5, <1>6 DEF LastFragmentNo

(***************************************************************************)
(* A step leaves what was given to rSendFunction before as it was.         *)
(***************************************************************************)
LEMMA OutOfOneCall ==
    ASSUME OutInv, IInv, NEW s \in Sources, NEW z, zeroCopy' = [zeroCopy EXCEPT ![s] = z],
           OutOf(z.out, Id(s), z.call, mSuperFrameNoGenerator[s]),
           Len(z.out) = z.lFragmentNo, UNCHANGED <<senderVars, emitted>>
    PROVE  OutInv'
  BY DEF OutInv, OutSoFar, AllOut, IInv, Functions, Idle, senderVars, Id

LEMMA OutOfFinished ==
    ASSUME OutInv, RoomInv, IInv, SenderTypeOK, NEW s \in Sources, NEW z, Finish(s, z),
           OutOf(z.out, Id(s), z.call, mSuperFrameNoGenerator[s]),
           Len(z.out) = LastFragmentNo(z.call.size) + 1
    PROVE  OutInv'
<1>. DEFINE e == [n |-> Id(s)[2], out |-> z.out, overwritten |-> z.overwritten]
            d == [call |-> z.call, sfn |-> mSuperFrameNoGenerator[s], at |-> 0]
<1>1. IsList(sent[s]) /\ IsList(emitted[s])
  BY SeqIsList DEF SenderTypeOK, RoomInv
<1>2. /\ sent' = [sent EXCEPT ![s] = Append(sent[s], d)]
      /\ emitted' = [emitted EXCEPT ![s] = Append(emitted[s], e)]
      /\ zeroCopy' = [zeroCopy EXCEPT ![s] = NoCall]
      /\ mSuperFrameNoGenerator'
            = [mSuperFrameNoGenerator EXCEPT ![s] = (mSuperFrameNoGenerator[s] + 1) % U16Mod]
  BY DEF Finish
<1>3. e.n = Len(sent[s]) + 1 /\ e.out = z.out /\ d.call = z.call
      /\ d.sfn = mSuperFrameNoGenerator[s] /\ Id(s) = <<s, e.n>>
  BY DEF Id
<1>. HIDE DEF e, d
<1>4. /\ \A t \in Sources \ {s} :
            /\ sent'[t] = sent[t] /\ emitted'[t] = emitted[t] /\ zeroCopy'[t] = zeroCopy[t]
            /\ mSuperFrameNoGenerator'[t] = mSuperFrameNoGenerator[t]
      /\ sent'[s] = Append(sent[s], d) /\ emitted'[s] = Append(emitted[s], e)
      /\ zeroCopy'[s] = NoCall
  BY <1>2 DEF IInv, Functions, RoomInv, SenderTypeOK
<1>5. /\ Len(sent'[s]) = Len(sent[s]) + 1 /\ sent'[s][Len(sent[s]) + 1] = d
      /\ \A n \in 1 .. Len(sent[s]) : sent'[s][n] = sent[s][n]
      /\ Len(emitted'[s]) = Len(emitted[s]) + 1
      /\ emitted'[s][Len(emitted[s]) + 1] = e
      /\ \A i \in 1 .. Len(emitted[s]) : emitted'[s][i] = emitted[s][i]
  BY <1>1, <1>4, AppendToList
<1>6. ASSUME NEW i \in 1 .. Len(emitted'[s])
      PROVE  AllOut(s, emitted'[s][i], sent'[s][emitted'[s][i].n])
  <2>1. Len(emitted[s]) \in Nat /\ Len(sent[s]) \in Nat
    BY <1>1 DEF IsList
  <2>2. CASE i \in 1 .. Len(emitted[s])
    <3>1. AllOut(s, emitted[s][i], sent[s][emitted[s][i].n])
      BY <2>2 DEF OutInv
    <3>2. emitted[s][i].n \in 1 .. Len(sent[s])
      BY <2>2 DEF RoomInv
    <3>3. emitted'[s][i] = emitted[s][i]
          /\ sent'[s][emitted[s][i].n] = sent[s][emitted[s][i].n]
      BY <2>2, <3>2, <1>5
    <3>. QED
      BY <3>1, <3>3
  <2>3. CASE i = Len(emitted[s]) + 1
    <3>1. emitted'[s][i] = e /\ sent'[s][e.n] = d
      BY <2>3, <1>3, <1>5
    <3>2. AllOut(s, e, d)
      BY <1>3 DEF AllOut
    <3>. QED
      BY <3>1, <3>2
  <2>. QED
    BY <2>1, <2>2, <2>3, <1>5
<1>7. \A t \in Sources \ {s} : OutSoFar(t)'
  BY <1>4 DEF OutInv, OutSoFar, Idle, Id
<1>8. \A t \in Sources \ {s} : \A i \in 1 .. Len(emitted'[t]) :
          AllOut(t, emitted'[t][i], sent'[t][emitted'[t][i].n])
  BY <1>4 DEF OutInv
<1>9. OutSoFar(s)'
  BY <1>4 DEF Idle, OutSoFar
<1>10. \A t \in Sources : \A i \in 1 .. Len(emitted'[t]) :
          AllOut(t, emitted'[t][i], sent'[t][emitted'[t][i].n])
  BY <1>6, <1>8
<1>11. \A t \in Sources : OutSoFar(t)'
  BY <1>7, <1>9
<1>12. ASSUME NEW t \in Sources
       PROVE  (/\ OutSoFar(t)
               /\ \A i \in 1 .. Len(emitted[t]) :
                     AllOut(t, emitted[t][i], sent[t][emitted[t][i].n]))'
  BY <1>10, <1>11 DEF AllOut
<1>. QED
  BY <1>12 DEF OutInv

LEMMA OutOfOthers ==
    ASSUME OutInv, RoomInv, IInv, SenderTypeOK, NEW s \in Sources, Idle(s),
           UNCHANGED zeroCopyVars,
           \/ \E n \in StartNumbers : SetSuperFrameNo(s, n)
           \/ \E c \in Calls : PackAndSendRejected(s, c)
           \/ \E c \in Calls : PackAndSendAccepted(s, c, 0)
    PROVE  OutInv'
<1>1. IsList(sent[s])
  BY SeqIsList DEF SenderTypeOK
<1>2. zeroCopy' = zeroCopy /\ emitted' = emitted
  BY DEF zeroCopyVars
<1>3. \A t \in Sources \ {s} : mSuperFrameNoGenerator'[t] = mSuperFrameNoGenerator[t]
                                 /\ sent'[t] = sent[t]
  BY DEF IInv, Functions, SenderTypeOK, SetSuperFrameNo, PackAndSendRejected,
         PackAndSendAccepted
<1>4. \A n \in 1 .. Len(sent[s]) : sent'[s][n] = sent[s][n]
  <2>1. CASE UNCHANGED sent
    BY <2>1
  <2>2. CASE \E d : sent' = [sent EXCEPT ![s] = Append(sent[s], d)]
    <3>. PICK d : sent' = [sent EXCEPT ![s] = Append(sent[s], d)]
      BY <2>2
    <3>1. sent'[s] = Append(sent[s], d)
      BY DEF IInv, Functions
    <3>. QED
      BY <3>1, <1>1, AppendToList
  <2>. QED
    BY <2>1, <2>2 DEF SetSuperFrameNo, PackAndSendRejected, PackAndSendAccepted
<1>5. \A t \in Sources : \A i \in 1 .. Len(emitted[t]) :
          sent'[t][emitted[t][i].n] = sent[t][emitted[t][i].n]
  BY <1>3, <1>4 DEF RoomInv
<1>6. \A t \in Sources : ~Idle(t)' => ~Idle(t) /\ t # s
  BY <1>2 DEF Idle
<1>7. \A t \in Sources \ {s} : Id(t)' = Id(t)
  BY <1>3 DEF Id
<1>8. \A t \in Sources : OutSoFar(t)'
  BY <1>2, <1>3, <1>6, <1>7 DEF OutInv, OutSoFar
<1>9. ASSUME NEW t \in Sources, NEW i \in 1 .. Len(emitted'[t])
      PROVE  AllOut(t, emitted[t][i], sent[t][emitted[t][i].n])'
  BY <1>2, <1>5 DEF OutInv, AllOut
<1>. QED
  BY <1>8, <1>9 DEF OutInv

LEMMA StepKeepsOut ==
    ASSUME OutInv, RoomInv, IInv, SenderTypeOK, [ZeroCopyNext]_allVars
    PROVE  OutInv'
<1>1. CASE UNCHANGED allVars
  BY <1>1 DEF allVars, zeroCopyVars, senderVars, OutInv, OutSoFar, AllOut, Idle, Id
<1>2. CASE ZeroCopyNext
  <2>. PICK s \in Sources :
          \/ \E c \in Calls : Begin(s, c)
          \/ SendType1(s) \/ SendType3(s) \/ SendOnlyType2(s) \/ SendClosingType2(s)
          \/ /\ Idle(s)
             /\ \/ \E n \in StartNumbers : SetSuperFrameNo(s, n)
                \/ \E c \in Calls : PackAndSendRejected(s, c)
                \/ \E c \in Calls : PackAndSendAccepted(s, c, 0)
             /\ UNCHANGED zeroCopyVars
    BY <1>2 DEF ZeroCopyNext
  <2>. DEFINE z == zeroCopy[s]
              c == z.call
              g == mSuperFrameNoGenerator[s]
  <2>0. ~Idle(s) => /\ FieldsOf(z) /\ Progress(z) /\ Room(z.overwritten, z.lDataPointer)
                    /\ c \in Calls /\ c.size \in Nat /\ c.size <= LargestPacket
                    /\ z.lDataPointer \in Nat /\ z.lFragmentNo \in Nat
                    /\ OutOf(z.out, Id(s), c, g) /\ Len(z.out) = z.lFragmentNo
    BY InCall, CallFits DEF RoomInv, Progress, OutInv, OutSoFar
  <2>1. CASE \E b \in Calls : Begin(s, b)
    <3>. PICK b \in Calls : Begin(s, b)
      BY <2>1
    <3>. DEFINE y == [call |-> b, lFragmentNo |-> 0, lDataPointer |-> 0, type3Sent |-> FALSE,
                      overwritten |-> {}, out |-> <<>>]
    <3>1. zeroCopy' = [zeroCopy EXCEPT ![s] = y] /\ UNCHANGED <<senderVars, emitted>>
      BY DEF Begin
    <3>2. OutOf(y.out, Id(s), y.call, g) /\ Len(y.out) = y.lFragmentNo
      BY DEF OutOf, IsList
    <3>. HIDE DEF y
    <3>. QED
      BY <3>1, <3>2, OutOfOneCall
  <2>2. CASE SendType1(s)
    <3>. DEFINE f == Type1Fragment(Id(s), z.call, g, z.lFragmentNo)
                x == Emit(z, f, SizeofType1, DataPayloadType1)
                y == [x EXCEPT !.lFragmentNo = (z.lFragmentNo + 1) % U16Mod]
    <3>1. /\ zeroCopy' = [zeroCopy EXCEPT ![s] = y] /\ UNCHANGED <<senderVars, emitted>>
          /\ ~Idle(s) /\ InLoop(z)
      BY <2>2 DEF SendType1
    <3>2. FieldsOf(y) /\ Progress(y)
      <4>. HIDE DEF f, z
      <4>. QED
        BY <3>1, <2>0, Type1Progress
    <3>3. /\ f = FragmentAt(Id(s), c, g, z.lFragmentNo)
          /\ Placed(f, z.lDataPointer, DataPayloadType1)
      <4>. HIDE DEF z
      <4>. QED
        BY <3>1, <2>0, Type1Emitted
    <3>. HIDE DEF z, f, g
    <3>4. x.out = Append(z.out, Clean(f)) /\ FieldsOf(x) /\ x.call = z.call
      BY <3>1, <3>3, <2>0, HeaderSizes, PayloadSizes, EmitOut, EmitFields
    <3>. HIDE DEF x
    <3>5. y.out = x.out /\ y.call = c /\ y.lFragmentNo = (z.lFragmentNo + 1) % U16Mod
      BY <3>4 DEF FieldsOf
    <3>6. y.lFragmentNo = z.lFragmentNo + 1
      <4>1. z.lFragmentNo + 1 < U16Mod
        <5>1. OfFragmentNoType1(c.size) < U16Max /\ OfFragmentNoType1(c.size) \in Nat
          BY <3>1, <2>0, CountOfType1
        <5>. QED
          BY <5>1, <3>1, <2>0, WidthsAssumption DEF InLoop, U16Max
      <4>2. z.lFragmentNo + 1 = U16Mod * 0 + (z.lFragmentNo + 1)
            /\ z.lFragmentNo + 1 \in Nat /\ U16Mod \in Nat /\ U16Mod > 0
        BY <3>1, <2>0, WidthsAssumption
      <4>. QED
        BY <4>1, <4>2, <3>5, ModIs
    <3>7. /\ OutOf(Append(z.out, Clean(f)), Id(s), c, g)
          /\ Len(Append(z.out, Clean(f))) = z.lFragmentNo + 1
      <4>1. OutOf(z.out, Id(s), c, g) /\ Len(z.out) = z.lFragmentNo
        BY <3>1, <2>0
      <4>2. f = FragmentAt(Id(s), c, g, Len(z.out))
        BY <4>1, <3>3
      <4>. QED
        BY <4>1, <4>2, OutGrows
    <3>. HIDE DEF y
    <3>8. OutOf(y.out, Id(s), y.call, g) /\ Len(y.out) = y.lFragmentNo
      BY <3>4, <3>5, <3>6, <3>7
    <3>. QED
      BY <3>1, <3>8, OutOfOneCall DEF g
  <2>3. CASE SendType3(s)
    <3>. DEFINE f == Type3Fragment(Id(s), z.call, g)
                x == Emit(z, f, SizeofType1, ReminderData(z.call.size))
                y == [x EXCEPT !.lFragmentNo = (z.lFragmentNo + 1) % U16Mod, !.type3Sent = TRUE]
    <3>1. ~Idle(s) /\ Type3Due(z)
      BY <2>3 DEF SendType3
    <3>2. x.lDataPointer = z.call.size
      <4>. HIDE DEF f, z
      <4>. QED
        BY <3>1, <2>0, Type3Pointer
    <3>3. zeroCopy' = [zeroCopy EXCEPT ![s] = y] /\ UNCHANGED <<senderVars, emitted>>
      BY <2>3, <3>2 DEF SendType3
    <3>4. /\ f = FragmentAt(Id(s), c, g, z.lFragmentNo)
          /\ Placed(f, z.lDataPointer, ReminderData(z.call.size))
      <4>. HIDE DEF z
      <4>. QED
        BY <3>1, <2>0, Type3Emitted
    <3>5. y.lFragmentNo = z.lFragmentNo + 1
      <4>. HIDE DEF f, z
      <4>1. FieldsOf(y) /\ Progress(y) /\ y.type3Sent = TRUE /\ y.call = c
        <5>1. FieldsOf(y) /\ Progress(y)
          BY <3>1, <2>0, Type3Progress
        <5>2. FieldsOf(x) /\ x.call = c
          BY <3>1, <2>0, EmitFields
        <5>. HIDE DEF x
        <5>3. y.type3Sent = TRUE /\ y.call = c
          BY <5>2 DEF FieldsOf
        <5>. QED
          BY <5>1, <5>3
      <4>2. y.lFragmentNo = OfFragmentNoType1(c.size) + 1
        BY <4>1 DEF Progress
      <4>3. z.lFragmentNo = OfFragmentNoType1(c.size)
        <5>1. OfFragmentNoType1(c.size) \in Nat
          BY <3>1, <2>0, CountOfType1
        <5>. QED
          BY <5>1, <3>1, <2>0 DEF Type3Due, InLoop, Progress
      <4>. QED
        BY <4>2, <4>3
    <3>. HIDE DEF z, f, g
    <3>6. /\ x.out = Append(z.out, Clean(f)) /\ FieldsOf(x) /\ x.call = z.call
      <4>1. ReminderData(z.call.size) \in Nat
        BY <3>1, <2>0, CountOfType1
      <4>2. x.out = Append(z.out, Clean(f))
        BY <3>1, <3>4, <4>1, <2>0, HeaderSizes, EmitOut
      <4>. QED
        BY <3>1, <4>2, <2>0, EmitFields
    <3>. HIDE DEF x
    <3>7. y.out = x.out /\ y.call = c
      BY <3>6 DEF FieldsOf
    <3>8. /\ OutOf(Append(z.out, Clean(f)), Id(s), c, g)
          /\ Len(Append(z.out, Clean(f))) = z.lFragmentNo + 1
      <4>1. OutOf(z.out, Id(s), c, g) /\ Len(z.out) = z.lFragmentNo
        BY <3>1, <2>0
      <4>2. f = FragmentAt(Id(s), c, g, Len(z.out))
        BY <4>1, <3>4
      <4>. QED
        BY <4>1, <4>2, OutGrows
    <3>. HIDE DEF y
    <3>9. OutOf(y.out, Id(s), y.call, g) /\ Len(y.out) = y.lFragmentNo
      BY <3>5, <3>6, <3>7, <3>8
    <3>. QED
      BY <3>3, <3>9, OutOfOneCall DEF g
  <2>4. CASE SendOnlyType2(s)
    <3>. DEFINE f == Type2Fragment(Id(s), z.call, g, 0, z.call.size, 0)
                y == Emit(z, f, SizeofType2, z.call.size)
    <3>1. ~Idle(s) /\ FitsType2(z.call.size) /\ Finish(s, y)
      BY <2>4 DEF SendOnlyType2
    <3>2. /\ f = FragmentAt(Id(s), c, g, z.lFragmentNo)
          /\ Placed(f, z.lDataPointer, z.call.size)
          /\ z.lFragmentNo = LastFragmentNo(z.call.size)
      <4>. HIDE DEF z
      <4>. QED
        BY <3>1, <2>0, OnlyType2Emitted
    <3>. HIDE DEF z, f, g
    <3>3. y.out = Append(z.out, Clean(f)) /\ y.call = z.call
      BY <3>1, <3>2, <2>0, HeaderSizes, EmitOut, EmitFields
    <3>4. /\ OutOf(Append(z.out, Clean(f)), Id(s), c, g)
          /\ Len(Append(z.out, Clean(f))) = z.lFragmentNo + 1
      <4>1. OutOf(z.out, Id(s), c, g) /\ Len(z.out) = z.lFragmentNo
        BY <3>1, <2>0
      <4>2. f = FragmentAt(Id(s), c, g, Len(z.out))
        BY <4>1, <3>2
      <4>. QED
        BY <4>1, <4>2, OutGrows
    <3>. HIDE DEF y
    <3>5. OutOf(y.out, Id(s), y.call, g) /\ Len(y.out) = LastFragmentNo(y.call.size) + 1
      BY <3>2, <3>3, <3>4
    <3>. QED
      BY <3>1, <3>5, OutOfFinished DEF g
  <2>5. CASE SendClosingType2(s)
    <3>. DEFINE f == Type2Fragment(Id(s), z.call, g,
                                   OfFragmentNo(z.call.size), DataPayloadType1, z.lDataPointer)
                left == z.call.size - z.lDataPointer
                y == Emit(z, f, SizeofType2, left)
    <3>1. /\ ~Idle(s) /\ ~FitsType2(z.call.size) /\ ~InLoop(z) /\ ~Type3Due(z)
          /\ ~Miscalculated(z) /\ z.lDataPointer <= z.call.size
      BY <2>5, <2>0, NeverMiscalculated DEF SendClosingType2
    <3>2. Finish(s, y)
      BY <2>5, <3>1 DEF SendClosingType2
    <3>3. /\ f = FragmentAt(Id(s), c, g, z.lFragmentNo)
          /\ Placed(f, z.lDataPointer, left)
          /\ z.lFragmentNo = LastFragmentNo(z.call.size)
      <4>. HIDE DEF z
      <4>. QED
        BY <3>1, <2>0, ClosingType2Emitted
    <3>. HIDE DEF z, f, g
    <3>4. left \in Nat
      BY <3>1, <2>0
    <3>. HIDE DEF left
    <3>5. y.out = Append(z.out, Clean(f)) /\ y.call = z.call
      BY <3>1, <3>3, <3>4, <2>0, HeaderSizes, EmitOut, EmitFields
    <3>6. /\ OutOf(Append(z.out, Clean(f)), Id(s), c, g)
          /\ Len(Append(z.out, Clean(f))) = z.lFragmentNo + 1
      <4>1. OutOf(z.out, Id(s), c, g) /\ Len(z.out) = z.lFragmentNo
        BY <3>1, <2>0
      <4>2. f = FragmentAt(Id(s), c, g, Len(z.out))
        BY <4>1, <3>3
      <4>. QED
        BY <4>1, <4>2, OutGrows
    <3>. HIDE DEF y
    <3>7. OutOf(y.out, Id(s), y.call, g) /\ Len(y.out) = LastFragmentNo(y.call.size) + 1
      BY <3>3, <3>5, <3>6
    <3>. QED
      BY <3>2, <3>7, OutOfFinished DEF g
  <2>6. CASE /\ Idle(s)
             /\ \/ \E n \in StartNumbers : SetSuperFrameNo(s, n)
                \/ \E b \in Calls : PackAndSendRejected(s, b)
                \/ \E b \in Calls : PackAndSendAccepted(s, b, 0)
             /\ UNCHANGED zeroCopyVars
    BY <2>6, OutOfOthers
  <2>. QED
    BY <2>1, <2>2, <2>3, <2>4, <2>5, <2>6
<1>. QED
  BY <1>1, <1>2

(* What was emitted is, position by position, the superframe packAndSend   *)
(* would have sent.                                                        *)
LEMMA OutIsSame ==
    ASSUME OutInv, RoomInv, SenderIInv
    PROVE  SameFragments
<1>. SUFFICES ASSUME NEW s \in Sources, NEW i \in 1 .. Len(emitted[s])
              PROVE  LET e == emitted[s][i] IN
                     /\ {e.out[j].fragment : j \in 1 .. Len(e.out)} = SentFragments(s, e.n)
                     /\ \A j \in 1 .. Len(e.out) : e.out[j].polluted = {}
  BY DEF SameFragments
<1>. DEFINE e == emitted[s][i]
            c == sent[s][e.n].call
            sfn == sent[s][e.n].sfn
            id == <<s, e.n>>
            last == LastFragmentNo(c.size)
            at(k) == FragmentAt(id, c, sfn, k)
<1>1. e.n \in 1 .. Len(sent[s])
  BY DEF RoomInv
<1>2. c.size \in Nat /\ c.size <= LargestPacket
  BY <1>1, SentCall
<1>3. Len(e.out) = last + 1 /\ last \in Nat
      /\ \A j \in 1 .. Len(e.out) : e.out[j] = Clean(at(j - 1))
  BY <1>2, FragmentsArePositions DEF OutInv, AllOut, OutOf
<1>4. SentFragments(s, e.n) = {at(k) : k \in 0 .. last}
  BY <1>2, FragmentsArePositions DEF SentFragments
<1>. HIDE DEF e, at, last
<1>5. ASSUME NEW j \in 1 .. Len(e.out)
      PROVE  e.out[j].fragment = at(j - 1) /\ e.out[j].polluted = {}
  <2>1. e.out[j] = Clean(at(j - 1))
    BY <1>3
  <2>. QED
    BY <2>1 DEF Clean
<1>6. \A k \in 0 .. last : k + 1 \in 1 .. Len(e.out) /\ (k + 1) - 1 = k
  BY <1>3
<1>7. \A j \in 1 .. Len(e.out) : j - 1 \in 0 .. last
  BY <1>3
<1>8. \A k \in 0 .. last : at(k) = e.out[k + 1].fragment
  BY <1>5, <1>6
<1>9. {e.out[j].fragment : j \in 1 .. Len(e.out)} = {at(k) : k \in 0 .. last}
  <2>1. ASSUME NEW j \in 1 .. Len(e.out)
        PROVE  e.out[j].fragment \in {at(k) : k \in 0 .. last}
    BY <1>5, <1>7
  <2>2. ASSUME NEW k \in 0 .. last
        PROVE  at(k) \in {e.out[j].fragment : j \in 1 .. Len(e.out)}
    BY <1>6, <1>8
  <2>. QED
    BY <2>1, <2>2
<1>. QED
  BY <1>4, <1>5, <1>9 DEF e

(* The receiver cannot tell a zero-copy superframe from a copied one, and  *)
(* no header is written over bytes before they are read, for every MTU,    *)
(* header sizes and packet.                                                *)
THEOREM SameFragmentsAlways == ZeroCopySpec => []SameFragments
<1>1. ZeroCopyInit => IInv /\ RoomInv /\ OutInv /\ SenderInit
  BY InitInvariant, RoomInvInit DEF ZeroCopyInit, OutInv, OutSoFar, Idle
<1>2. IInv /\ [ZeroCopyNext]_allVars => IInv' /\ [SenderNext]_senderVars
  BY StepKeepsInvariant, StepIsASenders
<1>3. SenderIInv /\ [SenderNext]_senderVars => SenderIInv'
  BY SenderIInvNext
<1>4. SenderInit => SenderIInv
  BY SenderIInvInit
<1>5. SenderIInv => SenderTypeOK
  BY DEF SenderIInv, SenderTypeOK
<1>6. RoomInv /\ IInv /\ SenderTypeOK /\ [ZeroCopyNext]_allVars => RoomInv'
  BY StepKeepsRoom
<1>7. OutInv /\ RoomInv /\ IInv /\ SenderTypeOK /\ [ZeroCopyNext]_allVars => OutInv'
  BY StepKeepsOut
<1>8. OutInv /\ RoomInv /\ SenderIInv => SameFragments
  BY OutIsSame
<1>. QED
  BY <1>1, <1>2, <1>3, <1>4, <1>5, <1>6, <1>7, <1>8, PTL DEF ZeroCopySpec
=============================================================================
