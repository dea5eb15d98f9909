---------------------------- MODULE ZeroCopySender ----------------------------
(***************************************************************************)
(* destructivePackAndSendFromPtr, the sender without a copy: each header   *)
(* is written in front of the payload it belongs to, into the caller's     *)
(* buffer, over the end of what was sent before or, for the first one,     *)
(* over the room the caller left free.  A call goes on, under mSendMtx,    *)
(* from one rSendFunction to the next; other senders go on meanwhile, and  *)
(* between two such calls the same sender may use packAndSend.             *)
(*                                                                         *)
(* The buffer is named by offsets: the packet is at 0 .. size - 1.         *)
(***************************************************************************)
EXTENDS Sender

CONSTANT Headroom   \* bytes free before the packet, 100 in the documentation

ASSUME HeadroomAssumption == Headroom \in Nat /\ SizeofType2 <= Headroom

VARIABLES
    zeroCopy,   \* per sender, the call in progress
    emitted     \* per sender, what rSendFunction was given, by superframe

zeroCopyVars == <<zeroCopy, emitted>>
allVars == <<senderVars, zeroCopyVars>>

NoCall == <<>>
Idle(s) == zeroCopy[s] = NoCall

ZeroCopyInit ==
    /\ SenderInit
    /\ zeroCopy = [s \in Sources |-> NoCall]
    /\ emitted = [s \in Sources |-> <<>>]

(* The call passed its checks, which are those of packAndSendFromPtr. *)
Begin(s, c) ==
    /\ Idle(s)
    /\ Len(sent[s]) < MaxFrames
    /\ PackMessage(c) = "noError"
    /\ zeroCopy' = [zeroCopy EXCEPT ![s] =
           [call |-> c, lFragmentNo |-> 0, lDataPointer |-> 0, type3Sent |-> FALSE,
            overwritten |-> {}, out |-> <<>>]]
    /\ UNCHANGED <<senderVars, emitted>>

Id(s) == <<s, Len(sent[s]) + 1>>

(***************************************************************************)
(* One fragment: a header of the given size is written before lDataPointer *)
(* and rSendFunction reads it and the len bytes behind it.                 *)
(***************************************************************************)

(* sizeof subtracted from a pointer to the header, not to a byte. *)
HeaderAtTyped(lDataPointer, header) == lDataPointer - header * header

HeaderAt(lDataPointer, header) == lDataPointer - header

(* A pointer that is moved on before the header is built. *)
EmitAdvanced(z, f, header, len) ==
    LET start == HeaderAt(z.lDataPointer + len, header)
        overwritten == z.overwritten \cup (start .. start + header - 1)
        read == z.lDataPointer .. z.lDataPointer + len - 1
    IN  [z EXCEPT
            !.overwritten = overwritten,
            !.lDataPointer = @ + len,
            !.out = Append(@, [fragment |-> [f EXCEPT !.off = z.lDataPointer, !.len = len],
                               polluted |-> read \cap overwritten])]

Emit(z, f, header, len) ==
    LET start == HeaderAt(z.lDataPointer, header)
        overwritten == z.overwritten \cup (start .. start + header - 1)
        read == start + header .. start + header + len - 1
    IN  [z EXCEPT
            !.overwritten = overwritten,
            !.lDataPointer = @ + len,
            !.out = Append(@, [fragment |-> [f EXCEPT !.off = start + header, !.len = len],
                               polluted |-> read \cap overwritten])]

InLoop(z) ==
    ~FitsType2(z.call.size) /\ z.lFragmentNo < OfFragmentNoType1(z.call.size)

Type3Due(z) ==
    /\ ~FitsType2(z.call.size) /\ ~InLoop(z)
    /\ Type3Needed(z.call.size)
    /\ ~z.type3Sent

SendType1(s) ==
    /\ ~Idle(s) /\ InLoop(zeroCopy[s])
    /\ LET z == zeroCopy[s]
           f == Type1Fragment(Id(s), z.call, mSuperFrameNoGenerator[s], z.lFragmentNo)
           y == Emit(z, f, SizeofType1, DataPayloadType1)
       IN  zeroCopy' = [zeroCopy EXCEPT
               ![s] = [y EXCEPT !.lFragmentNo = (z.lFragmentNo + 1) % U16Mod]]
    /\ UNCHANGED <<senderVars, emitted>>

(* The "Debug me for calculation errors" returns. *)
Sink(s) ==
    /\ sendMessage' = "internalCalculationError"
    /\ zeroCopy' = [zeroCopy EXCEPT ![s] = NoCall]
    /\ UNCHANGED <<mSuperFrameNoGenerator, sent, emitted>>

SendType3(s) ==
    /\ ~Idle(s) /\ Type3Due(zeroCopy[s])
    /\ LET z == zeroCopy[s]
           f == Type3Fragment(Id(s), z.call, mSuperFrameNoGenerator[s])
           y == Emit(z, f, SizeofType1, ReminderData(z.call.size))
       IN  IF y.lDataPointer # z.call.size
           THEN Sink(s)
           ELSE /\ zeroCopy' = [zeroCopy EXCEPT ![s] =
                       [y EXCEPT !.lFragmentNo = (z.lFragmentNo + 1) % U16Mod,
                                 !.type3Sent = TRUE]]
                /\ UNCHANGED <<senderVars, emitted>>

(* A superframe that leaves its number to the next one. *)
FinishUncounted(s, z) ==
    /\ sendMessage' = "noError"
    /\ sent' = [sent EXCEPT
           ![s] = Append(@, [call |-> z.call, sfn |-> mSuperFrameNoGenerator[s], at |-> 0])]
    /\ UNCHANGED mSuperFrameNoGenerator
    /\ zeroCopy' = [zeroCopy EXCEPT ![s] = NoCall]
    /\ emitted' = [emitted EXCEPT
           ![s] = Append(@, [n |-> Id(s)[2], out |-> z.out, overwritten |-> z.overwritten])]

(* The end of the call: it is done, and the superframe is counted. *)
Finish(s, z) ==
    /\ sendMessage' = "noError"
    /\ sent' = [sent EXCEPT
           ![s] = Append(@, [call |-> z.call, sfn |-> mSuperFrameNoGenerator[s], at |-> 0])]
    /\ mSuperFrameNoGenerator' = [mSuperFrameNoGenerator EXCEPT ![s] = (@ + 1) % U16Mod]
    /\ zeroCopy' = [zeroCopy EXCEPT ![s] = NoCall]
    /\ emitted' = [emitted EXCEPT
           ![s] = Append(@, [n |-> Id(s)[2], out |-> z.out, overwritten |-> z.overwritten])]

SendOnlyType2(s) ==
    /\ ~Idle(s) /\ FitsType2(zeroCopy[s].call.size)
    /\ LET z == zeroCopy[s]
           f == Type2Fragment(Id(s), z.call, mSuperFrameNoGenerator[s], 0, z.call.size, 0)
       IN  Finish(s, Emit(z, f, SizeofType2, z.call.size))

(* The three tests before the closing fragment. *)
Miscalculated(z) ==
    LET left == z.call.size - z.lDataPointer IN
        \/ Type3Needed(z.call.size) /\ left # 0
        \/ left + SizeofType2 > MTU
        \/ OfFragmentNo(z.call.size) # z.lFragmentNo

SendClosingType2(s) ==
    /\ ~Idle(s)
    /\ ~FitsType2(zeroCopy[s].call.size)
    /\ ~InLoop(zeroCopy[s]) /\ ~Type3Due(zeroCopy[s])
    /\ LET z == zeroCopy[s]
           f == Type2Fragment(Id(s), z.call, mSuperFrameNoGenerator[s],
                              OfFragmentNo(z.call.size), DataPayloadType1, z.lDataPointer)
       IN  IF Miscalculated(z)
           THEN Sink(s)
           ELSE Finish(s, Emit(z, f, SizeofType2, z.call.size - z.lDataPointer))

ZeroCopyNext ==
    \E s \in Sources :
        \/ \E c \in Calls : Begin(s, c)
        \/ SendType1(s) \/ SendType3(s) \/ SendOnlyType2(s) \/ SendClosingType2(s)
        \/ /\ Idle(s)
           /\ \/ \E n \in StartNumbers : SetSuperFrameNo(s, n)
              \/ \E c \in Calls : PackAndSendRejected(s, c)
              \/ \E c \in Calls : PackAndSendAccepted(s, c, 0)
           /\ UNCHANGED zeroCopyVars

ZeroCopySpec == ZeroCopyInit /\ [][ZeroCopyNext]_allVars

(***************************************************************************)
(* Correctness.                                                            *)
(***************************************************************************)

(* The receiver cannot tell a zero-copy superframe from a copied one: the  *)
(* fragments rSendFunction got are those of packAndSendFromPtr, with the   *)
(* same header fields and the same part of the packet, and no byte of any  *)
(* was overwritten by a header before it was read.                         *)
SameFragments ==
    \A s \in Sources : \A i \in 1 .. Len(emitted[s]) :
        LET e == emitted[s][i] IN
            /\ {e.out[j].fragment : j \in 1 .. Len(e.out)} = SentFragments(s, e.n)
            /\ \A j \in 1 .. Len(e.out) : e.out[j].polluted = {}

(* Headers are written only into the room the caller left before the       *)
(* packet and over bytes already sent, never over those still to be sent   *)
(* and never behind the packet.                                            *)
HeadersInTheirRoom ==
    \A s \in Sources :
        /\ ~Idle(s) => zeroCopy[s].overwritten
                          \subseteq -Headroom .. zeroCopy[s].lDataPointer - 1
        /\ \A i \in 1 .. Len(emitted[s]) : LET e == emitted[s][i] IN
              e.overwritten \subseteq -Headroom .. sent[s][e.n].call.size - 1

(* Seen from outside, a sender that uses both calls is a Sender: each call *)
(* counts one superframe when it is done and none when it fails.           *)
IsSender == SenderSpec
=============================================================================
