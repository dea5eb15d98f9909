----------------------------- MODULE HandedFrames -----------------------------
(***************************************************************************)
(* The superframes a receiver hands to its application, seen as packets of *)
(* the senders: the refinement mapping to FrameChannel, which both modes   *)
(* of the receiver share.                                                  *)
(***************************************************************************)
EXTENDS DeliveryPass, Link

(* The superframe is the n-th of sender s.                                 *)
SentAs(d, s, n) == d.mSource = s /\ d.mSuperFrameNo = sent[s][n].sfn

ChunksOf(s, n) ==
    {[at |-> f.off, off |-> f.off, len |-> f.len, id |-> <<s, n>>] :
        f \in {g \in SentFragments(s, n) : g.len > 0}}

NumberOf(d) == CHOOSE n \in 1 .. Len(sent[d.mSource]) : SentAs(d, d.mSource, n)

(* The packet that the fields of an intact superframe describe. *)
PacketIn(d) ==
    [size |-> d.mFrameSize, pts |-> d.mPts, dts |-> d.mDts,
     content |-> d.kind.content, code |-> d.kind.code, stream |-> d.mStreamID]

BytesIn(d) ==
    UNION {{[of |-> c.id, byte |-> c.off + i, at |-> c.at + i] :
              i \in 0 .. c.len - 1} : c \in d.chunks}

Offered == [s \in Sources |-> [n \in 1 .. Len(sent[s]) |-> sent[s][n].call]]

AsHanded(d) ==
    [source |-> d.mSource, n |-> NumberOf(d),
     packet |-> IF d.mBroken THEN {} ELSE {PacketIn(d)}, bytes |-> BytesIn(d)]

AllHanded(superframes) ==
    [i \in 1 .. Len(superframes) |-> AsHanded(superframes[i])]
=============================================================================
