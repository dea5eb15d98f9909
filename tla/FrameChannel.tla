----------------------------- MODULE FrameChannel -----------------------------
(***************************************************************************)
(* What EFP promises, without fragments, buckets, time-outs and threads: a *)
(* channel that takes packets from its sources and hands each over to the  *)
(* application at most once, intact or broken, in any order, or, with a    *)
(* head-of-line time-out, in the order of the source.                      *)
(***************************************************************************)
EXTENDS Naturals, Sequences

CONSTANTS
    Sources,    \* where packets come from
    Packets,    \* the packets a source may offer, each with a size
    InOrder     \* is there a head-of-line time-out

VARIABLES
    offered,    \* per source, the packets packAndSend accepted
    handed      \* what the application was called back with

channelVars == <<offered, handed>>

Init ==
    /\ offered = [s \in Sources |-> <<>>]
    /\ handed = <<>>

Offer(s, p) ==
    /\ offered' = [offered EXCEPT ![s] = Append(@, p)]
    /\ UNCHANGED handed

(* The bytes of the n-th packet of s, each in its place. *)
Bytes(s, n) ==
    {[of |-> <<s, n>>, byte |-> b, at |-> b] : b \in 0 .. offered[s][n].size - 1}

WasHanded(s, n) ==
    \E i \in 1 .. Len(handed) : handed[i].source = s /\ handed[i].n = n

(* The receiver may tune in anywhere, so packets older than the first one  *)
(* handed over may follow it; the others come in their order.              *)
InItsTurn(s, n) ==
    handed # <<>> /\ handed[1].source = s /\ n > handed[1].n =>
        \A i \in 1 .. Len(handed) : handed[i].source = s => handed[i].n < n

MayHand(s, n) ==
    /\ n \in 1 .. Len(offered[s])
    /\ ~WasHanded(s, n)
    /\ InOrder => InItsTurn(s, n)

(* An intact packet is the one offered, with all of its bytes; of a broken *)
(* one only some bytes are promised, but those in their place.             *)
Intact(h) ==
    h.packet = {offered[h.source][h.n]} /\ h.bytes = Bytes(h.source, h.n)
Broken(h) ==
    h.packet = {} /\ h.bytes \subseteq Bytes(h.source, h.n)

Hand ==
    /\ \E i \in DOMAIN handed' \ DOMAIN handed : LET h == handed'[i] IN
          /\ h.source \in Sources
          /\ MayHand(h.source, h.n)
          /\ Intact(h) \/ Broken(h)
          /\ handed' = Append(handed, h)
    /\ UNCHANGED offered

Next == Hand \/ \E s \in Sources, p \in Packets : Offer(s, p)

Spec == Init /\ [][Next]_channelVars
=============================================================================
