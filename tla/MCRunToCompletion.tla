-------------------------- MODULE MCRunToCompletion --------------------------
EXTENDS RunToCompletion

Call(size) ==
    [size |-> size, pts |-> 20 + size, dts |-> 19, content |-> "h264",
     code |-> "AVCC", stream |-> 1]

(* A superframe of two fragments, types 1 and 2. *)
TwoFragments == {Call(6)}
(* No payload, one fragment, types 1 and 2, and types 1, 1, 3 and 2. *)
AllSizes == {Call(size) : size \in {0, 2, 6, 11}}
(* Fragments of another origin: a position beyond the last one, a type2    *)
(* fragment cut short, and a superframe number that the senders use for a  *)
(* superframe of another length or for another superframe of the slot.     *)
Type1Noise(sfn, frag, of) ==
    [type |-> 1, sfn |-> sfn, stream |-> 1, frag |-> frag, of |-> of,
     off |-> 0, len |-> 4, id |-> <<0, 1>>]

StrangeFragments ==
    {Type1Noise(0, 3, 1), Type1Noise(0, 0, 2), Type1Noise(2, 0, 1),
     [type |-> 2, sfn |-> 0, stream |-> 1, frag |-> 0, of |-> 0,
      type1PacketSize |-> 2, pts |-> 5, dtsPtsDiff |-> 0, content |-> "h264",
      code |-> "AVCC", off |-> 0, len |-> 2, bytes |-> 1, id |-> <<0, 1>>]}

NoNoise == {}
=============================================================================
