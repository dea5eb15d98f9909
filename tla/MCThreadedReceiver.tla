-------------------------- MODULE MCThreadedReceiver --------------------------
EXTENDS ThreadedReceiver

Call(size) ==
    [size |-> size, pts |-> 10 + size, dts |-> 9, content |-> "h264",
     code |-> "AVCC", stream |-> 1]

(* A superframe of two fragments, types 1 and 2, and one of one fragment.  *)
TwoFragments == {Call(6)}
OneFragment == {Call(2)}
=============================================================================
