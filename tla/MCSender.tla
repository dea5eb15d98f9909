------------------------------- MODULE MCSender -------------------------------
(***************************************************************************)
(* The sender alone, for every packet size there is with 3 bit fragment    *)
(* numbers, a MTU of 5 and headers of 1 and 3 bytes: type1 fragments carry *)
(* 4 bytes and the type2 fragment at most 2, so that remainders of 3 bytes *)
(* need a type3 fragment, and 27 bytes are too many.                       *)
(***************************************************************************)
EXTENDS ZeroCopySender

Call(size, pts, dts) ==
    [size |-> size, pts |-> pts, dts |-> dts, content |-> "h264",
     code |-> "AVCC", stream |-> 1]

MCCalls ==
    {Call(size, 20, 19) : size \in 0 .. 28}
      \cup {Call(3, pts, dts) : pts \in {0, 40, U64Max}, dts \in {0, 1, U64Max}}
      \cup {[Call(3, 9, 9) EXCEPT !.code = "UINT32_MAX"],
            [Call(3, 9, 9) EXCEPT !.stream = 0],
            [Call(3, 9, 9) EXCEPT !.stream = 0, !.content = "efpsig"]}

MCStartNumbers == {U16Max}
=============================================================================
