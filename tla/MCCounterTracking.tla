-------------------------- MODULE MCCounterTracking --------------------------
(***************************************************************************)
(* Numbers of 3 bits and orders of 5: the stream wraps the former five     *)
(* times and the latter once.                                              *)
(***************************************************************************)
EXTENDS CounterTracking
=============================================================================
