------------------------------ MODULE MCEmbedded ------------------------------
(***************************************************************************)
(* Headers of 2 bytes with a 2 bit size: data of 4 and 5 bytes are too     *)
(* large, and the C helper says 0 and 1 of them.                           *)
(***************************************************************************)
EXTENDS Embedded

MCDataSizes == {0, 1, 3, 4, 5}
=============================================================================
