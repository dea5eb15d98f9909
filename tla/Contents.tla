------------------------------- MODULE Contents -------------------------------
(***************************************************************************)
(* Of ElasticFrameContent and of the 32 bit codes, the values that the     *)
(* protocol itself tells apart, and one of each that it only carries.      *)
(***************************************************************************)
Contents == {"unknown", "efpsig", "h264"}
Codes == {"UINT32_MAX", "AVCC"}

Kind == [content : Contents, code : Codes]

(* What a stream and a superframe hold before anything is known of them.   *)
Unknown == [content |-> "unknown", code |-> "UINT32_MAX"]
=============================================================================
