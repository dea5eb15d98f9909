-------------------------------- MODULE MCCApi --------------------------------
(***************************************************************************)
(* Two threads; one or both of them create the objects.                    *)
(***************************************************************************)
EXTENDS CApi

MCThreads == {"t1", "t2"}
OneCreator == {"t1"}
=============================================================================
