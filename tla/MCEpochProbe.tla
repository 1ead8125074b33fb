---------------------------- MODULE MCEpochProbe ----------------------------
(* Small instances of EpochProbe for TLC. *)
EXTENDS EpochProbe
=============================================================================
