---------------------------- MODULE MCKnowledge ----------------------------
(* Knowledge with two chunks, one route, and the updates the cfg allows. *)
EXTENDS Knowledge
=============================================================================
