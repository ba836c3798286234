---------------------------- MODULE MCHASnapshot ----------------------------
(* Two exports.                                                              *)
EXTENDS HASnapshot

TwoOutputs == {"o1", "o2"}
=============================================================================
