----------------------------- MODULE MCHAProxy ------------------------------
(* One connection at a time before two members.                              *)
EXTENDS HAProxy

CONSTANT c1

OneClient  == {c1}
TheSecond  == {2}
=============================================================================
