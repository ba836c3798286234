------------------------- MODULE MCHAOperationLock -------------------------
(* Two operators beside the supervisor, whose interval is longer than their  *)
(* patience, so that the budget of a pass is cut by it.                      *)
EXTENDS HAOperationLock

CONSTANTS o1, o2

MCOperators == {o1, o2}
MCInodes    == 1..3
=============================================================================
