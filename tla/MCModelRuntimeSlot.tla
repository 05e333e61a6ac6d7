------------------------- MODULE MCModelRuntimeSlot -------------------------
(* Three clients and two calls for ModelRuntimeSlot.                      *)
EXTENDS ModelRuntimeSlot, TLC
=============================================================================
