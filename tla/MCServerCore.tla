----------------------------- MODULE MCServerCore -----------------------------
(* Model-checking instances of ServerCore.                                    *)
EXTENDS ServerCore

(* Two usable tokens beside the reserved zero, so that they run out and are   *)
(* issued again.                                                               *)
TwoTokens == 0 .. 2
=============================================================================
