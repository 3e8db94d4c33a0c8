--------------------------- MODULE MCOpenExchange ---------------------------
(* Model-checking instance of OpenExchange.                                   *)
EXTENDS OpenExchange
=============================================================================
