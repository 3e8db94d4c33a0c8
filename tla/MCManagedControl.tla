--------------------------- MODULE MCManagedControl ---------------------------
(* Model-checking instance of ManagedControl.                                 *)
EXTENDS ManagedControl
=============================================================================
