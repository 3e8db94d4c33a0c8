--------------------------- MODULE MCManagedTargets ---------------------------
(* Model-checking instance of ManagedTargets.                                 *)
EXTENDS ManagedTargets

(* A run that finishes when its targets have, and one that reconnects them    *)
(* until it is stopped.                                                        *)
MCConfigurations ==
  {[finishes |-> TRUE, reconnect |-> 0], [finishes |-> TRUE, reconnect |-> 1]}
=============================================================================
