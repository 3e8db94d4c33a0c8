---------------------------- MODULE MCProbeSession ----------------------------
(* Model-checking instances of ProbeSession.                                  *)
EXTENDS ProbeSession
=============================================================================
