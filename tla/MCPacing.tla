------------------------------ MODULE MCPacing ------------------------------
(* Two targets, one of them finite, whose slots cross at uneven intervals.   *)
EXTENDS Pacing

MCInterval == [t \in Targets |-> IF t = 0 THEN 4 ELSE 5]
MCDuration == [t \in Targets |-> IF t = 0 THEN {} ELSE {9}]

=============================================================================
