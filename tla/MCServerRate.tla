---------------------------- MODULE MCServerRate -----------------------------
(* Model-checking instance of ServerCore with bounds under which the bucket   *)
(* of a session empties, refills and the test duration ends, together with    *)
(* ReceiveWindow, the window of a session of its own.  The two share no       *)
(* state: arrivals at the window are explored before the first datagram       *)
(* reaches the table, never in the product of the two.                        *)
EXTENDS ServerCore, ReceiveWindow

TwoTokens == 0 .. 2

RInit == Init /\ WInit

RNext ==
  \/ /\ got = {} /\ Next
     /\ UNCHANGED wvars
  \/ /\ Init /\ WNext
     /\ UNCHANGED vars

RSpec == RInit /\ [][RNext]_<<vars, wvars>>
=============================================================================
