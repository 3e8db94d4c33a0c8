---------------------------- MODULE OpenExchange ----------------------------
(* Either client adapter of irtt-rs with the peer it opens a session at.      *)
EXTENDS AsyncOpen, BlockingOpen

Next == OpenCall \/ AsyncNext \/ BlockingNext \/ Tick \/ PeerOpens \/ PeerCloses

Spec == Init /\ [][Next]_vars

(* A call that was made is driven on and time passes; nothing is asked of the *)
(* peer or the network.                                                        *)
FairSpec ==
  Spec /\ WF_vars(AsyncOwnStep) /\ WF_vars(BlockingOwnStep) /\ WF_vars(Tick)

(***************************************************************************)
(* Properties                                                               *)
(***************************************************************************)
(* "Dropping this future at a suspension point cannot leave an otherwise-open *)
(* session with cleared DSCP" (AsyncClient::close): wherever a call suspends, *)
(* fails or is abandoned, the socket carries the class its open session       *)
(* negotiated and none without a session, unless the call that was to restore *)
(* it failed itself.                                                           *)
ClassMatchesSession ==
  "class" \notin stale => sock.class = held.class /\ applied = held.class

(* Open attempts "restore this setting on success or failure"                 *)
(* (Client::set_recv_timeout), and so does a receive that EINTR made narrow   *)
(* its timeout: between calls the socket waits as long as the user asked.     *)
ReadTimeoutRestored ==
  phase = "idle" /\ "timeout" \notin stale => sock.timeout = "user"

(* "Repeated interruptions cannot extend this receive past its configured     *)
(* timeout" (Client::recv_datagram_retrying_interrupted).                     *)
InterruptsNeverExtend == rx.elapsed <= RecvTimeout

(* "The client sends a best-effort cleanup close" (Client::open), and         *)
(* "retained post-token cleanup" survives every suspension (cancel_open): a   *)
(* session the client was ever given is held open, about to be closed, closed *)
(* by either side, or its close was refused or given up for it.               *)
NoSessionForgotten ==
  \A t \in learned \ {0} :
    \/ t \in {held.token, tx.cleanup} \cup lapsed
    \/ \E m \in net : m.kind \in {"close", "peerClose"} /\ m.token = t

(* "Silence or ignored traffic eventually produces OpenTimeout"               *)
(* (Client::open): every open and every receive returns, even to a client     *)
(* whose socket never runs out of unrelated datagrams. A receive has a        *)
(* recv_timeout here; without one, the default, it may block for ever.        *)
CallsReturn == (phase # "idle") ~> (phase = "idle")

(* What the calls leave of the socket: the class of the session, the user's   *)
(* timeout, and no wait longer than that timeout (AsyncClient::close,         *)
(* Client::set_recv_timeout, Client::recv_datagram_retrying_interrupted).     *)
SocketContract == ClassMatchesSession /\ ReadTimeoutRestored /\ InterruptsNeverExtend
=============================================================================
