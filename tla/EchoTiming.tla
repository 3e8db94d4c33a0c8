----------------------------- MODULE EchoTiming -----------------------------
(* The timestamps of one echo: what the server reports (irtt-server: clock.rs *)
(* and core.rs) and what the client measures (irtt-client: session/machine.rs *)
(* and metadata.rs).  A reading is [wall, mono]; optional values are sets of  *)
(* at most one; the i64 saturation of instants centuries away is left out.    *)
EXTENDS Negotiation

CONSTANTS
  MaxKernelRxLag   \* MAX_KERNEL_RX_LAG, of either side

ASSUME TimingAssumption == MaxKernelRxLag \in Nat

Lesser(a, b) == IF a <= b THEN a ELSE b
Minus(xs, ys) == { x - y : x \in xs, y \in ys }

(***************************************************************************)
(* The server                                                               *)
(***************************************************************************)
NotAfter(sample, later) ==
  [wall |-> Lesser(sample.wall, later.wall), mono |-> Lesser(sample.mono, later.mono)]

Midpoint(a, b) ==
  [wall |-> (a.wall + b.wall) \div 2, mono |-> (a.mono + b.mono) \div 2]

(* Either side prefers the kernel's receive time where it is plausible for    *)
(* the datagram: not later than the userspace reading, and not much earlier.   *)
PreferredReceiveWall(kernel, userspace) ==
  IF \E k \in kernel : userspace - k \in 0 .. MaxKernelRxLag
  THEN CHOOSE k \in kernel : TRUE ELSE userspace

(* Mutant: the kernel's receive time is not held to the send reading.          *)
ReportedAsObserved(receiveWall, sent) == receiveWall

ReportedReceiveWall(receiveWall, sent) == Lesser(receiveWall, sent.wall)

(* timestamp_fields: the stamps a session negotiated, each as a field's words. *)
TimestampFields(p, arrived, sent, receiveWall) ==
  LET received == NotAfter(arrived, sent)
      middle == Midpoint(received, sent)
      value == [recvWall |-> ReportedReceiveWall(receiveWall, sent),
                recvMono |-> received.mono,
                midpointWall |-> middle.wall, midpointMono |-> middle.mono,
                sendWall |-> sent.wall, sendMono |-> sent.mono]
  IN  [f \in DOMAIN value |-> IF HasField(p, f) THEN Words(StampSize, value[f]) ELSE <<>>]

(***************************************************************************)
(* The client                                                               *)
(***************************************************************************)
(* The stamps of a decoded reply: one per field that is there.                *)
StampsOf(fields) ==
  [f \in ToSet(EchoFields) \ {"recvCount", "recvWindow"} |->
     IF fields[f] = <<>> THEN {} ELSE {fields[f][1][2]}]

(* compute_server_processing: the monotonic pair first; none when negative.   *)
ServerProcessing(s) ==
  LET mono == Minus(s.sendMono, s.recvMono)
      wall == Minus(s.sendWall, s.recvWall)
  IN  { d \in IF mono # {} THEN mono ELSE wall : d >= 0 }

(* Mutant: any correlated transmit timestamp is taken.                         *)
SendWallAsCorrelated(floor, sentWall, kernel, receivedWall) ==
  IF kernel # {} THEN CHOOSE k \in kernel : TRUE ELSE sentWall

(* The kernel's transmit time, when it falls between the anchor taken before  *)
(* the send and the receipt of the reply.                                      *)
PreferredSendWall(floor, sentWall, kernel, receivedWall) ==
  IF \E k \in kernel : floor <= k /\ k <= receivedWall
  THEN CHOOSE k \in kernel : TRUE ELSE sentWall

EpochNs(t) == { w \in {t} : w >= 0 }
OrElse(a, b) == IF a # {} THEN a ELSE b

(* compute_rtt and compute_one_way.  departed and returned are the client's   *)
(* readings after the send and at the receipt; floor is taken before the send. *)
Measure(s, floor, departed, txKernel, returned, rxKernel) ==
  LET raw == Larger(returned.mono - departed.mono, 0)
      sendWall == PreferredSendWall(floor, departed.wall, txKernel, returned.wall)
      receiveWall == PreferredReceiveWall(rxKernel, returned.wall)
  IN  [raw |-> raw,
       adjusted |-> Minus({raw}, ServerProcessing(s)),
       c2s |-> Minus(OrElse(s.recvWall, s.midpointWall), EpochNs(sendWall)),
       s2c |-> Minus(EpochNs(receiveWall), OrElse(s.sendWall, s.midpointWall))]
=============================================================================
