---------------------------- MODULE ReceiveWindow ----------------------------
(* The received statistics a server session reports (ReceiveState in          *)
(* session.rs), against the requests that really arrived.  Requests are       *)
(* numbered by position in the client's sending order, the wire carries the   *)
(* position modulo SeqSpace, and the network may lose, duplicate, delay and   *)
(* reorder them by less than half the sequence space.                         *)
EXTENDS ServerSession

CONSTANTS
  Displacement,    \* largest jump between two arrivals, either way
  MaxPosition      \* bound: positions used

ASSUME WindowAssumption ==
  /\ Displacement \in Nat
  /\ WindowBits + Displacement <= SeqSpace
  /\ MaxPosition \in Nat

VARIABLES
  receive,         \* ReceiveState
  at,              \* history: position of the last accepted request
  got,             \* history: positions accepted
  intact           \* history: no accepted request made the window forget

wvars == <<receive, at, got, intact>>

WInit ==
  /\ receive = NewReceive
  /\ at = 0 /\ got = {} /\ intact = TRUE

Arrive(p) ==
  /\ receive' = Accepted(receive, p % SeqSpace)
  /\ at' = p
  /\ got' = got \cup {p}
  /\ intact' = (intact /\ (got = {} \/ p - at \in 0 .. WindowBits - 1))

WNext ==
  \E p \in 0 .. MaxPosition :
    /\ got = {} \/ (p - at <= Displacement /\ at - p <= Displacement)
    /\ Arrive(p)

WSpec == WInit /\ [][WNext]_wvars

(***************************************************************************)
(* Properties                                                               *)
(***************************************************************************)
(* ReceiveState holds a 32-bit count and a 64-bit window, remembers the        *)
(* sequence number of the last request, and counts it as received; while the  *)
(* window is intact, requests arrived in order.                               *)
WindowTypeOK ==
  /\ at \in Nat /\ got \subseteq Nat /\ intact \in BOOLEAN
  /\ receive.window \subseteq 0 .. WindowBits - 1
  /\ receive.last = IF got = {} THEN None ELSE at % SeqSpace
  /\ receive.count \in SeqNos
  /\ got # {} => at \in got
  /\ intact => \A p \in got : p <= at

(* No phantom receipts: bit k of a reported window is only set if the request *)
(* k before the current one was received, also after losses, duplicates, late *)
(* arrivals and a wrap of the sequence number.                                *)
NoPhantomReceipts ==
  got # {} => \A k \in receive.window : at - k \in got

(* Until a late arrival or a large gap makes the window forget, it is         *)
(* complete: every request received among the last WindowBits has its bit.    *)
CompleteUntilReset ==
  (intact /\ got # {}) =>
    \A k \in 0 .. WindowBits - 1 : at - k \in got => k \in receive.window

=============================================================================
