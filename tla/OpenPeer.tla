------------------------------ MODULE OpenPeer ------------------------------
(* What both irtt-rs client adapters share while a session is opened, used    *)
(* and closed: the lifecycle of the session machine (irtt-client:             *)
(* session/machine.rs), the options of the UDP socket, and an abstract peer   *)
(* behind a network that loses, duplicates, delays and reorders datagrams:    *)
(* what was sent may be read any number of times, at any time, or never.      *)
EXTENDS Integers, FiniteSets

CONSTANTS
  Attempts,        \* config.open.timeouts.len()
  OpenTimeout,     \* ticks one attempt lasts
  RecvTimeout,     \* ticks of Client::recv_timeout, when one is configured
  MaxSessions,     \* bound: sessions the peer creates
  MaxOpens,        \* bound: calls of open
  MaxFaults        \* bound: failing socket calls and allocations

ASSUME OpenAssumption ==
  /\ Attempts \in Nat \ {0} /\ OpenTimeout \in Nat \ {0} /\ RecvTimeout \in Nat \ {0}
  /\ MaxSessions \in Nat /\ MaxOpens \in Nat /\ MaxFaults \in Nat

VARIABLES
  setup,           \* the client's run mode and surroundings
  machine,         \* MachineState
  held,            \* the open session: its token and negotiated traffic class
  phase,           \* what the adapter is doing: idle, opening or receiving
  tx,              \* AsyncOpenState, or the locals of open_transaction
  rx,              \* the locals of recv_datagram_retrying_interrupted
  sock,            \* the socket's traffic class and read timeout
  applied,         \* applied_traffic_class, Clear: None
  net,             \* every datagram sent so far, in either direction
  opens,           \* calls of open so far
  faults,          \* failures so far
  learned,         \* history: tokens of the open replies the client judged
  lapsed,          \* history: tokens whose close was refused or given up
  stale            \* history: the socket settings whose restoring call failed

session == <<machine, held>>
history == <<learned, lapsed>>
vars == <<setup, session, phase, tx, rx, sock, applied, net, opens, faults, history, stale>>

(* Traffic classes: unmarked, and the one the client asked for.               *)
Clear == 0
Marked == 1

NoDeadline == -2
NoCleanup == -1
NoSession == [token |-> 0, class |-> Clear]

(* left counts the ticks to the attempt's deadline, -1 when it has passed;    *)
(* cleanup is the token a retained close packet names, 0 when the failure     *)
(* left nothing to close.                                                      *)
FreshOpen == [attempt |-> 0, left |-> NoDeadline, submitted |-> FALSE, cleanup |-> NoCleanup]

(* kernel is what the kernel's own receive timer has left.                    *)
FreshReceive == [elapsed |-> 0, kernel |-> RecvTimeout]

(* What the peer may have done to the requested parameters: nothing, a        *)
(* restriction the client's policy allows (DSCP refused under Loose), or a    *)
(* change or protocol version it rejects.                                      *)
Returned == {"asked", "restricted", "rejected"}

Reply(token, close, params) ==
  [kind |-> "reply", token |-> token, close |-> close, params |-> params]

(* flooded: the client's socket never runs out of unrelated datagrams.        *)
Setups ==
  [adapter : {"async", "blocking"}, mode : {"normal", "noTest"},
   flooded : BOOLEAN]

Init ==
  /\ setup \in Setups
  /\ machine = "connected" /\ held = NoSession
  /\ phase = "idle" /\ tx = FreshOpen /\ rx = FreshReceive
  /\ sock = [class |-> Clear, timeout |-> "user"] /\ applied = Clear
  /\ net = {} /\ opens = 0 /\ faults = 0
  /\ learned = {} /\ lapsed = {} /\ stale = {}

(* The socket option of IPv4 or IPv6, the same for either kind of socket.     *)
SetClass(socket, class) == [socket EXCEPT !.class = class]

(* Calls that fail are taken from one budget.                                 *)
Outcome(oks) ==
  LET failing == Cardinality({ i \in DOMAIN oks : ~oks[i] }) IN
  /\ faults + failing <= MaxFaults
  /\ faults' = faults + failing

(* A setting is stale from a failed restoring call to the next one that works. *)
Judged(setting, ok) == IF ok THEN stale \ {setting} ELSE stale \cup {setting}

(***************************************************************************)
(* The session machine and the open transaction                             *)
(***************************************************************************)
ClassOf(params) == IF params = "asked" THEN Marked ELSE Clear

(* prepare_open_acceptance: the reply completes the open of this run mode.    *)
Acceptable(reply) ==
  /\ reply.params # "rejected"
  /\ \/ setup.mode = "normal" /\ ~reply.close /\ reply.token # 0
     \/ setup.mode = "noTest" /\ reply.close /\ reply.token = 0

(* Mutant: a rejected reply's token is forgotten.                              *)
NothingToClean(reply) == 0

(* The close packet prepared before the reply is judged: 0 when there is no   *)
(* session to close.                                                           *)
CleanupClose(reply) == IF reply.close THEN 0 ELSE reply.token

ClosePacket(token) ==
  IF token = 0 THEN {} ELSE {[kind |-> "close", token |-> token]}

CommitOpen(reply) ==
  /\ machine' = IF setup.mode = "normal" THEN "open" ELSE "noTest"
  /\ held' = IF setup.mode = "normal"
             THEN [token |-> reply.token, class |-> ClassOf(reply.params)] ELSE NoSession

CommitClose == machine' = "closed" /\ held' = NoSession

PeerClosed(m) == m.kind = "peerClose" /\ m.token = held.token

(* A new open transaction; ensure_connected refuses it in any other state.    *)
OpenCall ==
  /\ phase = "idle" /\ machine = "connected" /\ opens < MaxOpens
  /\ phase' = "opening" /\ tx' = FreshOpen /\ opens' = opens + 1
  /\ UNCHANGED <<setup, session, rx, sock, applied, net, faults, history, stale>>

(* Mutant: the deadline is left to the timer.                                  *)
NeverLate == FALSE

(* received_at lies after the attempt's deadline.                             *)
IsLate == tx.left < 0

TimerDue == tx.left <= 0

NextAttempt == [tx EXCEPT !.attempt = @ + 1, !.left = NoDeadline, !.submitted = FALSE]

OpenReturns == phase' = "idle" /\ tx' = FreshOpen

(* The clock runs while an attempt waits, and while the kernel waits in a     *)
(* receive whose timer has not expired.                                       *)
Tick ==
  /\ \/ /\ phase = "opening" /\ tx.left >= 0
        /\ tx' = [tx EXCEPT !.left = @ - 1]
        /\ UNCHANGED rx
     \/ /\ phase = "receiving" /\ rx.kernel > 0
        /\ rx' = [elapsed |-> rx.elapsed + 1, kernel |-> rx.kernel - 1]
        /\ UNCHANGED tx
  /\ UNCHANGED <<setup, session, phase, sock, applied, net, opens, faults, history, stale>>

(***************************************************************************)
(* The peer                                                                 *)
(***************************************************************************)
Issued == { m.token : m \in { r \in net : r.kind = "reply" } } \ {0}

(* An open request is answered with a session, or with the token-less,        *)
(* close-flagged reply that ends a no-test open and refuses a normal one; a   *)
(* duplicated request is answered again.  (Without a session a restriction    *)
(* has nothing to restrict: such a reply is as good as "asked".)               *)
PeerOpens ==
  \E params \in Returned :
    /\ [kind |-> "open"] \in net
    /\ \/ /\ Cardinality(Issued) < MaxSessions
          /\ net' = net \cup {Reply(Cardinality(Issued) + 1, FALSE, params)}
       \/ params # "restricted" /\ net' = net \cup {Reply(0, TRUE, params)}
    /\ UNCHANGED <<setup, session, phase, tx, rx, sock, applied, opens, faults, history, stale>>

(* The last reply of a session that reached its maximum duration.             *)
PeerCloses ==
  \E t \in Issued :
    /\ net' = net \cup {[kind |-> "peerClose", token |-> t]}
    /\ UNCHANGED <<setup, session, phase, tx, rx, sock, applied, opens, faults, history, stale>>

ToClient == { m \in net : m.kind \in {"reply", "peerClose"} }
=============================================================================
