---------------------------- MODULE ServerSession ----------------------------
(* The pure transitions of one server session (irtt-server: session.rs and    *)
(* the part of negotiate.rs that fixes the session's cadence): reply          *)
(* allowance, received window, lifetime.  Times are clock ticks for           *)
(* nanoseconds; the i64 saturation of instants centuries away is left out.    *)
EXTENDS Integers, FiniteSetsExt

CONSTANTS
  SeqSpace,          \* 2^32: sequence numbers and received counts wrap here
  WindowBits,        \* 64: bits of the received window
  Burst,             \* config.burst_allowance
  MinSendInterval,   \* config.min_send_interval
  IdleTimeout,       \* config.idle_timeout
  MaxTestDuration,   \* config.max_test_duration; 0: no maximum
  Grace              \* MAX_DURATION_CLOSE_GRACE

ASSUME SessionAssumption ==
  /\ SeqSpace \in Nat \ {0}
  /\ WindowBits \in 1 .. SeqSpace
  /\ Burst \in Nat /\ MinSendInterval \in Nat /\ IdleTimeout \in Nat
  /\ MaxTestDuration \in Nat /\ Grace \in Nat

None == -1
SeqNos == 0 .. SeqSpace - 1
Lesser(a, b) == IF a <= b THEN a ELSE b

(***************************************************************************)
(* Cadence                                                                  *)
(***************************************************************************)
(* negotiate_params: the configured floor first, then a quarter of the idle   *)
(* timeout as a cap, which may take the interval below the floor again.       *)
NegotiatedInterval(requested) ==
  LET floored == IF requested < MinSendInterval THEN MinSendInterval ELSE requested
      cap == IdleTimeout \div 4
  IN  IF cap > 0 /\ floored > cap THEN cap ELSE floored

(* Mutant: refill on the configured minimum, whatever was negotiated.         *)
ConfiguredInterval(negotiated) == MinSendInterval

RefillInterval(negotiated) ==
  IF MinSendInterval = 0 \/ negotiated = 0 THEN MinSendInterval
  ELSE Lesser(MinSendInterval, negotiated)

(***************************************************************************)
(* RateState                                                                *)
(***************************************************************************)
NewRate(negotiated, t) ==
  [interval |-> RefillInterval(negotiated), allowance |-> Burst, refilledAt |-> t]

(* Mutant: the unspent remainder of the interval is dropped.                   *)
ReplenishFromNow(rate, t) ==
  LET gained == (t - rate.refilledAt) \div rate.interval IN
  IF rate.allowance < Burst /\ gained = 0 THEN rate
  ELSE [rate EXCEPT !.allowance = Lesser(rate.allowance + gained, Burst),
                    !.refilledAt = t]

(* Idle time is not banked by a full allowance; otherwise whole intervals are *)
(* credited and the remainder carried over.                                    *)
Replenish(rate, t) ==
  LET elapsed == t - rate.refilledAt
      gained == elapsed \div rate.interval
      allowance == Lesser(rate.allowance + gained, Burst)
  IN  IF rate.allowance >= Burst
      THEN [rate EXCEPT !.allowance = Burst, !.refilledAt = t]
      ELSE IF elapsed < rate.interval THEN rate
      ELSE [rate EXCEPT !.allowance = allowance,
                        !.refilledAt = IF allowance = Burst THEN t
                                       ELSE @ + gained * rate.interval]

(* charge: the decision and the state to commit with it.                      *)
Charge(rate, t) ==
  IF Burst = 0 THEN [allowed |-> FALSE, next |-> rate]
  ELSE IF rate.interval = 0 THEN [allowed |-> TRUE, next |-> rate]
  ELSE LET full == Replenish(rate, t) IN
       IF full.allowance = 0 THEN [allowed |-> FALSE, next |-> full]
       ELSE [allowed |-> TRUE, next |-> [full EXCEPT !.allowance = @ - 1]]

(***************************************************************************)
(* ReceiveState                                                             *)
(***************************************************************************)
NewReceive == [count |-> 0, window |-> {}, last |-> None]

(* Mutants of Window: history survives a distance that does not fit; the      *)
(* largest gap that fits is taken for one that does not.                       *)
WindowKept(receive, seq) ==
  LET distance == (seq - receive.last) % SeqSpace IN
  IF receive.last = None \/ distance >= WindowBits THEN {0} \cup receive.window
  ELSE {0} \cup { k \in 0 .. WindowBits - 1 : k - distance \in receive.window }
WindowForgets(receive, seq) ==
  LET distance == (seq - receive.last) % SeqSpace IN
  IF receive.last = None \/ distance >= WindowBits - 1 THEN {0}
  ELSE {0} \cup { k \in 0 .. WindowBits - 1 : k - distance \in receive.window }

(* The window as its set bits: shifted by the unsigned distance from the      *)
(* previous request, thrown away when that distance does not fit.             *)
Window(receive, seq) ==
  LET distance == (seq - receive.last) % SeqSpace IN
  IF receive.last = None \/ distance >= WindowBits THEN {0}
  ELSE {0} \cup { k \in 0 .. WindowBits - 1 : k - distance \in receive.window }

Accepted(receive, seq) ==
  [count |-> (receive.count + 1) % SeqSpace,
   window |-> Window(receive, seq),
   last |-> seq]

(***************************************************************************)
(* LifetimeState                                                            *)
(***************************************************************************)
OpenedAt(t) == [lastActivity |-> t, firstServed |-> None]

IsIdleExpired(lifetime, t) == t - lifetime.lastActivity >= IdleTimeout

MaxDurationReached(lifetime, t) ==
  /\ MaxTestDuration # 0
  /\ lifetime.firstServed # None
  /\ lifetime.firstServed + MaxTestDuration + Grace <= t

Refreshed(lifetime, t) == [lifetime EXCEPT !.lastActivity = t]

Served(lifetime, t) ==
  [lastActivity |-> t,
   firstServed |-> IF lifetime.firstServed = None THEN t ELSE lifetime.firstServed]
=============================================================================
