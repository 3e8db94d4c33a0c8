------------------------------ MODULE ServerCore ------------------------------
(* The protocol core of the irtt-rs server (irtt-server: core.rs): the table  *)
(* of live sessions and the handling of each datagram.  The core is           *)
(* sequential; every request, whoever sent it and however late, duplicated or *)
(* stale, is one step.  Sessions expire lazily: a sweep runs before each      *)
(* authenticated request and from the runtime's maintenance timer.            *)
EXTENDS ServerSession, Functions

CONSTANTS
  Endpoints,       \* source endpoints: address, port and scope (same_endpoint)
  Tokens,          \* values the token source may draw, 0 included
  TokenAttempts,   \* TOKEN_ATTEMPTS
  Sequences,       \* sequence numbers clients use
  Intervals,       \* send intervals clients ask for, 0: absent
  MaxSessions,     \* config.max_sessions
  MaxTime          \* bound: clock value

ASSUME CoreAssumption ==
  /\ Tokens \subseteq Nat /\ 0 \in Tokens
  /\ TokenAttempts \in Nat \ {0}
  /\ Sequences \subseteq SeqNos
  /\ Intervals \subseteq Nat
  /\ MaxSessions \in Nat
  /\ MaxTime \in Nat

VARIABLES
  now,             \* the monotonic clock
  sessions,        \* the session table: a function on the live tokens
  exchange         \* history: the last request with the reply it got

vars == <<now, sessions, exchange>>

(* Session.  negotiated is params.interval_ns; paced and limited are history: *)
(* the client never sent an echo before its negotiated interval was over, and *)
(* some echo was dropped for lack of allowance.                               *)
Session ==
  [peer : Endpoints,
   negotiated : Nat,
   rate : [interval : Nat, allowance : 0 .. Burst, refilledAt : Nat],
   receive : [count : SeqNos, window : SUBSET (0 .. WindowBits - 1),
              last : SeqNos \cup {None}],
   lifetime : [lastActivity : Nat, firstServed : Nat \cup {None}],
   paced : BOOLEAN,
   limited : BOOLEAN]

NewSession(peer, requested, t) ==
  [peer |-> peer,
   negotiated |-> NegotiatedInterval(requested),
   rate |-> NewRate(NegotiatedInterval(requested), t),
   receive |-> NewReceive,
   lifetime |-> OpenedAt(t),
   paced |-> TRUE,
   limited |-> FALSE]

Silence == [kind |-> "silence"]
Failure == [kind |-> "failure"]       \* ServerError: nothing was committed
Exchange(request, reply) == exchange' = [request |-> request, reply |-> reply]

Init ==
  /\ now = 0
  /\ sessions = [t \in {} |-> None]
  /\ exchange = [request |-> Silence, reply |-> Silence]

(* Mutant: nothing is released.                                                *)
ReleaseNothing == sessions

(* release_expired_sessions: what the table holds after the sweep.            *)
ReleaseExpired ==
  Restrict(sessions,
           { t \in DOMAIN sessions : ~IsIdleExpired(sessions[t].lifetime, now) })

(* Mutant: any endpoint that knows the token.                                  *)
TokenOnly(table, token, peer) == token \in DOMAIN table

(* The token names a session and the datagram came from its own endpoint.     *)
Owns(table, token, peer) ==
  token \in DOMAIN table /\ table[token].peer = peer

(* Requests arrive while the clock has room for what they start to time out.  *)
Arrives == now + IdleTimeout <= MaxTime

(* Undecodable or unauthenticated: process returns before the sweep.          *)
Discard ==
  /\ Exchange([kind |-> "invalid"], Silence)
  /\ UNCHANGED <<now, sessions>>

(* Authenticated, but dropped after the sweep: an open whose parameters are   *)
(* inadmissible or not executable, an echo longer than max_packet_length.     *)
Refuse ==
  /\ Arrives
  /\ \E kind \in {"refusedOpen", "oversized"} : Exchange([kind |-> kind], Silence)
  /\ sessions' = ReleaseExpired
  /\ UNCHANGED now

(***************************************************************************)
(* handle_open                                                              *)
(***************************************************************************)
(* The first of TokenAttempts draws that is neither zero nor live; None:      *)
(* TokenExhausted.                                                             *)
AllocateToken(table, draws) ==
  LET usable == { i \in DOMAIN draws :
                    draws[i] # 0 /\ draws[i] \notin DOMAIN table }
  IN  IF usable = {} THEN None
      ELSE draws[CHOOSE i \in usable : \A j \in usable : i <= j]

HasRoom(table) == Cardinality(DOMAIN table) < MaxSessions

Insert(table, token, s) ==
  [t \in DOMAIN table \cup {token} |-> IF t = token THEN s ELSE table[t]]

(* The token source or the encoder may fail; the table is touched last.       *)
HandleOpen(peer, requested, draws, encodes) ==
  LET table == ReleaseExpired
      token == AllocateToken(table, draws)
      request == [kind |-> "open", peer |-> peer, interval |-> requested]
  IN  /\ Arrives
      /\ \/ /\ ~HasRoom(table)
            /\ Exchange(request, Silence)
            /\ sessions' = table
         \/ /\ HasRoom(table)
            /\ token = None \/ ~encodes
            /\ Exchange(request, Failure)
            /\ sessions' = table
         \/ /\ HasRoom(table)
            /\ token # None /\ encodes
            /\ Exchange(request, [kind |-> "opened", token |-> token])
            /\ sessions' = Insert(table, token, NewSession(peer, requested, now))
      /\ UNCHANGED now

(* A no-test open is answered with a zero token and creates nothing.          *)
HandleNoTest(peer, encodes) ==
  /\ Arrives
  /\ Exchange([kind |-> "noTest", peer |-> peer],
              IF encodes THEN [kind |-> "noTest", token |-> 0] ELSE Failure)
  /\ sessions' = ReleaseExpired
  /\ UNCHANGED now

HandleClose(peer, token) ==
  LET table == ReleaseExpired IN
  /\ Arrives
  /\ Exchange([kind |-> "close", peer |-> peer, token |-> token], Silence)
  /\ sessions' = IF Owns(table, token, peer)
                 THEN Restrict(table, DOMAIN table \ {token}) ELSE table
  /\ UNCHANGED now

(***************************************************************************)
(* handle_echo                                                              *)
(***************************************************************************)
(* The client kept its distance: its first echo, or a negotiated interval     *)
(* after the one before.                                                       *)
KeepsPace(s) ==
  s.paced /\ (s.receive.last = None \/ now - s.lifetime.lastActivity >= s.negotiated)

Limit(s) ==
  [s EXCEPT !.rate = Charge(s.rate, now).next,
            !.lifetime = Refreshed(@, now),
            !.paced = KeepsPace(s), !.limited = TRUE]

Serve(s, seq) ==
  [s EXCEPT !.rate = Charge(s.rate, now).next,
            !.receive = Accepted(@, seq),
            !.lifetime = Served(@, now),
            !.paced = KeepsPace(s)]

(* The allowance is judged before the maximum duration; nothing is committed  *)
(* for a served echo until its reply is encoded.                              *)
HandleEcho(peer, token, seq, encodes) ==
  LET table == ReleaseExpired
      s == table[token]
      allowed == Charge(s.rate, now).allowed
      closing == MaxDurationReached(s.lifetime, now)
      next == Accepted(s.receive, seq)
      request == [kind |-> "echo", peer |-> peer, token |-> token, seq |-> seq]
  IN  /\ Arrives
      /\ \/ /\ ~Owns(table, token, peer)
            /\ Exchange(request, Silence)
            /\ sessions' = table
         \/ /\ Owns(table, token, peer)
            /\ ~allowed
            /\ Exchange(request, Silence)
            /\ sessions' = [table EXCEPT ![token] = Limit(s)]
         \/ /\ Owns(table, token, peer)
            /\ allowed /\ ~encodes
            /\ Exchange(request, Failure)
            /\ sessions' = table
         \/ /\ Owns(table, token, peer)
            /\ allowed /\ encodes
            /\ Exchange(request, [kind |-> "echo", close |-> closing,
                                  count |-> next.count, window |-> next.window])
            /\ sessions' = IF closing THEN Restrict(table, DOMAIN table \ {token})
                           ELSE [table EXCEPT ![token] = Serve(s, seq)]
      /\ UNCHANGED now

(* The runtime's maintenance timer.                                            *)
Maintain ==
  /\ sessions' = ReleaseExpired
  /\ UNCHANGED <<now, exchange>>

Tick ==
  /\ now < MaxTime
  /\ now' = now + 1
  /\ UNCHANGED <<sessions, exchange>>

Next ==
  \/ Discard
  \/ Refuse
  \/ \E peer \in Endpoints, requested \in Intervals, encodes \in BOOLEAN,
        draws \in [1 .. TokenAttempts -> Tokens] :
       HandleOpen(peer, requested, draws, encodes)
  \/ \E peer \in Endpoints, encodes \in BOOLEAN : HandleNoTest(peer, encodes)
  \/ \E peer \in Endpoints, token \in Tokens : HandleClose(peer, token)
  \/ \E peer \in Endpoints, token \in Tokens, seq \in Sequences, encodes \in BOOLEAN :
       HandleEcho(peer, token, seq, encodes)
  \/ Maintain
  \/ Tick

Spec == Init /\ [][Next]_vars

(* The clock runs and the runtime's maintenance interval keeps firing.        *)
FairSpec == Spec /\ WF_vars(Tick) /\ WF_vars(Maintain)

(***************************************************************************)
(* Properties                                                               *)
(***************************************************************************)
(* The table maps non-zero tokens to well-formed sessions, no allowance       *)
(* exceeds the burst and no recorded instant is in the future.                *)
TypeOK ==
  /\ now \in Nat
  /\ DOMAIN sessions \subseteq Tokens \ {0}
  /\ sessions \in [DOMAIN sessions -> Session]
  /\ \A t \in DOMAIN sessions :
       /\ sessions[t].rate.refilledAt <= now
       /\ sessions[t].lifetime.lastActivity <= now
       /\ sessions[t].lifetime.firstServed <= sessions[t].lifetime.lastActivity

(* The table never holds more than max_sessions sessions, expired ones whose  *)
(* memory has not been reclaimed included.                                     *)
TableBounded == Cardinality(DOMAIN sessions) <= MaxSessions

(* "A server must not enforce a cadence it did not advertise" (session.rs): a *)
(* client that always waits the negotiated interval never has an echo dropped *)
(* for lack of allowance, even where the idle cap took that interval below    *)
(* the configured minimum.                                                    *)
PacedNeverLimited ==
  Burst > 0 =>
    \A t \in DOMAIN sessions : sessions[t].paced => ~sessions[t].limited

(* Clients cannot tell the lazily swept table with its whole-interval         *)
(* allowances from a server that expires sessions at the very instant of      *)
(* their deadline and rations replies by a fluid bucket.                      *)
Level(s) ==
  Lesser(Burst * s.rate.interval,
         s.rate.allowance * s.rate.interval + (now - s.rate.refilledAt))
Promised(s) ==
  [peer |-> s.peer, interval |-> s.rate.interval, level |-> Level(s),
   idleLeft |-> IdleTimeout - (now - s.lifetime.lastActivity),
   age |-> IF s.lifetime.firstServed = None THEN None
           ELSE Lesser(now - s.lifetime.firstServed, MaxTestDuration + Grace),
   receive |-> s.receive]
Promise == INSTANCE ServerPromise WITH
  live <- [t \in DOMAIN ReleaseExpired |-> Promised(sessions[t])]
KeepsPromise == Promise!PSpec

(* A session whose client fell silent - an abandoned test, a lost close, the  *)
(* orphan of a retried open - is eventually removed from the table.           *)
IdleReclaimed ==
  \A t \in Tokens, a \in 0 .. MaxTime :
    (t \in DOMAIN sessions /\ sessions[t].lifetime.lastActivity = a)
      ~> ~(t \in DOMAIN sessions /\ sessions[t].lifetime.lastActivity = a)
=============================================================================
