---------------------------- MODULE ServerPromise ----------------------------
(* What an irtt-rs server promises its clients, stated without its tables: a  *)
(* session is gone the very instant its idle deadline passes, replies are     *)
(* rationed by a fluid token bucket that gains 1/interval of a reply per tick,*)
(* and the first reply owed at or after the end of the test carries Close and *)
(* is the session's last.  Each datagram gets exactly the reply stated here.  *)
EXTENDS ServerSession, Functions

CONSTANTS
  Endpoints,       \* source endpoints of clients
  Tokens,          \* session tokens, 0 reserved for no-test replies
  Sequences,       \* sequence numbers clients use
  Intervals,       \* send intervals clients ask for
  MaxSessions      \* config.max_sessions

VARIABLES
  live,            \* live[t]: what the server owes the owner of token t
  exchange         \* the last request with its reply

pvars == <<live, exchange>>

Silence == [kind |-> "silence"]
Failure == [kind |-> "failure"]

Reply(request, reply) == exchange' = [request |-> request, reply |-> reply]

Deadline == MaxTestDuration + Grace

PInit ==
  /\ live = [t \in {} |-> None]
  /\ exchange = [request |-> Silence, reply |-> Silence]

(* One tick: the bucket fills, the idle timer runs down, the test ages.       *)
Aged(s) ==
  [s EXCEPT !.level = Lesser(@ + 1, Burst * s.interval),
            !.idleLeft = @ - 1,
            !.age = IF @ = None THEN None ELSE Lesser(@ + 1, Deadline)]

PTick ==
  /\ live' = LET aged == [t \in DOMAIN live |-> Aged(live[t])]
             IN  Restrict(aged, { t \in DOMAIN live : aged[t].idleLeft > 0 })
  /\ UNCHANGED exchange

(* A silent drop of anything malformed, unauthenticated, not executable or    *)
(* too long.                                                                   *)
PDiscard ==
  /\ \E kind \in {"invalid", "refusedOpen", "oversized"} : Reply([kind |-> kind], Silence)
  /\ UNCHANGED live

POpen(peer, requested) ==
  LET request == [kind |-> "open", peer |-> peer, interval |-> requested]
      interval == RefillInterval(NegotiatedInterval(requested))
      fresh == [peer |-> peer, interval |-> interval, level |-> Burst * interval,
                idleLeft |-> IdleTimeout, age |-> None, receive |-> NewReceive]
  IN  \/ /\ Cardinality(DOMAIN live) >= MaxSessions
         /\ Reply(request, Silence) /\ UNCHANGED live
      \/ /\ Cardinality(DOMAIN live) < MaxSessions
         /\ Reply(request, Failure) /\ UNCHANGED live
      \/ /\ Cardinality(DOMAIN live) < MaxSessions
         /\ \E t \in Tokens \ ({0} \cup DOMAIN live) :
              /\ Reply(request, [kind |-> "opened", token |-> t])
              /\ live' = IF IdleTimeout = 0 THEN live
                         ELSE [u \in DOMAIN live \cup {t} |->
                                 IF u = t THEN fresh ELSE live[u]]

PNoTest(peer) ==
  /\ \E answer \in {[kind |-> "noTest", token |-> 0], Failure} :
       Reply([kind |-> "noTest", peer |-> peer], answer)
  /\ UNCHANGED live

PClose(peer, token) ==
  /\ Reply([kind |-> "close", peer |-> peer, token |-> token], Silence)
  /\ live' = IF token \in DOMAIN live /\ live[token].peer = peer
             THEN Restrict(live, DOMAIN live \ {token}) ELSE live

PEcho(peer, token, seq) ==
  LET request == [kind |-> "echo", peer |-> peer, token |-> token, seq |-> seq]
      s == live[token]
      receive == Accepted(s.receive, seq)
      over == MaxTestDuration # 0 /\ s.age # None /\ s.age >= Deadline
      owed == Burst > 0 /\ s.level >= s.interval
      answer == [kind |-> "echo", close |-> over, count |-> receive.count,
                 window |-> receive.window]
      kept == [s EXCEPT !.idleLeft = IdleTimeout]
      answered == [kept EXCEPT !.level = @ - s.interval, !.receive = receive,
                               !.age = IF @ = None THEN 0 ELSE @]
  IN  \/ /\ token \notin DOMAIN live \/ live[token].peer # peer
         /\ Reply(request, Silence) /\ UNCHANGED live
      \/ /\ token \in DOMAIN live /\ s.peer = peer
         /\ ~owed
         /\ Reply(request, Silence)
         /\ live' = [live EXCEPT ![token] = kept]
      \/ /\ token \in DOMAIN live /\ s.peer = peer
         /\ owed
         /\ \/ Reply(request, Failure) /\ UNCHANGED live
            \/ /\ Reply(request, answer)
               /\ live' = IF over THEN Restrict(live, DOMAIN live \ {token})
                          ELSE [live EXCEPT ![token] = answered]

PNext ==
  \/ PTick
  \/ PDiscard
  \/ \E peer \in Endpoints, requested \in Intervals : POpen(peer, requested)
  \/ \E peer \in Endpoints : PNoTest(peer)
  \/ \E peer \in Endpoints, token \in Tokens : PClose(peer, token)
  \/ \E peer \in Endpoints, token \in Tokens, seq \in Sequences :
       PEcho(peer, token, seq)

PSpec == PInit /\ [][PNext]_pvars
=============================================================================
