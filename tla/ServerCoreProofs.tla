--------------------------- MODULE ServerCoreProofs ---------------------------
(* Machine-checked proofs about the server core, for every configuration,     *)
(* every set of endpoints and tokens and every clock value, and about its     *)
(* received window, for every size of the sequence space and of the window.   *)
EXTENDS ServerCore, ReceiveWindow, FiniteSetTheorems, WellFoundedInduction, TLAPS

RateType == [interval : Nat, allowance : 0 .. Burst, refilledAt : Nat]
ReceiveType == [count : SeqNos, window : SUBSET (0 .. WindowBits - 1),
                last : SeqNos \cup {None}]
LifetimeType == [lastActivity : Nat, firstServed : Nat \cup {None}]

(* A session none of whose instants lies after t.                             *)
Sound(s, t) ==
  /\ s \in Session
  /\ s.rate.refilledAt <= t
  /\ s.lifetime.lastActivity <= t
  /\ s.lifetime.firstServed <= s.lifetime.lastActivity

Table(f, t) ==
  /\ DOMAIN f \subseteq Tokens \ {0}
  /\ f \in [DOMAIN f -> Session]
  /\ \A k \in DOMAIN f : Sound(f[k], t)

(* Replenishing keeps the allowance within the burst and the account within   *)
(* the past: the carried remainder never moves it beyond now.                 *)
LEMMA ReplenishFacts ==
  ASSUME NEW r \in RateType, NEW t \in Nat, r.refilledAt <= t, r.interval # 0
  PROVE  /\ Replenish(r, t) \in RateType
         /\ Replenish(r, t).refilledAt <= t
         /\ Replenish(r, t).interval = r.interval
<1> DEFINE elapsed == t - r.refilledAt
           gained == elapsed \div r.interval
<1>1. elapsed \in Nat /\ r.interval \in Nat \ {0} /\ Burst \in Nat
  BY SessionAssumption DEF RateType
<1>2. gained \in Nat /\ gained * r.interval <= elapsed
  BY <1>1
<1>3. gained * r.interval \in Nat
  BY <1>1, <1>2
<1> HIDE DEF gained
<1>4. Replenish(r, t) =
        IF r.allowance >= Burst
        THEN [r EXCEPT !.allowance = Burst, !.refilledAt = t]
        ELSE IF elapsed < r.interval THEN r
        ELSE [r EXCEPT !.allowance = Lesser(r.allowance + gained, Burst),
                       !.refilledAt = IF Lesser(r.allowance + gained, Burst) = Burst
                                      THEN t ELSE @ + gained * r.interval]
  BY DEF Replenish, gained
<1>5. Lesser(r.allowance + gained, Burst) \in 0 .. Burst
  BY <1>1, <1>2 DEF Lesser, RateType
<1>6. r.refilledAt + gained * r.interval \in Nat
      /\ r.refilledAt + gained * r.interval <= t
  BY <1>2, <1>3 DEF RateType
<1>7. CASE r.allowance >= Burst
  <2> DEFINE a == Burst
             f == t
  <2>1. Replenish(r, t) = [r EXCEPT !.allowance = a, !.refilledAt = f]
    BY <1>4, <1>7
  <2>2. a \in 0 .. Burst /\ f \in Nat /\ f <= t
    BY <1>1
  <2> HIDE DEF a, f
  <2> QED
    BY <2>1, <2>2 DEF RateType
<1>8. CASE ~(r.allowance >= Burst) /\ elapsed < r.interval
  BY <1>4, <1>8
<1>9. CASE ~(r.allowance >= Burst) /\ ~(elapsed < r.interval)
  <2> DEFINE a == Lesser(r.allowance + gained, Burst)
             f == IF a = Burst THEN t ELSE r.refilledAt + gained * r.interval
  <2>1. Replenish(r, t) = [r EXCEPT !.allowance = a, !.refilledAt = f]
    BY <1>4, <1>9 DEF RateType
  <2>2. a \in 0 .. Burst /\ f \in Nat /\ f <= t
    BY <1>5, <1>6
  <2> HIDE DEF a, f
  <2> QED
    BY <2>1, <2>2 DEF RateType
<1> QED
  BY <1>7, <1>8, <1>9

LEMMA ChargeFacts ==
  ASSUME NEW r \in RateType, NEW t \in Nat, r.refilledAt <= t
  PROVE  /\ Charge(r, t).next \in RateType
         /\ Charge(r, t).next.refilledAt <= t
<1>1. CASE Burst = 0 \/ r.interval = 0
  BY <1>1 DEF Charge
<1>2. CASE Burst # 0 /\ r.interval # 0
  <2> DEFINE full == Replenish(r, t)
  <2>1. full \in RateType /\ full.refilledAt <= t
    BY <1>2, ReplenishFacts
  <2>2. Charge(r, t).next =
          IF full.allowance = 0 THEN full ELSE [full EXCEPT !.allowance = @ - 1]
    BY <1>2 DEF Charge
  <2> HIDE DEF full
  <2>3. Burst \in Nat
    BY SessionAssumption
  <2> QED
    BY <2>1, <2>2, <2>3 DEF RateType
<1> QED
  BY <1>1, <1>2

LEMMA AcceptedFacts ==
  ASSUME NEW r \in ReceiveType, NEW q \in SeqNos
  PROVE  Accepted(r, q) \in ReceiveType
<1>1. SeqSpace \in Nat \ {0} /\ WindowBits \in Nat \ {0}
  BY SessionAssumption
<1>2. (r.count + 1) % SeqSpace \in SeqNos
  BY <1>1 DEF SeqNos, ReceiveType
<1>3. Window(r, q) \in SUBSET (0 .. WindowBits - 1)
  BY <1>1 DEF Window
<1> QED
  BY <1>2, <1>3 DEF Accepted, ReceiveType

LEMMA LimitFacts ==
  ASSUME NEW s, now \in Nat, Sound(s, now)
  PROVE  Sound(Limit(s), now)
<1>1. s \in Session /\ s.rate \in RateType /\ s.lifetime \in LifetimeType
  BY DEF Sound, Session, RateType, LifetimeType
<1>2. Charge(s.rate, now).next \in RateType
      /\ Charge(s.rate, now).next.refilledAt <= now
  BY <1>1, ChargeFacts DEF Sound
<1>3. KeepsPace(s) \in BOOLEAN
  BY <1>1 DEF KeepsPace, Session
<1>4. Refreshed(s.lifetime, now) \in LifetimeType
      /\ Refreshed(s.lifetime, now).lastActivity = now
      /\ Refreshed(s.lifetime, now).firstServed <= now
  BY <1>1 DEF Refreshed, LifetimeType, Sound, None
<1> DEFINE c == Charge(s.rate, now).next
           l == Refreshed(s.lifetime, now)
<1>5. Limit(s) = [s EXCEPT !.rate = c, !.lifetime = l,
                           !.paced = KeepsPace(s), !.limited = TRUE]
  BY <1>1 DEF Limit, Session
<1> HIDE DEF c, l
<1>6. c \in RateType /\ c.refilledAt <= now /\ l \in LifetimeType
      /\ l.lastActivity = now /\ l.firstServed <= now
  BY <1>2, <1>4 DEF c, l
<1>7. Limit(s) \in Session /\ Limit(s).rate = c /\ Limit(s).lifetime = l
  BY <1>1, <1>3, <1>5, <1>6 DEF Session, RateType, LifetimeType
<1> QED
  BY <1>6, <1>7 DEF Sound

LEMMA ServeFacts ==
  ASSUME NEW s, NEW q \in SeqNos, now \in Nat, Sound(s, now)
  PROVE  Sound(Serve(s, q), now)
<1>1. s \in Session /\ s.rate \in RateType /\ s.lifetime \in LifetimeType
      /\ s.receive \in ReceiveType
  BY DEF Sound, Session, RateType, LifetimeType, ReceiveType
<1> DEFINE c == Charge(s.rate, now).next
           l == Served(s.lifetime, now)
           a == Accepted(s.receive, q)
<1>2. c \in RateType /\ c.refilledAt <= now
  BY <1>1, ChargeFacts DEF Sound
<1>3. KeepsPace(s) \in BOOLEAN
  BY <1>1 DEF KeepsPace, Session
<1>4. l \in LifetimeType /\ l.lastActivity = now /\ l.firstServed <= now
  BY <1>1 DEF Served, LifetimeType, Sound, None
<1>5. a \in ReceiveType
  BY <1>1, AcceptedFacts
<1>6. Serve(s, q) = [s EXCEPT !.rate = c, !.receive = a, !.lifetime = l,
                              !.paced = KeepsPace(s)]
  BY <1>1 DEF Serve, Session
<1> HIDE DEF c, l, a
<1>7. Serve(s, q) \in Session /\ Serve(s, q).rate = c /\ Serve(s, q).lifetime = l
  BY <1>1, <1>2, <1>3, <1>4, <1>5, <1>6
     DEF Session, RateType, LifetimeType, ReceiveType
<1> QED
  BY <1>2, <1>4, <1>7 DEF Sound

LEMMA NewSessionFacts ==
  ASSUME NEW peer \in Endpoints, NEW requested \in Nat, now \in Nat
  PROVE  Sound(NewSession(peer, requested, now), now)
<1>1. IdleTimeout \in Nat /\ MinSendInterval \in Nat /\ Burst \in Nat
      /\ SeqSpace \in Nat \ {0}
  BY SessionAssumption
<1>2. IdleTimeout \div 4 \in Nat
  BY <1>1
<1>3. NegotiatedInterval(requested) \in Nat
  BY <1>1, <1>2 DEF NegotiatedInterval
<1>4. RefillInterval(NegotiatedInterval(requested)) \in Nat
  BY <1>1, <1>3 DEF RefillInterval, Lesser
<1>5. NewRate(NegotiatedInterval(requested), now) \in RateType
  BY <1>1, <1>4 DEF NewRate, RateType
<1>6. NewReceive \in ReceiveType /\ OpenedAt(now) \in LifetimeType
  BY <1>1 DEF NewReceive, OpenedAt, ReceiveType, LifetimeType, SeqNos, None
<1>7. NewSession(peer, requested, now) \in Session
  BY <1>3, <1>5, <1>6 DEF NewSession, Session, RateType, ReceiveType, LifetimeType
<1> QED
  BY <1>7 DEF Sound, NewSession, NewRate, OpenedAt, None

(***************************************************************************)
(* The table                                                                *)
(***************************************************************************)
LEMMA RestrictFacts ==
  ASSUME NEW f, NEW t, Table(f, t), NEW S \in SUBSET DOMAIN f
  PROVE  Table(Restrict(f, S), t) /\ DOMAIN Restrict(f, S) = S
<1>1. DOMAIN Restrict(f, S) = S /\ \A k \in S : Restrict(f, S)[k] = f[k]
  BY DEF Restrict
<1>2. Restrict(f, S) \in [S -> Session]
  BY DEF Restrict, Table, Sound
<1> QED
  BY <1>1, <1>2 DEF Table

LEMMA UpdateFacts ==
  ASSUME NEW f, NEW t, Table(f, t), NEW k \in DOMAIN f, NEW s, Sound(s, t)
  PROVE  /\ Table([f EXCEPT ![k] = s], t)
         /\ DOMAIN [f EXCEPT ![k] = s] = DOMAIN f
<1> DEFINE g == [f EXCEPT ![k] = s]
<1>1. DOMAIN g = DOMAIN f /\ \A j \in DOMAIN f : g[j] = IF j = k THEN s ELSE f[j]
  BY DEF Table
<1>2. g \in [DOMAIN f -> Session]
  BY DEF Table, Sound
<1> HIDE DEF g
<1>3. Table(g, t)
  BY <1>1, <1>2 DEF Table
<1> QED
  BY <1>1, <1>3 DEF g

LEMMA InsertFacts ==
  ASSUME NEW f, NEW t, Table(f, t), NEW k \in Tokens \ {0}, NEW s, Sound(s, t)
  PROVE  Table(Insert(f, k, s), t) /\ DOMAIN Insert(f, k, s) = DOMAIN f \cup {k}
<1> DEFINE g == Insert(f, k, s)
<1>1. DOMAIN g = DOMAIN f \cup {k}
      /\ \A j \in DOMAIN g : g[j] = IF j = k THEN s ELSE f[j]
  BY DEF Insert
<1>2. \A j \in DOMAIN g : Sound(g[j], t)
  BY <1>1 DEF Table
<1>3. g \in [DOMAIN g -> Session]
  BY <1>1, <1>2 DEF Sound, Insert
<1> HIDE DEF g
<1>4. Table(g, t)
  BY <1>1, <1>2, <1>3 DEF Table
<1> QED
  BY <1>1, <1>4 DEF g

(* The inductive invariant of the table: well-formed, finite and bounded.     *)
Bounded(f) == IsFiniteSet(DOMAIN f) /\ Cardinality(DOMAIN f) <= MaxSessions
CoreInv == now \in Nat /\ Table(sessions, now) /\ Bounded(sessions)

LEMMA ShrinkFacts ==
  ASSUME NEW f, NEW g, Bounded(f), DOMAIN g \subseteq DOMAIN f
  PROVE  Bounded(g)
<1>1. IsFiniteSet(DOMAIN g) /\ Cardinality(DOMAIN g) <= Cardinality(DOMAIN f)
  BY FS_Subset DEF Bounded
<1>2. Cardinality(DOMAIN g) \in Nat /\ Cardinality(DOMAIN f) \in Nat
  BY <1>1, FS_CardinalityType DEF Bounded
<1>3. MaxSessions \in Nat
  BY CoreAssumption
<1> QED
  BY <1>1, <1>2, <1>3 DEF Bounded

LEMMA SweepFacts ==
  ASSUME CoreInv
  PROVE  Table(ReleaseExpired, now) /\ Bounded(ReleaseExpired)
<1> DEFINE S == { t \in DOMAIN sessions : ~IsIdleExpired(sessions[t].lifetime, now) }
<1>1. S \in SUBSET DOMAIN sessions
  OBVIOUS
<1>2. Table(Restrict(sessions, S), now) /\ DOMAIN Restrict(sessions, S) = S
  BY <1>1, RestrictFacts DEF CoreInv
<1>3. ReleaseExpired = Restrict(sessions, S)
  BY DEF ReleaseExpired
<1> HIDE DEF S
<1>4. DOMAIN ReleaseExpired \subseteq DOMAIN sessions
  BY <1>1, <1>2, <1>3
<1> QED
  BY <1>2, <1>3, <1>4, ShrinkFacts DEF CoreInv

LEMMA TokenFacts ==
  ASSUME NEW f, NEW draws \in [1 .. TokenAttempts -> Tokens],
         AllocateToken(f, draws) # None
  PROVE  AllocateToken(f, draws) \in Tokens \ {0}
         /\ AllocateToken(f, draws) \notin DOMAIN f
<1> DEFINE usable == { i \in DOMAIN draws :
                         draws[i] # 0 /\ draws[i] \notin DOMAIN f }
<1>1. usable # {}
  BY DEF AllocateToken
<1>2. usable \subseteq Nat
  BY CoreAssumption
<1>3. \E i \in usable : \A j \in usable : i <= j
  <2> DEFINE less == OpToRel(<, Nat)
  <2>1. \A i, j \in Nat : <<j, i>> \in less <=> j < i
    BY DEF OpToRel
  <2>2. IsWellFoundedOn(less, Nat)
    BY NatLessThanWellFounded
  <2> HIDE DEF less, usable
  <2>3. PICK i \in usable : \A j \in usable : ~(<<j, i>> \in less)
    BY <1>1, <1>2, <2>2, WFMin
  <2>4. ASSUME NEW j \in usable PROVE i <= j
    <3>1. i \in Nat /\ j \in Nat /\ ~(<<j, i>> \in less)
      BY <1>2, <2>3
    <3>2. ~(j < i)
      BY <2>1, <3>1
    <3> QED
      BY <3>1, <3>2
  <2> QED
    BY <2>4
<1>4. PICK i \in usable : AllocateToken(f, draws) = draws[i]
  BY <1>1, <1>3 DEF AllocateToken
<1> QED
  BY <1>4

LEMMA OpenPreservesCoreInv ==
  ASSUME CoreInv, NEW peer \in Endpoints, NEW requested \in Intervals,
         NEW draws \in [1 .. TokenAttempts -> Tokens], NEW encodes \in BOOLEAN,
         HandleOpen(peer, requested, draws, encodes)
  PROVE  CoreInv'
<1> DEFINE table == ReleaseExpired
           token == AllocateToken(table, draws)
           s == NewSession(peer, requested, now)
<1>1. Table(table, now) /\ Bounded(table) /\ now \in Nat /\ now' = now
  BY SweepFacts DEF CoreInv, HandleOpen
<1>2. CASE sessions' = table
  BY <1>1, <1>2 DEF CoreInv, Table, Bounded
<1>3. CASE /\ HasRoom(table) /\ token # None
           /\ sessions' = Insert(table, token, s)
  <2> DEFINE g == Insert(table, token, s)
  <2>1. sessions' = g /\ HasRoom(table)
    BY <1>3
  <2>2. requested \in Nat
    BY CoreAssumption
  <2>3. Sound(s, now)
    BY <1>1, <2>2, NewSessionFacts
  <2>4. token \in Tokens \ {0} /\ token \notin DOMAIN table
    BY <1>3, TokenFacts
  <2> HIDE DEF table, token, s
  <2>5. Table(g, now) /\ DOMAIN g = DOMAIN table \cup {token}
    BY <1>1, <2>3, <2>4, InsertFacts
  <2>6. IsFiniteSet(DOMAIN table \cup {token})
        /\ Cardinality(DOMAIN table \cup {token}) = Cardinality(DOMAIN table) + 1
    BY <1>1, <2>4, FS_AddElement DEF Bounded
  <2>7. Cardinality(DOMAIN table) \in Nat /\ MaxSessions \in Nat
    BY <1>1, FS_CardinalityType, CoreAssumption DEF Bounded
  <2>8. Cardinality(DOMAIN table) + 1 <= MaxSessions
    BY <2>1, <2>7 DEF HasRoom
  <2> HIDE DEF g
  <2> QED
    BY <1>1, <2>1, <2>5, <2>6, <2>8 DEF CoreInv, Bounded, Table
<1>4. \/ sessions' = table
      \/ /\ HasRoom(table) /\ token # None
         /\ sessions' = Insert(table, token, s)
  BY DEF HandleOpen
<1> QED
  BY <1>2, <1>3, <1>4

LEMMA EchoPreservesCoreInv ==
  ASSUME CoreInv, NEW peer \in Endpoints, NEW token \in Tokens,
         NEW seq \in Sequences, NEW encodes \in BOOLEAN,
         HandleEcho(peer, token, seq, encodes)
  PROVE  CoreInv'
<1> DEFINE table == ReleaseExpired
           s == table[token]
<1>1. Table(table, now) /\ Bounded(table) /\ now \in Nat /\ now' = now
  BY SweepFacts DEF CoreInv, HandleEcho
<1>2. CASE sessions' = table
  BY <1>1, <1>2 DEF CoreInv, Table, Bounded
<1>3. ASSUME NEW u, Sound(u, now), token \in DOMAIN table,
             sessions' = [table EXCEPT ![token] = u]
      PROVE  CoreInv'
  <2> HIDE DEF table
  <2>1. Table(sessions', now) /\ DOMAIN sessions' = DOMAIN table
    BY <1>1, <1>3, UpdateFacts
  <2>2. Bounded(sessions')
    BY <1>1, <2>1 DEF Bounded
  <2> QED
    BY <1>1, <2>1, <2>2 DEF CoreInv, Table, Bounded
<1>4. CASE token \in DOMAIN table /\ sessions' = [table EXCEPT ![token] = Limit(s)]
  <2>1. Sound(s, now)
    BY <1>1, <1>4 DEF Table
  <2>2. Sound(Limit(s), now)
    BY <1>1, <2>1, LimitFacts
  <2> QED
    BY <1>3, <1>4, <2>2
<1>5. CASE token \in DOMAIN table /\ sessions' = [table EXCEPT ![token] = Serve(s, seq)]
  <2>1. Sound(s, now) /\ seq \in SeqNos
    BY <1>1, <1>5, CoreAssumption DEF Table
  <2>2. Sound(Serve(s, seq), now)
    BY <1>1, <2>1, ServeFacts
  <2> QED
    BY <1>3, <1>5, <2>2
<1>6. CASE sessions' = Restrict(table, DOMAIN table \ {token})
  <2> HIDE DEF table
  <2>1. DOMAIN table \ {token} \in SUBSET DOMAIN table
    OBVIOUS
  <2>2. Table(sessions', now) /\ DOMAIN sessions' = DOMAIN table \ {token}
    BY <1>1, <1>6, <2>1, RestrictFacts
  <2>3. Bounded(sessions')
    BY <1>1, <2>2, ShrinkFacts
  <2> QED
    BY <1>1, <2>2, <2>3 DEF CoreInv, Table, Bounded
<1>7. \/ sessions' = table
      \/ token \in DOMAIN table /\ sessions' = [table EXCEPT ![token] = Limit(s)]
      \/ token \in DOMAIN table /\ sessions' = [table EXCEPT ![token] = Serve(s, seq)]
      \/ sessions' = Restrict(table, DOMAIN table \ {token})
  BY DEF HandleEcho, Owns
<1> QED
  BY <1>2, <1>4, <1>5, <1>6, <1>7

LEMMA OthersPreserveCoreInv ==
  ASSUME CoreInv,
         \/ Discard \/ Refuse \/ Maintain \/ Tick \/ UNCHANGED vars
         \/ \E peer \in Endpoints, encodes \in BOOLEAN : HandleNoTest(peer, encodes)
         \/ \E peer \in Endpoints, token \in Tokens : HandleClose(peer, token)
  PROVE  CoreInv'
<1> DEFINE table == ReleaseExpired
<1>1. Table(table, now) /\ Bounded(table) /\ now \in Nat
  BY SweepFacts DEF CoreInv
<1>2. CASE sessions' = table /\ now' = now
  BY <1>1, <1>2 DEF CoreInv, Table, Bounded
<1>3. CASE sessions' = sessions /\ now' = now
  BY <1>3 DEF CoreInv, Table, Bounded
<1>4. CASE Tick
  <2>1. now' \in Nat /\ now <= now' /\ sessions' = sessions
    BY <1>1, <1>4 DEF Tick
  <2>2. \A k \in DOMAIN sessions : Sound(sessions[k], now')
    <3> SUFFICES ASSUME NEW k \in DOMAIN sessions PROVE Sound(sessions[k], now')
      OBVIOUS
    <3>1. Sound(sessions[k], now)
      BY DEF CoreInv, Table
    <3>2. sessions[k].rate.refilledAt \in Nat /\ sessions[k].lifetime.lastActivity \in Nat
      BY <3>1 DEF Sound, Session
    <3> QED
      BY <1>1, <2>1, <3>1, <3>2 DEF Sound
  <2> QED
    BY <2>1, <2>2 DEF CoreInv, Table, Bounded
<1>5. ASSUME NEW token, sessions' = Restrict(table, DOMAIN table \ {token}), now' = now
      PROVE  CoreInv'
  <2> HIDE DEF table
  <2>1. DOMAIN table \ {token} \in SUBSET DOMAIN table
    OBVIOUS
  <2>2. Table(sessions', now) /\ DOMAIN sessions' = DOMAIN table \ {token}
    BY <1>1, <1>5, <2>1, RestrictFacts
  <2>3. Bounded(sessions')
    BY <1>1, <2>2, ShrinkFacts
  <2> QED
    BY <1>1, <1>5, <2>2, <2>3 DEF CoreInv, Table, Bounded
<1>6. \/ Tick
      \/ sessions' = table /\ now' = now
      \/ sessions' = sessions /\ now' = now
      \/ \E token \in Tokens :
           sessions' = Restrict(table, DOMAIN table \ {token}) /\ now' = now
  BY DEF Discard, Refuse, Maintain, HandleNoTest, HandleClose, vars
<1> QED
  BY <1>2, <1>3, <1>4, <1>5, <1>6

LEMMA CoreInvImplies ==
  ASSUME CoreInv
  PROVE  TypeOK /\ TableBounded
BY DEF CoreInv, TypeOK, Table, Sound, Bounded, TableBounded

(* In every reachable state the table is well formed, finite and within       *)
(* max_sessions.                                                               *)
THEOREM CoreInvariant == Spec => []CoreInv
<1>1. Init => CoreInv
  <2> SUFFICES ASSUME Init PROVE CoreInv
    OBVIOUS
  <2>1. DOMAIN sessions = {} /\ now = 0 /\ sessions \in [{} -> Session]
    BY DEF Init
  <2>2. IsFiniteSet({}) /\ Cardinality({}) = 0
    BY FS_EmptySet
  <2>3. MaxSessions \in Nat
    BY CoreAssumption
  <2> QED
    BY <2>1, <2>2, <2>3 DEF CoreInv, Table, Bounded
<1>2. CoreInv /\ [Next]_vars => CoreInv'
  BY OpenPreservesCoreInv, EchoPreservesCoreInv, OthersPreserveCoreInv DEF Next
<1> QED
  BY <1>1, <1>2, PTL DEF Spec

(* Type correctness of the server core.                                       *)
THEOREM ServerTypeCorrect == Spec => []TypeOK
BY CoreInvariant, CoreInvImplies, PTL

(* The session table never outgrows max_sessions.                             *)
THEOREM TableAlwaysBounded == Spec => []TableBounded
BY CoreInvariant, CoreInvImplies, PTL

(***************************************************************************)
(* Cadence: a client that keeps the negotiated interval is never limited    *)
(***************************************************************************)
(* The account is no younger than the last echo, units accrue at least as     *)
(* fast as was advertised, and a session never charged has its full burst.    *)
PaceKept(s) ==
  /\ s.rate.refilledAt <= s.lifetime.lastActivity
  /\ s.rate.interval <= s.negotiated
  /\ s.paced => ~s.limited
  /\ s.receive.last = None /\ ~s.limited => s.rate.allowance = Burst
PaceInv == \A k \in DOMAIN sessions : PaceKept(sessions[k])

LEMMA RefillWithinAdvertised ==
  ASSUME NEW requested \in Nat
  PROVE  RefillInterval(NegotiatedInterval(requested)) <= NegotiatedInterval(requested)
<1>1. IdleTimeout \in Nat /\ MinSendInterval \in Nat
  BY SessionAssumption
<1>2. IdleTimeout \div 4 \in Nat
  BY <1>1
<1>3. NegotiatedInterval(requested) \in Nat
      /\ (MinSendInterval # 0 => NegotiatedInterval(requested) # 0)
  BY <1>1, <1>2 DEF NegotiatedInterval
<1> QED
  BY <1>1, <1>3 DEF RefillInterval, Lesser

(* An interval after the account was settled, there is something to spend.    *)
LEMMA ReplenishGains ==
  ASSUME NEW r \in RateType, NEW t \in Nat, Burst > 0, r.interval # 0,
         r.refilledAt <= t, r.interval <= t - r.refilledAt \/ r.allowance = Burst
  PROVE  Replenish(r, t).allowance > 0
<1> DEFINE elapsed == t - r.refilledAt
           gained == elapsed \div r.interval
           a == Lesser(r.allowance + gained, Burst)
<1>1. elapsed \in Nat /\ r.interval \in Nat \ {0} /\ Burst \in Nat
      /\ r.allowance \in 0 .. Burst
  BY SessionAssumption DEF RateType
<1>2. CASE r.allowance >= Burst
  <2>1. Replenish(r, t) = [r EXCEPT !.allowance = Burst, !.refilledAt = t]
    BY <1>2 DEF Replenish
  <2>2. Replenish(r, t).allowance = Burst
    BY <2>1 DEF RateType
  <2> QED
    BY <1>1, <2>2
<1>3. CASE ~(r.allowance >= Burst)
  <2>1. r.interval <= elapsed
    BY <1>1, <1>3
  <2>2. gained \in Nat /\ gained >= 1
    BY <1>1, <2>1
  <2>3. a > 0
    BY <1>1, <2>2 DEF Lesser
  <2>4. Replenish(r, t).allowance = a
    BY <1>1, <1>3, <2>1 DEF Replenish, RateType
  <2> HIDE DEF a
  <2> QED
    BY <2>3, <2>4
<1> QED
  BY <1>2, <1>3

LEMMA PacedIsAllowed ==
  ASSUME NEW s, now \in Nat, Sound(s, now), PaceKept(s), Burst > 0, KeepsPace(s)
  PROVE  Charge(s.rate, now).allowed
<1>1. s.rate \in RateType /\ s.lifetime.lastActivity \in Nat /\ s.negotiated \in Nat
  BY DEF Sound, Session, RateType
<1>2. CASE s.rate.interval = 0
  BY <1>2, SessionAssumption DEF Charge
<1>3. CASE s.rate.interval # 0
  <2>1. CASE s.receive.last = None
    <3>1. s.rate.allowance = Burst
      BY <2>1 DEF PaceKept, KeepsPace
    <3> QED
      BY <1>1, <1>3, <3>1, ReplenishGains DEF Charge, Sound
  <2>2. CASE now - s.lifetime.lastActivity >= s.negotiated
    <3>1. s.rate.interval <= now - s.rate.refilledAt
      BY <1>1, <2>2 DEF PaceKept, RateType
    <3> QED
      BY <1>1, <1>3, <3>1, ReplenishGains DEF Charge, Sound
  <2> QED
    BY <2>1, <2>2 DEF KeepsPace
<1> QED
  BY <1>2, <1>3

LEMMA PaceKeptByEcho ==
  ASSUME NEW s, NEW q \in SeqNos, now \in Nat, Sound(s, now), PaceKept(s), Burst > 0
  PROVE  /\ PaceKept(Serve(s, q))
         /\ ~Charge(s.rate, now).allowed => PaceKept(Limit(s))
<1>1. s \in Session /\ s.rate \in RateType /\ s.lifetime \in LifetimeType
      /\ s.receive \in ReceiveType
  BY DEF Sound, Session, RateType, LifetimeType, ReceiveType
<1> DEFINE c == Charge(s.rate, now).next
<1>2. c.refilledAt <= now
  BY <1>1, ChargeFacts DEF Sound
<1>3. c.interval = s.rate.interval
  <2>1. CASE Burst = 0 \/ s.rate.interval = 0
    BY <2>1 DEF Charge
  <2>2. CASE Burst # 0 /\ s.rate.interval # 0
    <3>1. Replenish(s.rate, now) \in RateType
          /\ Replenish(s.rate, now).interval = s.rate.interval
      BY <1>1, <2>2, ReplenishFacts DEF Sound
    <3> QED
      BY <2>2, <3>1 DEF Charge, RateType
  <2> QED
    BY <2>1, <2>2
<1> HIDE DEF c
<1>4. PaceKept(Serve(s, q))
  <2> DEFINE v == Serve(s, q)
  <2>1. v.rate = c /\ v.lifetime.lastActivity = now /\ v.negotiated = s.negotiated
        /\ v.paced = KeepsPace(s) /\ v.limited = s.limited /\ v.receive.last = q
    BY <1>1 DEF Serve, Session, c, Served, Accepted
  <2> HIDE DEF v
  <2>2. q # None
    BY SessionAssumption DEF SeqNos, None
  <2>3. PaceKept(v)
    BY <1>2, <1>3, <2>1, <2>2 DEF PaceKept, KeepsPace
  <2> QED
    BY <2>3 DEF v
<1>5. ASSUME ~Charge(s.rate, now).allowed PROVE PaceKept(Limit(s))
  <2> DEFINE v == Limit(s)
  <2>1. v.rate = c /\ v.lifetime.lastActivity = now /\ v.negotiated = s.negotiated
        /\ v.paced = KeepsPace(s) /\ v.limited = TRUE
    BY <1>1 DEF Limit, Session, c, Refreshed, LifetimeType
  <2>2. ~KeepsPace(s)
    BY <1>5, PacedIsAllowed
  <2> HIDE DEF v
  <2>3. PaceKept(v)
    BY <1>2, <1>3, <2>1, <2>2 DEF PaceKept
  <2> QED
    BY <2>3 DEF v
<1> QED
  BY <1>4, <1>5

LEMMA SweptPace ==
  ASSUME CoreInv, PaceInv
  PROVE  \A k \in DOMAIN ReleaseExpired : PaceKept(ReleaseExpired[k])
BY DEF PaceInv, ReleaseExpired, Restrict

LEMMA NextPreservesPace ==
  ASSUME CoreInv, PaceInv, [Next]_vars, Burst > 0
  PROVE  PaceInv'
<1> DEFINE table == ReleaseExpired
<1>1. Table(table, now) /\ now \in Nat
  BY SweepFacts DEF CoreInv
<1>2. \A k \in DOMAIN table : PaceKept(table[k])
  BY SweptPace
<1>3. CASE sessions' = sessions
  BY <1>3 DEF PaceInv
<1>4. CASE sessions' = table
  BY <1>2, <1>4 DEF PaceInv
<1>5. ASSUME NEW S \in SUBSET DOMAIN table, sessions' = Restrict(table, S)
      PROVE  PaceInv'
  <2> HIDE DEF table
  <2> QED
    BY <1>2, <1>5 DEF PaceInv, Restrict
<1>6. ASSUME NEW token \in DOMAIN table, NEW v, PaceKept(v),
             sessions' = [table EXCEPT ![token] = v]
      PROVE  PaceInv'
  <2> HIDE DEF table
  <2>1. DOMAIN sessions' = DOMAIN table
        /\ \A k \in DOMAIN table : sessions'[k] = IF k = token THEN v ELSE table[k]
    BY <1>1, <1>6 DEF Table
  <2> QED
    BY <1>2, <1>6, <2>1 DEF PaceInv
<1>7. ASSUME NEW token, NEW v, PaceKept(v), sessions' = Insert(table, token, v)
      PROVE  PaceInv'
  <2> HIDE DEF table
  <2>1. DOMAIN sessions' = DOMAIN table \cup {token}
        /\ \A k \in DOMAIN sessions' : sessions'[k] = IF k = token THEN v ELSE table[k]
    BY <1>7 DEF Insert
  <2> QED
    BY <1>2, <1>7, <2>1 DEF PaceInv
<1>8. ASSUME NEW peer \in Endpoints, NEW requested \in Intervals,
             NEW draws \in [1 .. TokenAttempts -> Tokens], NEW encodes \in BOOLEAN,
             HandleOpen(peer, requested, draws, encodes)
      PROVE  PaceInv'
  <2> DEFINE v == NewSession(peer, requested, now)
  <2>1. requested \in Nat
    BY CoreAssumption
  <2>2. v.rate.interval <= v.negotiated
    BY <2>1, RefillWithinAdvertised DEF NewSession, NewRate
  <2>3. PaceKept(v)
    BY <1>1, <2>2 DEF PaceKept, NewSession, NewRate, NewReceive, OpenedAt
  <2> HIDE DEF v
  <2>4. sessions' = table \/ sessions' = Insert(table, AllocateToken(table, draws), v)
    BY <1>8 DEF HandleOpen, v
  <2> QED
    BY <1>4, <1>7, <2>3, <2>4
<1>9. ASSUME NEW peer \in Endpoints, NEW token \in Tokens, NEW seq \in Sequences,
             NEW encodes \in BOOLEAN, HandleEcho(peer, token, seq, encodes)
      PROVE  PaceInv'
  <2> DEFINE s == table[token]
  <2>1. \/ sessions' = table
        \/ sessions' = Restrict(table, DOMAIN table \ {token})
        \/ /\ token \in DOMAIN table
           /\ ~Charge(s.rate, now).allowed
           /\ sessions' = [table EXCEPT ![token] = Limit(s)]
        \/ token \in DOMAIN table /\ sessions' = [table EXCEPT ![token] = Serve(s, seq)]
    BY <1>9 DEF HandleEcho, Owns
  <2>2. seq \in SeqNos
    BY CoreAssumption
  <2>3. ASSUME token \in DOMAIN table
        PROVE  PaceKept(Serve(s, seq))
               /\ (~Charge(s.rate, now).allowed => PaceKept(Limit(s)))
    <3>1. Sound(s, now) /\ PaceKept(s)
      BY <1>1, <1>2, <2>3 DEF Table
    <3> QED
      BY <1>1, <2>2, <3>1, PaceKeptByEcho
  <2>4. DOMAIN table \ {token} \in SUBSET DOMAIN table
    OBVIOUS
  <2> HIDE DEF table, s
  <2> QED
    BY <1>4, <1>5, <1>6, <2>1, <2>3, <2>4
<1>10. ASSUME NEW peer \in Endpoints, NEW token \in Tokens, HandleClose(peer, token)
       PROVE  PaceInv'
  <2>1. sessions' = table \/ sessions' = Restrict(table, DOMAIN table \ {token})
    BY <1>10 DEF HandleClose
  <2>2. DOMAIN table \ {token} \in SUBSET DOMAIN table
    OBVIOUS
  <2> HIDE DEF table
  <2> QED
    BY <1>4, <1>5, <2>1, <2>2
<1>11. CASE \/ Discard \/ Refuse \/ Maintain \/ Tick \/ UNCHANGED vars
            \/ \E peer \in Endpoints, encodes \in BOOLEAN : HandleNoTest(peer, encodes)
  <2>1. sessions' = table \/ sessions' = sessions
    BY <1>11 DEF Discard, Refuse, Maintain, Tick, HandleNoTest, vars
  <2> QED
    BY <1>3, <1>4, <2>1
<1> QED
  BY <1>8, <1>9, <1>10, <1>11 DEF Next

(* A server with a non-zero burst never drops, for lack of allowance, an echo *)
(* of a client that has always waited the interval it was granted.            *)
THEOREM PacedAlwaysServed == Spec => []PacedNeverLimited
<1>1. CASE Burst > 0
  <2>1. Init => PaceInv
    BY DEF Init, PaceInv
  <2>2. CoreInv /\ PaceInv /\ [Next]_vars => PaceInv'
    BY <1>1, NextPreservesPace
  <2>3. PaceInv => PacedNeverLimited
    BY DEF PaceInv, PaceKept, PacedNeverLimited
  <2> QED
    BY <2>1, <2>2, <2>3, CoreInvariant, PTL DEF Spec
<1>2. CASE ~(Burst > 0)
  <2>1. PacedNeverLimited
    BY <1>2 DEF PacedNeverLimited
  <2> QED
    BY <2>1, PTL
<1> QED
  BY <1>1, <1>2

(***************************************************************************)
(* Refinement: the server keeps its promise                                 *)
(***************************************************************************)
(* The fluid level of an account, the promise made to a session's owner and   *)
(* the promises of a table, at instant n.                                      *)
LevelAt(r, n) ==
  Lesser(Burst * r.interval, r.allowance * r.interval + (n - r.refilledAt))
AgeAt(l, n) ==
  IF l.firstServed = None THEN None
  ELSE Lesser(n - l.firstServed, MaxTestDuration + Grace)
PromisedAt(s, n) ==
  [peer |-> s.peer, interval |-> s.rate.interval, level |-> LevelAt(s.rate, n),
   idleLeft |-> IdleTimeout - (n - s.lifetime.lastActivity),
   age |-> AgeAt(s.lifetime, n), receive |-> s.receive]
LiveTokens(f, n) == { t \in DOMAIN f : ~IsIdleExpired(f[t].lifetime, n) }
LiveAt(f, n) == [t \in LiveTokens(f, n) |-> PromisedAt(f[t], n)]

LEMMA Products ==
  ASSUME NEW i \in Nat, NEW a \in Nat, NEW b \in Nat
  PROVE  /\ a * i \in Nat /\ b * i \in Nat
         /\ (a + b) * i = a * i + b * i
         /\ a <= b => a * i <= b * i
OBVIOUS

(* A tick raises the level by one, up to the burst.                           *)
LEMMA LevelTicks ==
  ASSUME NEW r \in RateType, NEW n \in Nat, r.refilledAt <= n
  PROVE  LevelAt(r, n + 1) = Lesser(LevelAt(r, n) + 1, Burst * r.interval)
<1> DEFINE b == Burst * r.interval
           a == r.allowance * r.interval
<1>1. r.interval \in Nat /\ r.allowance \in Nat /\ Burst \in Nat /\ r.refilledAt \in Nat
  BY SessionAssumption DEF RateType
<1>2. a \in Nat /\ b \in Nat
  BY <1>1, Products
<1>3. /\ LevelAt(r, n) = Lesser(b, a + (n - r.refilledAt))
      /\ LevelAt(r, n + 1) = Lesser(b, a + ((n + 1) - r.refilledAt))
  BY DEF LevelAt
<1> HIDE DEF a, b
<1>4. LevelAt(r, n + 1) = Lesser(LevelAt(r, n) + 1, b)
  BY <1>1, <1>2, <1>3 DEF Lesser
<1> QED BY <1>4 DEF b

(* What is left to credit once an account is settled.                         *)
Settled(r, t) ==
  /\ r.allowance = Burst => r.refilledAt = t
  /\ r.allowance < Burst => t - r.refilledAt < r.interval

(* Crediting whole intervals leaves the fluid level as it is.                 *)
LEMMA ReplenishLevel ==
  ASSUME NEW r \in RateType, NEW t \in Nat, r.refilledAt <= t, r.interval # 0
  PROVE  LevelAt(Replenish(r, t), t) = LevelAt(r, t) /\ Settled(Replenish(r, t), t)
<1> DEFINE i == r.interval
           elapsed == t - r.refilledAt
           gained == elapsed \div i
           full == Replenish(r, t)
<1>1. /\ elapsed \in Nat /\ i \in Nat \ {0} /\ Burst \in Nat
      /\ r.allowance \in 0 .. Burst /\ r.allowance \in Nat /\ r.refilledAt \in Nat
  BY SessionAssumption DEF RateType
<1>2. gained \in Nat /\ gained * i <= elapsed /\ elapsed < gained * i + i
  BY <1>1
<1>3. /\ r.allowance * i \in Nat /\ gained * i \in Nat /\ Burst * i \in Nat
      /\ (r.allowance + gained) * i = r.allowance * i + gained * i
  BY <1>1, <1>2, Products
<1>4. LevelAt(r, t) = Lesser(Burst * i, r.allowance * i + elapsed)
  BY DEF LevelAt
<1>5. CASE r.allowance >= Burst
  <2>1. full = [r EXCEPT !.allowance = Burst, !.refilledAt = t]
    BY <1>5 DEF Replenish
  <2>2. full.allowance = Burst /\ full.refilledAt = t /\ full.interval = i /\ r.allowance = Burst
    BY <1>1, <1>5, <2>1 DEF RateType
  <2>3. LevelAt(full, t) = Lesser(Burst * i, Burst * i + (t - t))
    BY <2>2 DEF LevelAt
  <2> HIDE DEF full
  <2>4. LevelAt(full, t) = Burst * i /\ LevelAt(r, t) = Burst * i
    BY <1>1, <1>3, <1>4, <2>2, <2>3 DEF Lesser
  <2>5. Settled(full, t)
    BY <1>1, <2>2 DEF Settled
  <2> QED BY <2>4, <2>5 DEF full
<1>6. CASE ~(r.allowance >= Burst) /\ elapsed < i
  <2>1. full = r
    BY <1>6 DEF Replenish
  <2> QED BY <1>1, <1>6, <2>1 DEF Settled
<1>7. CASE ~(r.allowance >= Burst) /\ ~(elapsed < i)
  <2> DEFINE a == Lesser(r.allowance + gained, Burst)
             f == IF a = Burst THEN t ELSE r.refilledAt + gained * i
  <2>1. full = [r EXCEPT !.allowance = a, !.refilledAt = f]
    BY <1>1, <1>7 DEF Replenish, RateType
  <2>2. full.allowance = a /\ full.refilledAt = f /\ full.interval = i
    BY <2>1 DEF RateType
  <2>3. LevelAt(full, t) = Lesser(Burst * i, a * i + (t - f))
    BY <2>2 DEF LevelAt
  <2> HIDE DEF full, gained
  <2>4. CASE r.allowance + gained >= Burst
    <3> DEFINE x == r.allowance + gained
    <3>x. x \in Nat /\ x >= Burst /\ a = Lesser(x, Burst) /\ Burst \in Nat
      BY <1>1, <1>2, <2>4
    <3> HIDE DEF x, a
    <3>0. a = Burst
      BY <3>x DEF Lesser
    <3>1. a = Burst /\ f = t
      BY <3>0
    <3>2. Burst * i <= (r.allowance + gained) * i
      BY <1>1, <1>2, <2>4, Products
    <3> HIDE DEF f, i, elapsed
    <3>3. LevelAt(full, t) = Burst * i
      BY <1>3, <2>3, <3>1 DEF Lesser
    <3>4. LevelAt(r, t) = Burst * i
      BY <1>1, <1>2, <1>3, <1>4, <3>2 DEF Lesser
    <3>5. Settled(full, t)
      BY <1>1, <2>2, <3>1 DEF Settled
    <3> QED BY <3>3, <3>4, <3>5 DEF full
  <2>5. CASE ~(r.allowance + gained >= Burst)
    <3>1. a = r.allowance + gained /\ a < Burst /\ f = r.refilledAt + gained * i
      BY <1>1, <1>2, <2>5 DEF Lesser
    <3> HIDE DEF a, f
    <3>2. t - f = elapsed - gained * i
      BY <1>1, <1>3, <3>1
    <3>3. a * i + (t - f) = r.allowance * i + elapsed
      BY <1>1, <1>3, <3>1, <3>2
    <3>4. Settled(full, t)
      BY <1>1, <1>2, <1>3, <2>2, <3>1, <3>2 DEF Settled
    <3> QED BY <1>4, <2>3, <3>3, <3>4 DEF full
  <2> QED BY <2>4, <2>5
<1> QED BY <1>5, <1>6, <1>7

(* charge allows a reply exactly when the fluid bucket holds one, and takes   *)
(* exactly that out of it.                                                     *)
LEMMA ChargeLevel ==
  ASSUME NEW r \in RateType, NEW t \in Nat, r.refilledAt <= t
  PROVE  LET c == Charge(r, t)
         IN  /\ c.allowed <=> (Burst > 0 /\ LevelAt(r, t) >= r.interval)
             /\ c.next.interval = r.interval
             /\ LevelAt(c.next, t) = IF c.allowed THEN LevelAt(r, t) - r.interval
                                     ELSE LevelAt(r, t)
<1> DEFINE c == Charge(r, t)
           i == r.interval
<1>1. /\ i \in Nat /\ Burst \in Nat /\ r.allowance \in Nat /\ r.refilledAt \in Nat
  BY SessionAssumption DEF RateType
<1>2. CASE Burst = 0
  <2>1. c.allowed = FALSE /\ c.next = r
    BY <1>2 DEF Charge
  <2> QED BY <1>2, <2>1
<1>3. CASE Burst # 0 /\ i = 0
  <2>1. c.allowed = TRUE /\ c.next = r
    BY <1>3 DEF Charge
  <2>2. Burst * i = 0 /\ r.allowance * i = 0
    BY <1>1, <1>3
  <2>3. LevelAt(r, t) = Lesser(0, 0 + (t - r.refilledAt))
    BY <2>2 DEF LevelAt
  <2>4. LevelAt(r, t) = 0
    BY <1>1, <2>3 DEF Lesser
  <2> QED BY <1>1, <1>3, <2>1, <2>4
<1>4. CASE Burst # 0 /\ i # 0
  <2> DEFINE full == Replenish(r, t)
             a == full.allowance
             e == t - full.refilledAt
  <2>1. full \in RateType /\ full.refilledAt <= t /\ full.interval = i
    BY <1>4, ReplenishFacts
  <2>2. LevelAt(full, t) = LevelAt(r, t) /\ Settled(full, t)
    BY <1>4, ReplenishLevel
  <2>3. /\ c.allowed <=> a # 0
        /\ c.next = IF a = 0 THEN full ELSE [full EXCEPT !.allowance = @ - 1]
    BY <1>4 DEF Charge
  <2> HIDE DEF full, c
  <2>4. a \in 0 .. Burst /\ e \in Nat /\ full.refilledAt \in Nat
    BY <2>1 DEF RateType
  <2>5. /\ a = Burst => e = 0
        /\ a < Burst => e < i
    BY <2>1, <2>2, <2>4 DEF Settled
  <2>6. LevelAt(full, t) = Lesser(Burst * i, a * i + e)
    BY <2>1 DEF LevelAt
  <2> HIDE DEF a, e, i
  <2>7. a * i + e <= Burst * i /\ a * i \in Nat /\ Burst * i \in Nat
    <3>1. CASE a = Burst
      BY <1>1, <2>5, <3>1, Products
    <3>2. CASE a < Burst
      <4>1. a + 1 <= Burst /\ a + 1 \in Nat /\ a \in Nat
        BY <1>1, <2>4, <3>2
      <4>2. (a + 1) * i <= Burst * i /\ (a + 1) * i = a * i + 1 * i /\ a * i \in Nat /\ Burst * i \in Nat
        BY <1>1, <4>1, Products
      <4> QED BY <1>1, <2>4, <2>5, <3>2, <4>2
    <3> QED BY <1>1, <2>4, <3>1, <3>2
  <2>8. LevelAt(r, t) = a * i + e
    BY <2>2, <2>4, <2>6, <2>7 DEF Lesser
  <2>9. CASE a = 0
    <3>1. LevelAt(r, t) = e /\ e < i
      BY <1>1, <1>4, <2>4, <2>5, <2>8, <2>9
    <3>2. ~(LevelAt(r, t) >= i)
      BY <1>1, <2>4, <3>1
    <3> QED BY <2>1, <2>2, <2>3, <2>9, <3>2 DEF c, i
  <2>10. CASE a # 0
    <3>1. a - 1 \in Nat /\ a - 1 \in 0 .. Burst
      BY <1>1, <2>4, <2>10
    <3>2. ((a - 1) + 1) * i = (a - 1) * i + 1 * i /\ (a - 1) * i \in Nat /\ (a - 1) + 1 = a
      BY <1>1, <2>4, <3>1, Products
    <3>3. (a - 1) * i + e = (a * i + e) - i
      BY <1>1, <2>4, <2>7, <3>2
    <3>4. /\ c.next.allowance = a - 1 /\ c.next.interval = i
          /\ c.next.refilledAt = full.refilledAt
      BY <2>1, <2>3, <2>10 DEF RateType, a
    <3>5. LevelAt(c.next, t) = Lesser(Burst * i, (a - 1) * i + e)
      BY <3>4 DEF LevelAt, e
    <3>6. LevelAt(c.next, t) = LevelAt(r, t) - i
      BY <1>1, <2>4, <2>7, <2>8, <3>2, <3>3, <3>5 DEF Lesser
    <3>7. LevelAt(r, t) >= i
      BY <1>1, <2>4, <2>7, <2>8, <3>2
    <3>8. Burst > 0
      BY <1>1, <1>4
    <3> QED BY <2>3, <2>10, <3>4, <3>6, <3>7, <3>8 DEF c, i
  <2> QED BY <2>9, <2>10
<1> QED BY <1>2, <1>3, <1>4

(* The promise is stated with the same arithmetic of one session.             *)
LEMMA SameArithmetic ==
  /\ Promise!None = None /\ Promise!NewReceive = NewReceive
  /\ Promise!Deadline = MaxTestDuration + Grace
  /\ \A a, b : Promise!Lesser(a, b) = Lesser(a, b)
  /\ \A r, q : Promise!Accepted(r, q) = Accepted(r, q)
  /\ \A f, S : Promise!Restrict(f, S) = Restrict(f, S)
  /\ \A S : Promise!Cardinality(S) = Cardinality(S)
  /\ \A x : Promise!RefillInterval(Promise!NegotiatedInterval(x)) =
            RefillInterval(NegotiatedInterval(x))
<1>1. Promise!None = None
  BY DEF Promise!None, None
<1>2. Promise!NewReceive = NewReceive
  BY DEF Promise!NewReceive, NewReceive, Promise!None, None
<1>3. Promise!Deadline = MaxTestDuration + Grace
  BY DEF Promise!Deadline
<1>4. \A a, b : Promise!Lesser(a, b) = Lesser(a, b)
  BY DEF Promise!Lesser, Lesser
<1>5. \A r, q : Promise!Accepted(r, q) = Accepted(r, q)
  BY DEF Promise!Accepted, Accepted, Promise!Window, Window, Promise!None, None
<1>6. \A f, S : Promise!Restrict(f, S) = Restrict(f, S)
  BY DEF Promise!Restrict, Restrict
<1>7. \A S : Promise!Cardinality(S) = Cardinality(S)
  BY Zenon DEF Promise!Cardinality, Cardinality
<1>8. \A x : Promise!RefillInterval(Promise!NegotiatedInterval(x)) =
             RefillInterval(NegotiatedInterval(x))
  BY DEF Promise!RefillInterval, RefillInterval, Promise!NegotiatedInterval,
         NegotiatedInterval, Promise!Lesser, Lesser
<1> QED BY <1>1, <1>2, <1>3, <1>4, <1>5, <1>6, <1>7, <1>8

(* The refinement mapping, before and after a step.                           *)
LEMMA Mapping ==
  /\ [t \in DOMAIN ReleaseExpired |-> Promised(sessions[t])] = LiveAt(sessions, now)
  /\ [t \in DOMAIN ReleaseExpired |-> Promised(sessions[t])]' = LiveAt(sessions', now')
<1>1. [t \in DOMAIN ReleaseExpired |-> Promised(sessions[t])] = LiveAt(sessions, now)
  BY DEF ReleaseExpired, Restrict, LiveAt, LiveTokens, Promised, PromisedAt, Level,
         LevelAt, AgeAt
<1>2. [t \in DOMAIN ReleaseExpired |-> Promised(sessions[t])]' = LiveAt(sessions', now')
  BY DEF ReleaseExpired, Restrict, LiveAt, LiveTokens, Promised, PromisedAt, Level,
         LevelAt, AgeAt
<1> QED BY <1>1, <1>2

(***************************************************************************)
(* The promise to one session                                               *)
(***************************************************************************)
LEMMA SoundTypes ==
  ASSUME NEW s, NEW n \in Nat, Sound(s, n)
  PROVE  /\ s.rate \in RateType /\ s.rate.refilledAt <= n
         /\ s.lifetime.lastActivity \in Nat /\ s.lifetime.lastActivity <= n
         /\ s.lifetime.firstServed \in Nat \cup {None}
         /\ s.lifetime.firstServed <= n
         /\ s.receive \in ReceiveType
BY DEF Sound, Session, RateType, ReceiveType, None

(* A tick ages the promise as the session ages.                               *)
LEMMA PromiseAges ==
  ASSUME NEW s, NEW n \in Nat, Sound(s, n)
  PROVE  PromisedAt(s, n + 1) = Promise!Aged(PromisedAt(s, n))
<1> DEFINE level == LevelAt(s.rate, n)
           age == AgeAt(s.lifetime, n)
           idle == IdleTimeout - (n - s.lifetime.lastActivity)
           d == MaxTestDuration + Grace
<1>1. LevelAt(s.rate, n + 1) = Lesser(level + 1, Burst * s.rate.interval)
  BY SoundTypes, LevelTicks
<1>2. IdleTimeout - ((n + 1) - s.lifetime.lastActivity) = idle - 1
  BY SoundTypes, SessionAssumption
<1>3. AgeAt(s.lifetime, n + 1) = IF age = None THEN None ELSE Lesser(age + 1, d)
  <2>1. s.lifetime.firstServed \in Nat \cup {None} /\ s.lifetime.firstServed <= n /\ d \in Nat
    BY SoundTypes, SessionAssumption
  <2> HIDE DEF d
  <2>2. CASE s.lifetime.firstServed = None
    BY <2>2 DEF AgeAt
  <2>3. CASE s.lifetime.firstServed # None
    <3> DEFINE x == n - s.lifetime.firstServed
    <3>1. x \in Nat /\ (n + 1) - s.lifetime.firstServed = x + 1
      BY <2>1, <2>3
    <3>2. age = Lesser(x, d) /\ AgeAt(s.lifetime, n + 1) = Lesser(x + 1, d)
      BY <2>3, <3>1 DEF AgeAt, d
    <3> HIDE DEF x, age
    <3> QED BY <2>1, <3>1, <3>2 DEF Lesser, None
  <2> QED BY <2>2, <2>3
<1>4. PromisedAt(s, n + 1) =
        [peer |-> s.peer, interval |-> s.rate.interval,
         level |-> Lesser(level + 1, Burst * s.rate.interval), idleLeft |-> idle - 1,
         age |-> IF age = None THEN None ELSE Lesser(age + 1, d), receive |-> s.receive]
  BY <1>1, <1>2, <1>3 DEF PromisedAt
<1>5. PromisedAt(s, n) = [peer |-> s.peer, interval |-> s.rate.interval, level |-> level,
                          idleLeft |-> idle, age |-> age, receive |-> s.receive]
  BY DEF PromisedAt
<1> HIDE DEF level, age, idle, d
<1>6. Promise!Aged(PromisedAt(s, n)) =
        [peer |-> s.peer, interval |-> s.rate.interval,
         level |-> Lesser(level + 1, Burst * s.rate.interval), idleLeft |-> idle - 1,
         age |-> IF age = None THEN None ELSE Lesser(age + 1, d), receive |-> s.receive]
  <2> DEFINE p == PromisedAt(s, n)
             higher == Lesser(level + 1, Burst * s.rate.interval)
             less == idle - 1
             older == IF age = None THEN None ELSE Lesser(age + 1, d)
  <2>1. /\ p.interval = s.rate.interval /\ p.level = level /\ p.idleLeft = idle /\ p.age = age
    BY <1>5
  <2>2. Promise!Aged(p) =
          [p EXCEPT !.level = Promise!Lesser(p.level + 1, Burst * p.interval),
                    !.idleLeft = p.idleLeft - 1,
                    !.age = IF p.age = Promise!None THEN Promise!None
                            ELSE Promise!Lesser(p.age + 1, Promise!Deadline)]
    BY <1>5 DEF Promise!Aged
  <2>3. Promise!Aged(p) = [p EXCEPT !.level = higher, !.idleLeft = less, !.age = older]
    BY <2>1, <2>2, SameArithmetic DEF d
  <2>p. p = [peer |-> s.peer, interval |-> s.rate.interval, level |-> level,
             idleLeft |-> idle, age |-> age, receive |-> s.receive]
    BY <1>5
  <2> HIDE DEF higher, less, older, p
  <2>4. Promise!Aged(p) = [peer |-> s.peer, interval |-> s.rate.interval, level |-> higher,
                           idleLeft |-> less, age |-> older, receive |-> s.receive]
    BY <2>p, <2>3
  <2> QED BY <2>4 DEF higher, less, older, p
<1> QED BY <1>4, <1>6

(* An echo that is not owed a reply only restarts the idle timer.             *)
LEMMA PromiseLimited ==
  ASSUME NEW s, now \in Nat, Sound(s, now), ~Charge(s.rate, now).allowed
  PROVE  /\ PromisedAt(Limit(s), now) = [PromisedAt(s, now) EXCEPT !.idleLeft = IdleTimeout]
         /\ Limit(s).lifetime.lastActivity = now
<1> DEFINE c == Charge(s.rate, now).next
           l == Refreshed(s.lifetime, now)
<1>1. c.interval = s.rate.interval /\ LevelAt(c, now) = LevelAt(s.rate, now)
  BY SoundTypes, ChargeLevel
<1>2. l.lastActivity = now /\ l.firstServed = s.lifetime.firstServed
  BY DEF Refreshed, Sound, Session
<1>3. AgeAt(l, now) = AgeAt(s.lifetime, now)
  BY <1>2 DEF AgeAt
<1>4. s \in Session
  BY DEF Sound
<1>5. Limit(s) = [s EXCEPT !.rate = c, !.lifetime = l, !.paced = KeepsPace(s), !.limited = TRUE]
  BY <1>4 DEF Limit, Session
<1> HIDE DEF c, l
<1>6. /\ Limit(s).peer = s.peer /\ Limit(s).rate = c /\ Limit(s).lifetime = l
      /\ Limit(s).receive = s.receive
  BY <1>4, <1>5 DEF Session
<1>7. IdleTimeout - (now - now) = IdleTimeout
  BY SessionAssumption
<1>8. PromisedAt(Limit(s), now) =
        [peer |-> s.peer, interval |-> s.rate.interval, level |-> LevelAt(s.rate, now),
         idleLeft |-> IdleTimeout, age |-> AgeAt(s.lifetime, now), receive |-> s.receive]
  BY <1>1, <1>2, <1>3, <1>6, <1>7 DEF PromisedAt
<1>9. [PromisedAt(s, now) EXCEPT !.idleLeft = IdleTimeout] =
        [peer |-> s.peer, interval |-> s.rate.interval, level |-> LevelAt(s.rate, now),
         idleLeft |-> IdleTimeout, age |-> AgeAt(s.lifetime, now), receive |-> s.receive]
  BY DEF PromisedAt
<1> QED BY <1>2, <1>6, <1>8, <1>9

(* The promise after a reply: one reply less in the bucket, the test begun.   *)
Answered(p, q) ==
  [[p EXCEPT !.idleLeft = IdleTimeout]
     EXCEPT !.level = @ - p.interval, !.receive = Promise!Accepted(p.receive, q),
            !.age = IF @ = Promise!None THEN 0 ELSE @]

LEMMA PromiseServed ==
  ASSUME NEW s, NEW q, now \in Nat, Sound(s, now), Charge(s.rate, now).allowed
  PROVE  /\ PromisedAt(Serve(s, q), now) = Answered(PromisedAt(s, now), q)
         /\ Serve(s, q).lifetime.lastActivity = now
<1> DEFINE c == Charge(s.rate, now).next
           l == Served(s.lifetime, now)
           age == AgeAt(s.lifetime, now)
<1>1. c.interval = s.rate.interval /\ LevelAt(c, now) = LevelAt(s.rate, now) - s.rate.interval
  BY SoundTypes, ChargeLevel
<1>2. /\ l.lastActivity = now
      /\ l.firstServed = IF s.lifetime.firstServed = None THEN now ELSE s.lifetime.firstServed
  BY DEF Served
<1>3. AgeAt(l, now) = IF age = None THEN 0 ELSE age
  <2>1. /\ s.lifetime.firstServed \in Nat \cup {None} /\ s.lifetime.firstServed <= now
        /\ MaxTestDuration + Grace \in Nat
    BY SoundTypes, SessionAssumption
  <2>2. CASE s.lifetime.firstServed = None
    <3>1. l.firstServed = now /\ now # None /\ age = None
      BY <1>2, <2>2 DEF AgeAt, None
    <3>2. AgeAt(l, now) = Lesser(now - now, MaxTestDuration + Grace)
      BY <3>1 DEF AgeAt
    <3> HIDE DEF age
    <3> QED BY <2>1, <3>1, <3>2 DEF Lesser
  <2>3. CASE s.lifetime.firstServed # None
    <3>1. AgeAt(l, now) = age
      BY <1>2, <2>3 DEF AgeAt
    <3>2. age # None
      BY <2>1, <2>3 DEF AgeAt, Lesser, None
    <3> QED BY <3>1, <3>2
  <2> QED BY <2>2, <2>3
<1>4. s \in Session
  BY DEF Sound
<1>5. Serve(s, q) = [s EXCEPT !.rate = c, !.receive = Accepted(s.receive, q),
                              !.lifetime = l, !.paced = KeepsPace(s)]
  BY <1>4 DEF Serve, Session
<1> HIDE DEF c, l, age
<1>6. /\ Serve(s, q).peer = s.peer /\ Serve(s, q).rate = c /\ Serve(s, q).lifetime = l
      /\ Serve(s, q).receive = Accepted(s.receive, q)
  BY <1>4, <1>5 DEF Session
<1>7. IdleTimeout - (now - now) = IdleTimeout
  BY SessionAssumption
<1>8. PromisedAt(Serve(s, q), now) =
        [peer |-> s.peer, interval |-> s.rate.interval,
         level |-> LevelAt(s.rate, now) - s.rate.interval,
         idleLeft |-> IdleTimeout, age |-> IF age = None THEN 0 ELSE age,
         receive |-> Accepted(s.receive, q)]
  BY <1>1, <1>2, <1>3, <1>6, <1>7 DEF PromisedAt
<1>9. Answered(PromisedAt(s, now), q) =
        [peer |-> s.peer, interval |-> s.rate.interval,
         level |-> LevelAt(s.rate, now) - s.rate.interval,
         idleLeft |-> IdleTimeout, age |-> IF age = None THEN 0 ELSE age,
         receive |-> Accepted(s.receive, q)]
  <2> DEFINE p == PromisedAt(s, now)
             lower == LevelAt(s.rate, now) - s.rate.interval
             older == IF age = None THEN 0 ELSE age
             accepted == Accepted(s.receive, q)
             level == LevelAt(s.rate, now)
             idle == IdleTimeout - (now - s.lifetime.lastActivity)
  <2>1. p = [peer |-> s.peer, interval |-> s.rate.interval, level |-> level,
             idleLeft |-> idle, age |-> age, receive |-> s.receive]
    BY DEF PromisedAt, age
  <2> HIDE DEF p, idle, level
  <2>2. /\ p.interval = s.rate.interval /\ p.level = level /\ p.age = age
        /\ p.receive = s.receive
    BY <2>1
  <2> DEFINE kept == [p EXCEPT !.idleLeft = IdleTimeout]
  <2>k. kept = [peer |-> s.peer, interval |-> s.rate.interval, level |-> level,
                idleLeft |-> IdleTimeout, age |-> age, receive |-> s.receive]
    BY <2>1
  <2>a. Answered(p, q) =
          [kept EXCEPT !.level = kept.level - p.interval,
                       !.receive = Promise!Accepted(p.receive, q),
                       !.age = IF kept.age = Promise!None THEN 0 ELSE kept.age]
    BY <2>k DEF Answered
  <2> HIDE DEF kept
  <2>f. kept.level = level /\ kept.age = age
    BY <2>k
  <2>3. Answered(p, q) = [kept EXCEPT !.level = lower, !.receive = accepted, !.age = older]
    BY <2>2, <2>a, <2>f, SameArithmetic DEF level
  <2> HIDE DEF lower, older, accepted
  <2>4. Answered(p, q) = [peer |-> s.peer, interval |-> s.rate.interval, level |-> lower,
                          idleLeft |-> IdleTimeout, age |-> older, receive |-> accepted]
    BY <2>k, <2>3
  <2> QED BY <2>4 DEF lower, older, accepted, p
<1> QED BY <1>2, <1>6, <1>8, <1>9

(* The promise of a new session: a full bucket and the whole idle timeout.    *)
LEMMA PromiseOpened ==
  ASSUME NEW peer, NEW requested \in Nat, now \in Nat
  PROVE  LET interval == RefillInterval(NegotiatedInterval(requested))
             s == NewSession(peer, requested, now)
         IN  /\ PromisedAt(s, now) =
                  [peer |-> peer, interval |-> interval, level |-> Burst * interval,
                   idleLeft |-> IdleTimeout, age |-> None, receive |-> NewReceive]
             /\ s.lifetime.lastActivity = now
<1> DEFINE interval == RefillInterval(NegotiatedInterval(requested))
           s == NewSession(peer, requested, now)
<1>1. interval \in Nat /\ Burst \in Nat
  BY SessionAssumption DEF RefillInterval, NegotiatedInterval, Lesser
<1>2. /\ s.rate.interval = interval /\ s.rate.allowance = Burst /\ s.rate.refilledAt = now
      /\ s.peer = peer /\ s.receive = NewReceive
      /\ s.lifetime.lastActivity = now /\ s.lifetime.firstServed = None
  BY DEF NewSession, NewRate, OpenedAt
<1> HIDE DEF s, interval
<1>3. Burst * interval \in Nat
  BY <1>1, Products
<1>4. LevelAt(s.rate, now) = Burst * interval
  <2>1. LevelAt(s.rate, now) = Lesser(Burst * interval, Burst * interval + (now - now))
    BY <1>2 DEF LevelAt
  <2> QED BY <1>3, <2>1 DEF Lesser
<1>5. AgeAt(s.lifetime, now) = None
  BY <1>2 DEF AgeAt
<1>6. IdleTimeout - (now - now) = IdleTimeout
  BY SessionAssumption
<1>7. PromisedAt(s, now) =
        [peer |-> peer, interval |-> interval, level |-> Burst * interval,
         idleLeft |-> IdleTimeout, age |-> None, receive |-> NewReceive]
  BY <1>2, <1>4, <1>5, <1>6 DEF PromisedAt
<1> QED BY <1>2, <1>7 DEF s, interval

(***************************************************************************)
(* The promises of a table                                                  *)
(***************************************************************************)
LEMMA LiveFacts ==
  ASSUME NEW f, NEW n
  PROVE  /\ DOMAIN LiveAt(f, n) = LiveTokens(f, n)
         /\ \A t \in LiveTokens(f, n) : LiveAt(f, n)[t] = PromisedAt(f[t], n)
BY DEF LiveAt

(* Two tables that agree on what is live make the same promises.              *)
LEMMA LiveSame ==
  ASSUME NEW f, NEW g, NEW n, NEW m, LiveTokens(f, n) = LiveTokens(g, m),
         \A t \in LiveTokens(f, n) : PromisedAt(f[t], n) = PromisedAt(g[t], m)
  PROVE  LiveAt(f, n) = LiveAt(g, m)
BY DEF LiveAt

(* The sweep keeps exactly the sessions that are live, so it breaks none.     *)
LEMMA SweptLive ==
  /\ DOMAIN ReleaseExpired = LiveTokens(sessions, now)
  /\ LiveTokens(ReleaseExpired, now) = LiveTokens(sessions, now)
  /\ LiveAt(ReleaseExpired, now) = LiveAt(sessions, now)
  /\ \A t \in DOMAIN ReleaseExpired : /\ ReleaseExpired[t] = sessions[t]
                                      /\ ~IsIdleExpired(ReleaseExpired[t].lifetime, now)
<1>1. /\ DOMAIN ReleaseExpired = LiveTokens(sessions, now)
      /\ \A t \in DOMAIN ReleaseExpired : ReleaseExpired[t] = sessions[t]
  BY DEF ReleaseExpired, Restrict, LiveTokens
<1>2. LiveTokens(ReleaseExpired, now) = LiveTokens(sessions, now)
  BY <1>1 DEF LiveTokens
<1>3. LiveAt(ReleaseExpired, now) = LiveAt(sessions, now)
  BY <1>1, <1>2 DEF LiveAt
<1>4. \A t \in DOMAIN ReleaseExpired : ~IsIdleExpired(ReleaseExpired[t].lifetime, now)
  BY <1>1 DEF LiveTokens
<1> QED BY <1>1, <1>2, <1>3, <1>4

(* A swept table f: nothing in it has expired.                                *)
Swept(f, n) == \A t \in DOMAIN f : ~IsIdleExpired(f[t].lifetime, n)

LEMMA LiveRemoved ==
  ASSUME NEW f, NEW n, Swept(f, n), NEW k
  PROVE  LiveAt(Restrict(f, DOMAIN f \ {k}), n) =
           Restrict(LiveAt(f, n), DOMAIN LiveAt(f, n) \ {k})
<1> DEFINE g == Restrict(f, DOMAIN f \ {k})
<1>1. DOMAIN g = DOMAIN f \ {k} /\ \A t \in DOMAIN g : g[t] = f[t]
  BY DEF Restrict
<1>2. LiveTokens(f, n) = DOMAIN f /\ DOMAIN LiveAt(f, n) = DOMAIN f
  BY DEF Swept, LiveTokens, LiveAt
<1> HIDE DEF g
<1>3. LiveTokens(g, n) = DOMAIN f \ {k}
  BY <1>1 DEF Swept, LiveTokens
<1>4. LiveAt(g, n) = [t \in DOMAIN f \ {k} |-> PromisedAt(f[t], n)]
  BY <1>1, <1>3 DEF LiveAt
<1>5. \A t \in DOMAIN f : LiveAt(f, n)[t] = PromisedAt(f[t], n)
  BY <1>2 DEF LiveAt
<1> QED BY <1>2, <1>4, <1>5 DEF Restrict, g

(* A session with activity now is live, unless nothing ever is.               *)
LEMMA Fresh ==
  ASSUME NEW v, NEW n \in Nat, v.lifetime.lastActivity = n
  PROVE  IsIdleExpired(v.lifetime, n) <=> IdleTimeout = 0
<1>1. n - n = 0 /\ IdleTimeout \in Nat
  BY SessionAssumption
<1> QED BY <1>1 DEF IsIdleExpired

Replaced(f, k, v) == [f EXCEPT ![k] = v]

LEMMA LiveUpdated ==
  ASSUME NEW f, NEW n \in Nat, Swept(f, n), NEW k \in DOMAIN f, Sound(f[k], n),
         f = [t \in DOMAIN f |-> f[t]], NEW v, v.lifetime.lastActivity = n
  PROVE  LiveAt(Replaced(f, k, v), n) = Replaced(LiveAt(f, n), k, PromisedAt(v, n))
<1> DEFINE g == [f EXCEPT ![k] = v]
<1>1. DOMAIN g = DOMAIN f /\ \A t \in DOMAIN f : g[t] = IF t = k THEN v ELSE f[t]
  OBVIOUS
<1>2. LiveTokens(f, n) = DOMAIN f
  BY DEF Swept, LiveTokens
<1>3. ~IsIdleExpired(v.lifetime, n)
  <2>1. ~(n - f[k].lifetime.lastActivity >= IdleTimeout)
    BY DEF Swept, IsIdleExpired
  <2>2. IdleTimeout # 0
    BY <2>1, SoundTypes, SessionAssumption
  <2> QED BY <2>2, Fresh
<1> HIDE DEF g
<1>4. LiveTokens(g, n) = DOMAIN f
  BY <1>1, <1>3 DEF Swept, LiveTokens
<1>5. LiveAt(g, n) = [t \in DOMAIN f |-> IF t = k THEN PromisedAt(v, n) ELSE PromisedAt(f[t], n)]
  BY <1>1, <1>4 DEF LiveAt
<1>6. LiveAt(f, n) = [t \in DOMAIN f |-> PromisedAt(f[t], n)]
  BY <1>2 DEF LiveAt
<1>7. LiveAt(g, n) = [LiveAt(f, n) EXCEPT ![k] = PromisedAt(v, n)]
  BY <1>5, <1>6
<1> QED BY <1>7 DEF g, Replaced

(* The promises L, and to the owner of k the promise p.                       *)
Grown(L, k, p) ==
  IF IdleTimeout = 0 THEN L
  ELSE [u \in DOMAIN L \cup {k} |-> IF u = k THEN p ELSE L[u]]

LEMMA LiveInserted ==
  ASSUME NEW f, NEW n \in Nat, Swept(f, n), \A t \in DOMAIN f : Sound(f[t], n),
         NEW k, k \notin DOMAIN f, NEW v, v.lifetime.lastActivity = n
  PROVE  LiveAt(Insert(f, k, v), n) = Grown(LiveAt(f, n), k, PromisedAt(v, n))
<1> DEFINE g == Insert(f, k, v)
<1>1. DOMAIN g = DOMAIN f \cup {k} /\ \A t \in DOMAIN g : g[t] = IF t = k THEN v ELSE f[t]
  BY DEF Insert
<1>2. LiveTokens(f, n) = DOMAIN f
  BY DEF Swept, LiveTokens
<1>3. LiveAt(f, n) = [t \in DOMAIN f |-> PromisedAt(f[t], n)]
  BY <1>2 DEF LiveAt
<1> HIDE DEF g
<1>4. CASE IdleTimeout = 0
  <2>1. DOMAIN f = {}
    <3> SUFFICES ASSUME NEW t \in DOMAIN f PROVE FALSE
      OBVIOUS
    <3>1. ~(n - f[t].lifetime.lastActivity >= 0)
      BY <1>4 DEF Swept, IsIdleExpired
    <3> QED BY <3>1, SoundTypes
  <2>2. LiveTokens(g, n) = {}
    BY <1>1, <1>4, <2>1, Fresh DEF LiveTokens
  <2>3. LiveAt(g, n) = LiveAt(f, n)
    BY <1>2, <2>1, <2>2 DEF LiveAt
  <2> QED BY <1>4, <2>3 DEF g, Grown
<1>5. CASE IdleTimeout # 0
  <2>1. ~IsIdleExpired(v.lifetime, n)
    BY <1>5, Fresh
  <2>2. LiveTokens(g, n) = DOMAIN f \cup {k}
    BY <1>1, <2>1 DEF Swept, LiveTokens
  <2>3. LiveAt(g, n) = [t \in DOMAIN f \cup {k} |->
                          IF t = k THEN PromisedAt(v, n) ELSE PromisedAt(f[t], n)]
    BY <1>1, <2>2 DEF LiveAt
  <2>4. LiveAt(g, n) = [t \in DOMAIN LiveAt(f, n) \cup {k} |->
                          IF t = k THEN PromisedAt(v, n) ELSE LiveAt(f, n)[t]]
    BY <1>3, <2>3
  <2> QED BY <1>5, <2>4 DEF g, Grown
<1> QED BY <1>4, <1>5

(***************************************************************************)
(* Every step of the server is a step of the promise, or none               *)
(***************************************************************************)
LEMMA TickKeepsPromise ==
  ASSUME CoreInv, Tick
  PROVE  Promise!PTick
<1> DEFINE L == LiveAt(sessions, now)
           aged == [t \in DOMAIN L |-> Promise!Aged(L[t])]
           kept == { t \in DOMAIN L : aged[t].idleLeft > 0 }
<1>1. now \in Nat /\ now' = now + 1 /\ sessions' = sessions /\ exchange' = exchange
  BY DEF CoreInv, Tick
<1>2. \A t \in DOMAIN sessions : Sound(sessions[t], now)
  BY DEF CoreInv, Table
<1>3. DOMAIN L = LiveTokens(sessions, now) /\ LiveTokens(sessions, now) \subseteq DOMAIN sessions
  BY LiveFacts DEF LiveTokens
<1>4. \A t \in DOMAIN L : aged[t] = PromisedAt(sessions[t], now + 1)
  BY <1>1, <1>2, <1>3, LiveFacts, PromiseAges
<1>5. \A t \in DOMAIN sessions :
        PromisedAt(sessions[t], now + 1).idleLeft =
          IdleTimeout - ((now + 1) - sessions[t].lifetime.lastActivity)
  BY DEF PromisedAt
<1>6. \A t \in DOMAIN sessions : sessions[t].lifetime.lastActivity \in Nat
  BY <1>1, <1>2, SoundTypes
<1>7. kept = LiveTokens(sessions, now + 1)
  <2>1. ASSUME NEW t \in DOMAIN sessions
        PROVE  /\ PromisedAt(sessions[t], now + 1).idleLeft > 0
                    <=> ~IsIdleExpired(sessions[t].lifetime, now + 1)
               /\ ~IsIdleExpired(sessions[t].lifetime, now + 1) =>
                    ~IsIdleExpired(sessions[t].lifetime, now)
    BY <1>1, <1>5, <1>6, SessionAssumption DEF IsIdleExpired
  <2> HIDE DEF aged
  <2> QED BY <1>3, <1>4, <2>1 DEF LiveTokens
<1>8. LiveAt(sessions', now') = Promise!Restrict(aged, kept)
  <2>1. kept \subseteq DOMAIN L
    OBVIOUS
  <2>2. LiveAt(sessions, now + 1) = [t \in kept |-> PromisedAt(sessions[t], now + 1)]
    BY <1>7 DEF LiveAt
  <2> HIDE DEF aged, kept
  <2>3. LiveAt(sessions, now + 1) = Restrict(aged, kept)
    BY <1>4, <2>1, <2>2 DEF Restrict
  <2> QED BY <1>1, <2>3, SameArithmetic
<1> HIDE DEF L
<1>9. LiveAt(sessions', now') =
        LET a == [t \in DOMAIN L |-> Promise!Aged(L[t])]
        IN  Promise!Restrict(a, { t \in DOMAIN L : a[t].idleLeft > 0 })
  BY <1>8
<1> QED BY <1>1, <1>9, Mapping DEF Promise!PTick, L

(* A sweep, by itself or before a request, changes no promise.                *)
LEMMA SweepKeepsPromise ==
  ASSUME sessions' = ReleaseExpired \/ sessions' = sessions, now' = now
  PROVE  LiveAt(sessions', now') = LiveAt(sessions, now)
BY SweptLive

LEMMA OpenKeepsPromise ==
  ASSUME CoreInv, NEW peer \in Endpoints, NEW requested \in Intervals,
         NEW draws \in [1 .. TokenAttempts -> Tokens], NEW encodes \in BOOLEAN,
         HandleOpen(peer, requested, draws, encodes)
  PROVE  Promise!POpen(peer, requested)
<1> DEFINE L == LiveAt(sessions, now)
           M == LiveAt(sessions', now')
           table == ReleaseExpired
           token == AllocateToken(table, draws)
           interval == RefillInterval(NegotiatedInterval(requested))
           fresh == [peer |-> peer, interval |-> interval, level |-> Burst * interval,
                     idleLeft |-> IdleTimeout, age |-> None, receive |-> NewReceive]
           request == [kind |-> "open", peer |-> peer, interval |-> requested]
           s == NewSession(peer, requested, now)
<1>1. now \in Nat /\ requested \in Nat /\ now' = now
  BY CoreAssumption DEF CoreInv, HandleOpen
<1>2. /\ DOMAIN L = DOMAIN table /\ LiveAt(table, now) = L /\ Swept(table, now)
      /\ \A t \in DOMAIN table : Sound(table[t], now)
  BY SweptLive, LiveFacts, SweepFacts DEF Swept, Table
<1>3. PromisedAt(s, now) = fresh /\ s.lifetime.lastActivity = now
  BY <1>1, PromiseOpened
<1>4. \/ /\ ~(Cardinality(DOMAIN L) < MaxSessions)
         /\ exchange' = [request |-> request, reply |-> Silence]
         /\ sessions' = table
      \/ /\ Cardinality(DOMAIN L) < MaxSessions
         /\ exchange' = [request |-> request, reply |-> Failure]
         /\ sessions' = table
      \/ /\ Cardinality(DOMAIN L) < MaxSessions
         /\ token # None
         /\ exchange' = [request |-> request, reply |-> [kind |-> "opened", token |-> token]]
         /\ sessions' = Insert(table, token, s)
  BY <1>2 DEF HandleOpen, HasRoom, Exchange
<1>c. Cardinality(DOMAIN L) \in Nat /\ MaxSessions \in Nat
  BY <1>2, SweepFacts, FS_CardinalityType, CoreAssumption DEF Bounded
<1> HIDE DEF L, M, table, token, s, fresh, request
<1>5. sessions' = table => M = L
  BY <1>1, SweepKeepsPromise DEF M, L, table
<1>6. ASSUME token # None, sessions' = Insert(table, token, s)
      PROVE  /\ token \in Tokens \ ({0} \cup DOMAIN L)
             /\ M = Grown(L, token, fresh)
  <2>1. token \in Tokens \ {0} /\ token \notin DOMAIN table
    BY <1>6, TokenFacts DEF token
  <2>2. M = LiveAt(Insert(table, token, s), now)
    BY <1>1, <1>6 DEF M
  <2>3. LiveAt(Insert(table, token, s), now) = Grown(LiveAt(table, now), token, PromisedAt(s, now))
    BY <1>1, <1>2, <1>3, <2>1, LiveInserted
  <2> QED BY <1>2, <1>3, <2>1, <2>2, <2>3
<1>7. /\ [t \in DOMAIN ReleaseExpired |-> Promised(sessions[t])] = L
      /\ [t \in DOMAIN ReleaseExpired |-> Promised(sessions[t])]' = M
  BY Mapping DEF L, M
<1>8. /\ Silence = Promise!Silence /\ Failure = Promise!Failure
      /\ Promise!Cardinality(DOMAIN L) = Cardinality(DOMAIN L)
  BY SameArithmetic DEF Silence, Failure, Promise!Silence, Promise!Failure
<1>9. CASE /\ ~(Cardinality(DOMAIN L) < MaxSessions)
           /\ exchange' = [request |-> request, reply |-> Silence]
           /\ sessions' = table
  <2>1. Promise!Cardinality(DOMAIN L) >= MaxSessions
    BY <1>8, <1>9, <1>c
  <2>2. M = L /\ exchange' = [request |-> request, reply |-> Promise!Silence]
    BY <1>5, <1>8, <1>9
  <2> QED BY <1>7, <2>1, <2>2 DEF Promise!POpen, Promise!Reply, request
<1>10. CASE /\ Cardinality(DOMAIN L) < MaxSessions
            /\ exchange' = [request |-> request, reply |-> Failure]
            /\ sessions' = table
  <2>1. Promise!Cardinality(DOMAIN L) < MaxSessions
    BY <1>8, <1>10
  <2>2. M = L /\ exchange' = [request |-> request, reply |-> Promise!Failure]
    BY <1>5, <1>8, <1>10
  <2> QED BY <1>7, <2>1, <2>2 DEF Promise!POpen, Promise!Reply, request
<1>11. CASE /\ Cardinality(DOMAIN L) < MaxSessions
            /\ token # None
            /\ exchange' = [request |-> request, reply |-> [kind |-> "opened", token |-> token]]
            /\ sessions' = Insert(table, token, s)
  <2> DEFINE promised == Promise!RefillInterval(Promise!NegotiatedInterval(requested))
             fresh2 == [peer |-> peer, interval |-> promised, level |-> Burst * promised,
                        idleLeft |-> IdleTimeout, age |-> Promise!None,
                        receive |-> Promise!NewReceive]
  <2>1. Promise!Cardinality(DOMAIN L) < MaxSessions
    BY <1>8, <1>11
  <2>2. fresh = fresh2
    BY SameArithmetic DEF fresh
  <2>3. /\ token \in Tokens \ ({0} \cup DOMAIN L)
        /\ M = IF IdleTimeout = 0 THEN L
               ELSE [u \in DOMAIN L \cup {token} |-> IF u = token THEN fresh2 ELSE L[u]]
    BY <1>6, <1>11, <2>2 DEF Grown
  <2>4. \E t \in Tokens \ ({0} \cup DOMAIN L) :
          /\ exchange' = [request |-> request, reply |-> [kind |-> "opened", token |-> t]]
          /\ M = IF IdleTimeout = 0 THEN L
                 ELSE [u \in DOMAIN L \cup {t} |-> IF u = t THEN fresh2 ELSE L[u]]
    BY <1>11, <2>3, Zenon
  <2> DEFINE live == [t \in DOMAIN ReleaseExpired |-> Promised(sessions[t])]
             later == [t \in DOMAIN ReleaseExpired |-> Promised(sessions[t])]'
  <2>5. live = L /\ later = M
    BY <1>7
  <2> HIDE DEF live, later
  <2>6. /\ Promise!Cardinality(DOMAIN live) < MaxSessions
        /\ \E t \in Tokens \ ({0} \cup DOMAIN live) :
             /\ exchange' = [request |-> request, reply |-> [kind |-> "opened", token |-> t]]
             /\ later = IF IdleTimeout = 0 THEN live
                        ELSE [u \in DOMAIN live \cup {t} |-> IF u = t THEN fresh2 ELSE live[u]]
    BY <2>1, <2>4, <2>5, Zenon
  <2> QED BY <2>6, Zenon DEF Promise!POpen, Promise!Reply, request, live, later
<1> QED BY <1>4, <1>9, <1>10, <1>11

(* What the promise to an owner says of the next echo: whether a reply is     *)
(* owed, and whether it is the last.                                           *)
LEMMA PromiseJudges ==
  ASSUME NEW s, now \in Nat, Sound(s, now)
  PROVE  LET p == PromisedAt(s, now)
         IN  /\ p.peer = s.peer /\ p.receive = s.receive
             /\ Charge(s.rate, now).allowed <=> (Burst > 0 /\ p.level >= p.interval)
             /\ MaxDurationReached(s.lifetime, now) <=>
                  (MaxTestDuration # 0 /\ p.age # Promise!None /\ p.age >= Promise!Deadline)
<1> DEFINE p == PromisedAt(s, now)
           d == MaxTestDuration + Grace
           f == s.lifetime.firstServed
<1>1. /\ p.peer = s.peer /\ p.receive = s.receive /\ p.interval = s.rate.interval
      /\ p.level = LevelAt(s.rate, now) /\ p.age = AgeAt(s.lifetime, now)
  BY DEF PromisedAt
<1> HIDE DEF p
<1>2. Charge(s.rate, now).allowed <=> (Burst > 0 /\ p.level >= p.interval)
  BY <1>1, SoundTypes, ChargeLevel
<1>3. /\ f \in Nat \cup {None} /\ f <= now /\ d \in Nat
      /\ MaxTestDuration \in Nat /\ Grace \in Nat
  BY SoundTypes, SessionAssumption
<1>4. MaxDurationReached(s.lifetime, now) <=>
        (MaxTestDuration # 0 /\ p.age # None /\ p.age >= d)
  <2>1. CASE f = None
    BY <1>1, <2>1 DEF AgeAt, MaxDurationReached
  <2>2. CASE f # None
    <3>1. p.age = Lesser(now - f, d) /\ f \in Nat
      BY <1>1, <1>3, <2>2 DEF AgeAt
    <3>2. p.age # None /\ (p.age >= d <=> f + MaxTestDuration + Grace <= now)
      BY <1>3, <3>1 DEF Lesser, None
    <3> QED BY <2>2, <3>2 DEF MaxDurationReached
  <2> QED BY <2>1, <2>2
<1> QED BY <1>1, <1>2, <1>4, SameArithmetic DEF p

LEMMA EchoKeepsPromise ==
  ASSUME CoreInv, NEW peer \in Endpoints, NEW token \in Tokens, NEW seq \in Sequences,
         NEW encodes \in BOOLEAN, HandleEcho(peer, token, seq, encodes)
  PROVE  Promise!PEcho(peer, token, seq)
<1> DEFINE L == LiveAt(sessions, now)
           M == LiveAt(sessions', now')
           live == [t \in DOMAIN ReleaseExpired |-> Promised(sessions[t])]
           later == [t \in DOMAIN ReleaseExpired |-> Promised(sessions[t])]'
           table == ReleaseExpired
           s == table[token]
           p == L[token]
           closing == MaxDurationReached(s.lifetime, now)
           request == [kind |-> "echo", peer |-> peer, token |-> token, seq |-> seq]
           over == MaxTestDuration # 0 /\ p.age # Promise!None /\ p.age >= Promise!Deadline
           owed == Burst > 0 /\ p.level >= p.interval
           taken == Promise!Accepted(p.receive, seq)
           answer == [kind |-> "echo", close |-> over, count |-> taken.count,
                      window |-> taken.window]
<1>0. live = L /\ later = M
  BY Mapping
<1>1. now \in Nat /\ now' = now
  BY DEF CoreInv, HandleEcho
<1>2. /\ DOMAIN L = DOMAIN table /\ LiveAt(table, now) = L /\ Swept(table, now)
      /\ \A t \in DOMAIN table : Sound(table[t], now)
      /\ table = [t \in DOMAIN table |-> table[t]]
  BY SweptLive, LiveFacts, SweepFacts DEF Swept, Table
<1>3. token \in DOMAIN table => p = PromisedAt(s, now) /\ Sound(s, now)
  BY <1>2, SweptLive, LiveFacts
<1>4. \/ /\ ~(token \in DOMAIN table /\ s.peer = peer)
         /\ exchange' = [request |-> request, reply |-> Silence]
         /\ sessions' = table
      \/ /\ token \in DOMAIN table /\ s.peer = peer
         /\ ~Charge(s.rate, now).allowed
         /\ exchange' = [request |-> request, reply |-> Silence]
         /\ sessions' = [table EXCEPT ![token] = Limit(s)]
      \/ /\ token \in DOMAIN table /\ s.peer = peer
         /\ Charge(s.rate, now).allowed
         /\ exchange' = [request |-> request, reply |-> Failure]
         /\ sessions' = table
      \/ /\ token \in DOMAIN table /\ s.peer = peer
         /\ Charge(s.rate, now).allowed
         /\ exchange' = [request |-> request,
                         reply |-> [kind |-> "echo", close |-> closing,
                                    count |-> Accepted(s.receive, seq).count,
                                    window |-> Accepted(s.receive, seq).window]]
         /\ sessions' = IF closing THEN Restrict(table, DOMAIN table \ {token})
                        ELSE [table EXCEPT ![token] = Serve(s, seq)]
  BY DEF HandleEcho, Exchange, Owns
<1>5. ASSUME token \in DOMAIN table
      PROVE  /\ p.peer = s.peer /\ taken = Accepted(s.receive, seq)
             /\ Charge(s.rate, now).allowed <=> owed
             /\ closing <=> over
  BY <1>1, <1>3, <1>5, PromiseJudges, SameArithmetic
<1>6. sessions' = table => M = L
  BY <1>1, SweepKeepsPromise
<1>7. ASSUME token \in DOMAIN table, ~Charge(s.rate, now).allowed,
             sessions' = [table EXCEPT ![token] = Limit(s)]
      PROVE  M = [L EXCEPT ![token] = [p EXCEPT !.idleLeft = IdleTimeout]]
  <2> DEFINE v == Limit(s)
  <2>1. PromisedAt(v, now) = [p EXCEPT !.idleLeft = IdleTimeout] /\ v.lifetime.lastActivity = now
    BY <1>1, <1>3, <1>7, PromiseLimited
  <2> HIDE DEF v, table, L, p, s
  <2>2. M = LiveAt([table EXCEPT ![token] = v], now)
    BY <1>1, <1>7 DEF v
  <2>3. Sound(table[token], now)
    BY <1>2, <1>7
  <2>4. LiveAt(Replaced(table, token, v), now) = Replaced(LiveAt(table, now), token, PromisedAt(v, now))
    BY <1>1, <1>2, <1>7, <2>1, <2>3, LiveUpdated
  <2> QED BY <1>2, <2>1, <2>2, <2>4 DEF Replaced
<1>8. ASSUME token \in DOMAIN table, Charge(s.rate, now).allowed,
             sessions' = [table EXCEPT ![token] = Serve(s, seq)]
      PROVE  M = [L EXCEPT ![token] = Answered(p, seq)]
  <2> DEFINE v == Serve(s, seq)
  <2>1. PromisedAt(v, now) = Answered(p, seq) /\ v.lifetime.lastActivity = now
    BY <1>1, <1>3, <1>8, PromiseServed
  <2> HIDE DEF v, table, L, p, s
  <2>2. M = LiveAt([table EXCEPT ![token] = v], now)
    BY <1>1, <1>8 DEF v
  <2>3. Sound(table[token], now)
    BY <1>2, <1>8
  <2>4. LiveAt(Replaced(table, token, v), now) = Replaced(LiveAt(table, now), token, PromisedAt(v, now))
    BY <1>1, <1>2, <1>8, <2>1, <2>3, LiveUpdated
  <2> QED BY <1>2, <2>1, <2>2, <2>4 DEF Replaced
<1>9. ASSUME token \in DOMAIN table, sessions' = Restrict(table, DOMAIN table \ {token})
      PROVE  M = Promise!Restrict(L, DOMAIN L \ {token})
  <2> HIDE DEF table, L
  <2>1. M = LiveAt(Restrict(table, DOMAIN table \ {token}), now)
    BY <1>1, <1>9
  <2>2. M = Restrict(LiveAt(table, now), DOMAIN LiveAt(table, now) \ {token})
    BY <1>2, <2>1, LiveRemoved
  <2> QED BY <1>2, <2>2, SameArithmetic
<1>s. Silence = Promise!Silence /\ Failure = Promise!Failure
  BY DEF Silence, Failure, Promise!Silence, Promise!Failure
<1> HIDE DEF L, M, live, later, table, s, closing
<1>10. CASE /\ ~(token \in DOMAIN table /\ s.peer = peer)
            /\ exchange' = [request |-> request, reply |-> Silence]
            /\ sessions' = table
  <2>1. token \notin DOMAIN live \/ live[token].peer # peer
    BY <1>0, <1>2, <1>5, <1>10
  <2>2. exchange' = [request |-> request, reply |-> Promise!Silence] /\ later = live
    BY <1>0, <1>6, <1>10, <1>s
  <2> QED BY <2>1, <2>2, Zenon DEF Promise!PEcho, Promise!Reply, live, later
<1>11. CASE /\ token \in DOMAIN table /\ s.peer = peer
            /\ ~Charge(s.rate, now).allowed
            /\ exchange' = [request |-> request, reply |-> Silence]
            /\ sessions' = [table EXCEPT ![token] = Limit(s)]
  <2>1. token \in DOMAIN live /\ live[token].peer = peer
    BY <1>0, <1>2, <1>5, <1>11
  <2>2. ~(Burst > 0 /\ live[token].level >= live[token].interval)
    BY <1>0, <1>5, <1>11
  <2>3. exchange' = [request |-> request, reply |-> Promise!Silence]
    BY <1>11, <1>s
  <2>4. later = [live EXCEPT ![token] = [live[token] EXCEPT !.idleLeft = IdleTimeout]]
    BY <1>0, <1>7, <1>11
  <2> QED BY <2>1, <2>2, <2>3, <2>4, Zenon DEF Promise!PEcho, Promise!Reply, live, later
<1>12. CASE /\ token \in DOMAIN table /\ s.peer = peer
            /\ Charge(s.rate, now).allowed
            /\ exchange' = [request |-> request, reply |-> Failure]
            /\ sessions' = table
  <2>1. token \in DOMAIN live /\ live[token].peer = peer
    BY <1>0, <1>2, <1>5, <1>12
  <2>2. Burst > 0 /\ live[token].level >= live[token].interval
    BY <1>0, <1>5, <1>12
  <2>3. exchange' = [request |-> request, reply |-> Promise!Failure] /\ later = live
    BY <1>0, <1>6, <1>12, <1>s
  <2> QED BY <2>1, <2>2, <2>3, Zenon DEF Promise!PEcho, Promise!Reply, live, later
<1>13. CASE /\ token \in DOMAIN table /\ s.peer = peer
            /\ Charge(s.rate, now).allowed
            /\ exchange' = [request |-> request,
                            reply |-> [kind |-> "echo", close |-> closing,
                                       count |-> Accepted(s.receive, seq).count,
                                       window |-> Accepted(s.receive, seq).window]]
            /\ sessions' = IF closing THEN Restrict(table, DOMAIN table \ {token})
                           ELSE [table EXCEPT ![token] = Serve(s, seq)]
  <2> DEFINE o == MaxTestDuration # 0 /\ live[token].age # Promise!None
                  /\ live[token].age >= Promise!Deadline
             received == Promise!Accepted(live[token].receive, seq)
  <2>1. token \in DOMAIN live /\ live[token].peer = peer
    BY <1>0, <1>2, <1>5, <1>13
  <2>2. Burst > 0 /\ live[token].level >= live[token].interval
    BY <1>0, <1>5, <1>13
  <2>3. closing = o /\ received = Accepted(s.receive, seq)
    BY <1>0, <1>5, <1>13 DEF closing, MaxDurationReached
  <2>4. exchange' = [request |-> request,
                     reply |-> [kind |-> "echo", close |-> o, count |-> received.count,
                                window |-> received.window]]
    BY <1>13, <2>3
  <2>5. later = IF o THEN Promise!Restrict(live, DOMAIN live \ {token})
                ELSE [live EXCEPT ![token] = Answered(live[token], seq)]
    BY <1>0, <1>8, <1>9, <1>13, <2>3
  <2> QED BY <2>1, <2>2, <2>4, <2>5, Zenon
          DEF Promise!PEcho, Promise!Reply, live, later, Answered
<1> QED BY <1>4, <1>10, <1>11, <1>12, <1>13

LEMMA DiscardKeepsPromise ==
  ASSUME Discard \/ Refuse
  PROVE  Promise!PDiscard
<1> DEFINE live == [t \in DOMAIN ReleaseExpired |-> Promised(sessions[t])]
           later == [t \in DOMAIN ReleaseExpired |-> Promised(sessions[t])]'
<1>1. now' = now /\ (sessions' = ReleaseExpired \/ sessions' = sessions)
  BY DEF Discard, Refuse
<1>2. later = live
  BY <1>1, Mapping, SweepKeepsPromise
<1>3. PICK kind \in {"invalid", "refusedOpen", "oversized"} :
        exchange' = [request |-> [kind |-> kind], reply |-> Promise!Silence]
  BY DEF Discard, Refuse, Exchange, Silence, Promise!Silence
<1> HIDE DEF live, later
<1> QED BY <1>2, <1>3, Zenon DEF Promise!PDiscard, Promise!Reply, live, later

LEMMA NoTestKeepsPromise ==
  ASSUME NEW peer \in Endpoints, NEW encodes \in BOOLEAN, HandleNoTest(peer, encodes)
  PROVE  Promise!PNoTest(peer)
<1> DEFINE live == [t \in DOMAIN ReleaseExpired |-> Promised(sessions[t])]
           later == [t \in DOMAIN ReleaseExpired |-> Promised(sessions[t])]'
<1>1. now' = now /\ sessions' = ReleaseExpired
  BY DEF HandleNoTest
<1>2. later = live
  BY <1>1, Mapping, SweepKeepsPromise
<1>3. PICK answer \in {[kind |-> "noTest", token |-> 0], Promise!Failure} :
        exchange' = [request |-> [kind |-> "noTest", peer |-> peer], reply |-> answer]
  BY DEF HandleNoTest, Exchange, Failure, Promise!Failure
<1> HIDE DEF live, later
<1> QED BY <1>2, <1>3, Zenon DEF Promise!PNoTest, Promise!Reply, live, later

LEMMA CloseKeepsPromise ==
  ASSUME CoreInv, NEW peer \in Endpoints, NEW token \in Tokens, HandleClose(peer, token)
  PROVE  Promise!PClose(peer, token)
<1> DEFINE live == [t \in DOMAIN ReleaseExpired |-> Promised(sessions[t])]
           later == [t \in DOMAIN ReleaseExpired |-> Promised(sessions[t])]'
           L == LiveAt(sessions, now)
           table == ReleaseExpired
<1>0. live = L /\ later = LiveAt(sessions', now')
  BY Mapping
<1>1. /\ now' = now
      /\ sessions' = IF token \in DOMAIN table /\ table[token].peer = peer
                     THEN Restrict(table, DOMAIN table \ {token}) ELSE table
      /\ exchange' = [request |-> [kind |-> "close", peer |-> peer, token |-> token],
                      reply |-> Promise!Silence]
  BY DEF HandleClose, Owns, Exchange, Silence, Promise!Silence
<1>2. /\ DOMAIN L = DOMAIN table /\ LiveAt(table, now) = L /\ Swept(table, now)
      /\ \A t \in DOMAIN table : L[t].peer = table[t].peer
  <2>1. \A t \in DOMAIN table : L[t] = PromisedAt(table[t], now)
    BY SweptLive, LiveFacts
  <2>2. \A t \in DOMAIN table : PromisedAt(table[t], now).peer = table[t].peer
    BY DEF PromisedAt
  <2> QED BY <2>1, <2>2, SweptLive, LiveFacts DEF Swept
<1> HIDE DEF live, later, L, table
<1>3. CASE token \in DOMAIN table /\ table[token].peer = peer
  <2>1. later = Restrict(L, DOMAIN L \ {token})
    BY <1>0, <1>1, <1>2, <1>3, LiveRemoved
  <2>2. later = Promise!Restrict(live, DOMAIN live \ {token})
    BY <1>0, <2>1, SameArithmetic
  <2>3. token \in DOMAIN live /\ live[token].peer = peer
    BY <1>0, <1>2, <1>3
  <2> QED BY <1>1, <2>2, <2>3, Zenon DEF Promise!PClose, Promise!Reply, live, later
<1>4. CASE ~(token \in DOMAIN table /\ table[token].peer = peer)
  <2>1. later = live
    BY <1>0, <1>1, <1>2, <1>4
  <2>2. ~(token \in DOMAIN live /\ live[token].peer = peer)
    BY <1>0, <1>2, <1>4
  <2> QED BY <1>1, <2>1, <2>2, Zenon DEF Promise!PClose, Promise!Reply, live, later
<1> QED BY <1>3, <1>4

LEMMA StepKeepsPromise ==
  ASSUME CoreInv, [Next]_vars
  PROVE  [Promise!PNext]_(Promise!pvars)
<1>1. ASSUME now' = now, sessions' = ReleaseExpired \/ sessions' = sessions, exchange' = exchange
      PROVE  UNCHANGED Promise!pvars
  BY <1>1, Mapping, SweepKeepsPromise DEF Promise!pvars
<1>2. CASE Maintain \/ UNCHANGED vars
  BY <1>1, <1>2 DEF Maintain, vars
<1>3. CASE Tick
  BY <1>3, TickKeepsPromise DEF Promise!PNext
<1>4. CASE Discard \/ Refuse
  BY <1>4, DiscardKeepsPromise DEF Promise!PNext
<1>5. ASSUME NEW peer \in Endpoints, NEW requested \in Intervals,
             NEW draws \in [1 .. TokenAttempts -> Tokens], NEW encodes \in BOOLEAN,
             HandleOpen(peer, requested, draws, encodes)
      PROVE  Promise!PNext
  <2>1. Promise!POpen(peer, requested)
    BY <1>5, OpenKeepsPromise
  <2> QED BY <2>1 DEF Promise!PNext
<1>6. ASSUME NEW peer \in Endpoints, NEW encodes \in BOOLEAN, HandleNoTest(peer, encodes)
      PROVE  Promise!PNext
  <2>1. Promise!PNoTest(peer)
    BY <1>6, NoTestKeepsPromise
  <2> QED BY <2>1 DEF Promise!PNext
<1>7. ASSUME NEW peer \in Endpoints, NEW token \in Tokens, HandleClose(peer, token)
      PROVE  Promise!PNext
  <2>1. Promise!PClose(peer, token)
    BY <1>7, CloseKeepsPromise
  <2> QED BY <2>1 DEF Promise!PNext
<1>8. ASSUME NEW peer \in Endpoints, NEW token \in Tokens, NEW seq \in Sequences,
             NEW encodes \in BOOLEAN, HandleEcho(peer, token, seq, encodes)
      PROVE  Promise!PNext
  <2>1. Promise!PEcho(peer, token, seq)
    BY <1>8, EchoKeepsPromise
  <2> QED BY <2>1 DEF Promise!PNext
<1> QED BY <1>2, <1>3, <1>4, <1>5, <1>6, <1>7, <1>8 DEF Next

(* The server implements its promise (core.rs, session.rs): clients cannot    *)
(* tell the lazily swept table and its whole-interval allowances from a       *)
(* server that drops a session the instant its idle deadline passes and       *)
(* rations replies by a fluid bucket.                                          *)
THEOREM ServerKeepsPromise == Spec => KeepsPromise
<1>1. Init => Promise!PInit
  <2> SUFFICES ASSUME Init PROVE Promise!PInit
    OBVIOUS
  <2>1. LiveTokens(sessions, now) = {}
    BY DEF Init, LiveTokens
  <2>2. LiveAt(sessions, now) = [t \in {} |-> Promise!None]
    BY <2>1 DEF LiveAt
  <2>3. exchange = [request |-> Promise!Silence, reply |-> Promise!Silence]
    BY DEF Init, Silence, Promise!Silence
  <2> QED BY <2>2, <2>3, Mapping DEF Promise!PInit
<1>2. CoreInv /\ [Next]_vars => [Promise!PNext]_(Promise!pvars)
  BY StepKeepsPromise
<1> QED BY <1>1, <1>2, CoreInvariant, PTL DEF Spec, KeepsPromise, Promise!PSpec

(***************************************************************************)
(* The received window                                                      *)
(***************************************************************************)
(* Residues are unique.                                                        *)
LEMMA ModUnique ==
  ASSUME NEW m \in Nat \ {0}, NEW q \in Int, NEW r \in 0 .. m - 1, NEW x \in Int,
         x = m * q + r
  PROVE  x % m = r
<1> DEFINE k == x \div m
           s == x % m
<1>1. k \in Int /\ s \in 0 .. m - 1 /\ x = m * k + s
  OBVIOUS
<1> HIDE DEF k, s
<1>2. m * (k - q) = r - s
  BY <1>1
<1>3. k - q < 1
  <2>1. CASE k - q >= 1
    <3>1. m * (k - q) >= m
      BY <1>1, <2>1
    <3> QED
      BY <1>1, <1>2, <3>1
  <2> QED
    BY <1>1, <2>1
<1>4. k - q > -1
  <2>1. CASE k - q <= -1
    <3>1. m * (k - q) <= -m
      BY <1>1, <2>1
    <3> QED
      BY <1>1, <1>2, <3>1
  <2> QED
    BY <1>1, <2>1
<1>5. k = q
  BY <1>1, <1>3, <1>4
<1> QED
  BY <1>1, <1>5 DEF s

(* The unsigned distance between the sequence numbers of two positions less   *)
(* than a cycle apart: the signed one, or a cycle more for a late arrival.    *)
LEMMA WireDistance ==
  ASSUME NEW p \in Nat, NEW a \in Nat, p - a < SeqSpace, a - p < SeqSpace
  PROVE  ((p % SeqSpace) - (a % SeqSpace)) % SeqSpace
           = IF p >= a THEN p - a ELSE p - a + SeqSpace
<1> DEFINE x == p % SeqSpace
           y == a % SeqSpace
           i == p \div SeqSpace
           j == a \div SeqSpace
<1>1. SeqSpace \in Nat \ {0}
  BY SessionAssumption
<1>2. x \in 0 .. SeqSpace - 1 /\ y \in 0 .. SeqSpace - 1 /\ i \in Int /\ j \in Int
      /\ p = SeqSpace * i + x /\ a = SeqSpace * j + y
  BY <1>1
<1> HIDE DEF x, y, i, j
<1>3. CASE p >= a
  <2>1. x - y = SeqSpace * (j - i) + (p - a)
    BY <1>1, <1>2
  <2>2. p - a \in 0 .. SeqSpace - 1 /\ j - i \in Int /\ x - y \in Int
    BY <1>1, <1>2, <1>3
  <2> DEFINE z == x - y
             q == j - i
             r == p - a
  <2>3. z = SeqSpace * q + r /\ r \in 0 .. SeqSpace - 1 /\ q \in Int /\ z \in Int
    BY <2>1, <2>2
  <2> HIDE DEF z, q, r
  <2>4. z % SeqSpace = r
    BY <1>1, <2>3, ModUnique
  <2>5. ((p % SeqSpace) - (a % SeqSpace)) % SeqSpace = p - a
    BY <2>4, Zenon DEF x, y, z, r
  <2> QED
    BY <1>3, <2>5
<1>4. CASE ~(p >= a)
  <2>1. x - y = SeqSpace * (j - i - 1) + (p - a + SeqSpace)
    BY <1>1, <1>2
  <2>2. p - a + SeqSpace \in 0 .. SeqSpace - 1 /\ j - i - 1 \in Int /\ x - y \in Int
    BY <1>1, <1>2, <1>4
  <2> DEFINE z == x - y
             q == j - i - 1
             r == p - a + SeqSpace
  <2>3. z = SeqSpace * q + r /\ r \in 0 .. SeqSpace - 1 /\ q \in Int /\ z \in Int
    BY <2>1, <2>2
  <2> HIDE DEF z, q, r
  <2>4. z % SeqSpace = r
    BY <1>1, <2>3, ModUnique
  <2>5. ((p % SeqSpace) - (a % SeqSpace)) % SeqSpace = p - a + SeqSpace
    BY <2>4, Zenon DEF x, y, z, r
  <2> QED
    BY <1>4, <2>5
<1> QED
  BY <1>3, <1>4

WindowInv == WindowTypeOK /\ NoPhantomReceipts /\ CompleteUntilReset

(* What one arrival does to the window: a late arrival, a first one and a gap *)
(* too large leave only the arrival itself, any other shifts the history.     *)
LEMMA WindowAfter ==
  ASSUME WindowTypeOK, NEW p \in Nat,
         got = {} \/ (p - at <= Displacement /\ at - p <= Displacement)
  PROVE  Window(receive, p % SeqSpace) =
           IF got # {} /\ p - at \in 0 .. WindowBits - 1
           THEN {0} \cup { k \in 0 .. WindowBits - 1 : k - (p - at) \in receive.window }
           ELSE {0}
<1>1. SeqSpace \in Nat \ {0} /\ WindowBits \in 1 .. SeqSpace /\ Displacement \in Nat
      /\ WindowBits + Displacement <= SeqSpace /\ at \in Nat
  BY SessionAssumption, WindowAssumption DEF WindowTypeOK
<1>2. CASE got = {}
  BY <1>2 DEF WindowTypeOK, Window
<1>3. CASE got # {}
  <2> DEFINE d == ((p % SeqSpace) - (at % SeqSpace)) % SeqSpace
  <2>1. p - at < SeqSpace /\ at - p < SeqSpace
    BY <1>1, <1>3
  <2>2. d = IF p >= at THEN p - at ELSE p - at + SeqSpace
    BY <1>1, <2>1, WireDistance
  <2>3. at % SeqSpace \in Nat
    BY <1>1
  <2>4. receive.last = at % SeqSpace /\ receive.last # None
    BY <1>3, <2>3 DEF WindowTypeOK, None
  <2>5. Window(receive, p % SeqSpace) =
          IF d >= WindowBits THEN {0}
          ELSE {0} \cup { k \in 0 .. WindowBits - 1 : k - d \in receive.window }
    BY <2>4 DEF Window
  <2> HIDE DEF d
  <2>6. CASE p - at \in 0 .. WindowBits - 1
    <3>1. d = p - at /\ ~(d >= WindowBits)
      BY <1>1, <2>2, <2>6
    <3> QED
      BY <1>3, <2>5, <2>6, <3>1
  <2>7. CASE p - at \notin 0 .. WindowBits - 1
    <3>1. d >= WindowBits
      BY <1>1, <1>3, <2>2, <2>7
    <3> QED
      BY <2>5, <2>7, <3>1
  <2> QED
    BY <2>6, <2>7
<1> QED
  BY <1>2, <1>3

LEMMA ArrivalPreservesWindowInv ==
  ASSUME WindowInv, NEW p \in Nat, Arrive(p),
         got = {} \/ (p - at <= Displacement /\ at - p <= Displacement)
  PROVE  WindowInv'
<1> DEFINE near == got # {} /\ p - at \in 0 .. WindowBits - 1
           shifted == { k \in 0 .. WindowBits - 1 : k - (p - at) \in receive.window }
<1>1. SeqSpace \in Nat \ {0} /\ WindowBits \in Nat \ {0} /\ at \in Nat
      /\ got \subseteq Nat /\ receive.count \in SeqNos
  BY SessionAssumption DEF WindowInv, WindowTypeOK
<1>2. receive'.window = IF near THEN {0} \cup shifted ELSE {0}
  BY WindowAfter DEF WindowInv, Arrive, Accepted
<1>3. receive'.last = p % SeqSpace /\ receive'.count = (receive.count + 1) % SeqSpace
      /\ at' = p /\ got' = got \cup {p} /\ got' # {}
      /\ intact' = (intact /\ (got = {} \/ near))
  BY DEF Arrive, Accepted
<1>4. receive'.window \subseteq 0 .. WindowBits - 1
  BY <1>1, <1>2
<1>5. WindowTypeOK'
  <2>1. receive'.count \in SeqNos
    BY <1>1, <1>3 DEF SeqNos
  <2>2. intact' => \A r \in got' : r <= at'
    <3> SUFFICES ASSUME intact', NEW r \in got', r # p PROVE r <= p
      BY <1>1, <1>3
    <3>1. r \in got /\ intact /\ p - at \in 0 .. WindowBits - 1
      BY <1>3
    <3>2. r <= at /\ r \in Nat
      BY <1>1, <3>1 DEF WindowInv, WindowTypeOK
    <3> QED
      BY <1>1, <3>1, <3>2
  <2> QED
    BY <1>1, <1>3, <1>4, <2>1, <2>2 DEF WindowTypeOK
<1>6. NoPhantomReceipts'
  <2> SUFFICES ASSUME NEW k \in receive'.window PROVE p - k \in got \cup {p}
    BY <1>3 DEF NoPhantomReceipts
  <2>1. CASE k = 0
    BY <2>1
  <2>2. CASE near /\ k \in shifted
    <3>1. k - (p - at) \in receive.window /\ k \in Nat
      BY <2>2
    <3>2. at - (k - (p - at)) \in got
      BY <2>2, <3>1 DEF WindowInv, NoPhantomReceipts
    <3>3. at - (k - (p - at)) = p - k
      BY <1>1, <3>1
    <3> QED
      BY <3>2, <3>3
  <2> QED
    BY <1>2, <2>1, <2>2
<1>7. CompleteUntilReset'
  <2> SUFFICES ASSUME intact', NEW k \in 0 .. WindowBits - 1, p - k \in got \cup {p}
               PROVE  k \in receive'.window
    BY <1>3 DEF CompleteUntilReset
  <2>1. CASE k = 0
    BY <1>2, <2>1
  <2>2. CASE k # 0
    <3>0. p - k # p
      BY <2>2
    <3>1. p - k \in got /\ near /\ intact
      BY <1>3, <3>0
    <3>2. p - k <= at
      BY <3>1 DEF WindowInv, WindowTypeOK
    <3>3. k - (p - at) \in 0 .. WindowBits - 1 /\ at - (k - (p - at)) = p - k
      BY <1>1, <3>1, <3>2
    <3>4. k - (p - at) \in receive.window
      BY <3>1, <3>3 DEF WindowInv, CompleteUntilReset
    <3> QED
      BY <1>2, <3>1, <3>4
  <2> QED
    BY <2>1, <2>2
<1> QED
  BY <1>5, <1>6, <1>7 DEF WindowInv

(* The type invariant and the two window properties are jointly inductive.    *)
THEOREM WindowInvariant == WSpec => []WindowInv
<1>1. WInit => WindowInv
  BY SessionAssumption DEF WInit, WindowInv, WindowTypeOK, NoPhantomReceipts,
     CompleteUntilReset, NewReceive, SeqNos
<1>2. WindowInv /\ [WNext]_wvars => WindowInv'
  <2>1. ASSUME WindowInv, UNCHANGED wvars PROVE WindowInv'
    BY <2>1 DEF WindowInv, WindowTypeOK, NoPhantomReceipts, CompleteUntilReset, wvars
  <2>2. ASSUME WindowInv, WNext PROVE WindowInv'
    BY <2>2, ArrivalPreservesWindowInv, WindowAssumption DEF WNext
  <2> QED
    BY <2>1, <2>2
<1> QED
  BY <1>1, <1>2, PTL DEF WSpec

(* Type correctness of the reported statistics.                               *)
THEOREM WindowTypeCorrect == WSpec => []WindowTypeOK
<1>1. WindowInv => WindowTypeOK
  BY DEF WindowInv
<1> QED
  BY <1>1, WindowInvariant, PTL

(* A server never reports a request as received that was not.                 *)
THEOREM NeverPhantom == WSpec => []NoPhantomReceipts
<1>1. WindowInv => NoPhantomReceipts
  BY DEF WindowInv
<1> QED
  BY <1>1, WindowInvariant, PTL

(* Until a reset the window omits no request received within its reach.       *)
THEOREM AlwaysComplete == WSpec => []CompleteUntilReset
<1>1. WindowInv => CompleteUntilReset
  BY DEF WindowInv
<1> QED
  BY <1>1, WindowInvariant, PTL

=============================================================================
