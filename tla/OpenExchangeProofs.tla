------------------------- MODULE OpenExchangeProofs -------------------------
(* Proofs about OpenExchange: what a call to open, receive or close leaves of *)
(* the socket, and that no session the client was given is forgotten, for any *)
(* number of attempts, ticks, sessions and failures and any network.          *)
EXTENDS OpenExchange, FiniteSetTheorems, TLAPS

(***************************************************************************)
(* The inductive invariant                                                  *)
(***************************************************************************)
Classes == {Clear, Marked}

Transaction == [attempt : Nat, left : Int, submitted : BOOLEAN, cleanup : Int]

(* What the control of either adapter tells apart.                            *)
ControlType ==
  /\ setup \in Setups
  /\ machine \in {"connected", "open", "noTest", "closed"}
  /\ phase \in {"idle", "opening", "receiving"}
  /\ held \in [token : Nat, class : Classes]
  /\ tx \in Transaction
  /\ sock \in [class : Classes, timeout : {"user", "open", "narrowed"}]
  /\ applied \in Classes

(* Only what was issued with a session can be closed: a reply that carries    *)
(* the close flag carries no token.                                            *)
NetInv ==
  /\ IsFiniteSet(Issued)
  /\ \A m \in net :
       m.kind = "reply" =>
         /\ m.token \in Nat
         /\ m.close \in BOOLEAN
         /\ m.params \in Returned
         /\ m.close => m.token = 0

(* No transaction runs while a session is held, and one that waits for its    *)
(* reply has nothing to clean up; only the async adapter keeps a close packet *)
(* over a suspension, the blocking one sends it before it returns.             *)
LifecycleInv ==
  /\ phase = "opening" => machine = "connected"
  /\ machine # "open" => held = NoSession
  /\ phase # "opening" \/ setup.adapter = "blocking" => tx.cleanup = NoCleanup

(* applied_traffic_class follows the session until a peer's close cannot      *)
(* clear it; the async adapter, whose open applies the class last, never      *)
(* leaves it on the socket of an open that failed.                             *)
ClassInv ==
  /\ machine # "closed" => applied = held.class
  /\ setup.adapter = "async" /\ machine = "connected" => sock.class = Clear
  /\ ClassMatchesSession

(* Only blocking calls touch the socket's read timeout.                       *)
TimeoutInv ==
  /\ setup.adapter = "async" => sock.timeout = "user"
  /\ ReadTimeoutRestored

(* A receive never waits longer than what is left of its timeout.             *)
WaitInv ==
  /\ rx.elapsed \in Nat /\ rx.kernel \in Nat
  /\ rx = [elapsed |-> rx.elapsed, kernel |-> rx.kernel]
  /\ rx.elapsed + rx.kernel <= RecvTimeout

(* Every token learned is a token.                                            *)
TokenInv ==
  /\ learned \subseteq Nat
  /\ NoSessionForgotten

OpenInv ==
  /\ ControlType /\ NetInv /\ LifecycleInv
  /\ ClassInv /\ TimeoutInv /\ WaitInv /\ TokenInv

LEMMA OpenInitially == Init => OpenInv
<1> SUFFICES ASSUME Init PROVE OpenInv
  OBVIOUS
<1>1. ControlType /\ LifecycleInv
  BY DEF Init, Transaction, ControlType, LifecycleInv, NoSession, FreshOpen, NoDeadline, NoCleanup,
         Classes, Clear, Marked
<1>2. NetInv
  <2>1. Issued = {}
    BY DEF Init, Issued
  <2> QED BY <2>1, FS_EmptySet DEF Init, NetInv
<1>3. ClassInv /\ TimeoutInv
  BY DEF Init, ClassInv, TimeoutInv, ClassMatchesSession, ReadTimeoutRestored, NoSession
<1>4. WaitInv
  BY OpenAssumption DEF Init, WaitInv, FreshReceive
<1>5. TokenInv
  BY DEF Init, TokenInv, NoSessionForgotten
<1> QED BY <1>1, <1>2, <1>3, <1>4, <1>5 DEF OpenInv

(* Fresh locals are locals.                                                    *)
LEMMA FreshTyped ==
  /\ FreshOpen \in Transaction
  /\ FreshOpen.cleanup = NoCleanup
  /\ NoSession \in [token : Nat, class : Classes]
  /\ NoSession.token = 0 /\ NoSession.class = Clear
BY DEF Transaction, FreshOpen, NoDeadline, NoCleanup, NoSession, Classes, Clear, Marked

(* What the attempts do to a transaction.                                      *)
LEMMA TransactionStep ==
  ASSUME NEW t \in Transaction, NEW left \in Int
  PROVE  /\ \A s \in BOOLEAN : [t EXCEPT !.left = left, !.submitted = s] \in Transaction
         /\ [t EXCEPT !.left = left, !.submitted = FALSE].cleanup = t.cleanup
         /\ \A n \in Nat : [t EXCEPT !.attempt = n, !.left = left, !.submitted = FALSE] \in Transaction
BY DEF Transaction

(* What the next attempt leaves of the transaction.                           *)
LEMMA NextAttemptTyped ==
  ASSUME ControlType
  PROVE  /\ NextAttempt \in Transaction
         /\ NextAttempt.cleanup = tx.cleanup
<1>1. NextAttempt.cleanup = tx.cleanup
  BY DEF ControlType, Transaction, NextAttempt
<1>2. tx.attempt + 1 \in Nat /\ NoDeadline \in Int
  BY DEF ControlType, Transaction, NoDeadline
<1> QED BY <1>1, <1>2, TransactionStep DEF ControlType, NextAttempt

(* What a reply the client reads says.                                         *)
LEMMA ReplyFacts ==
  ASSUME NetInv, NEW m \in ToClient, m.kind = "reply"
  PROVE  /\ m.token \in Nat /\ ClassOf(m.params) \in Classes
         /\ CleanupClose(m) = m.token
BY DEF NetInv, ToClient, ClassOf, Classes, Clear, Marked, CleanupClose

(* A reply that completes a no-test open names no session.                    *)
LEMMA AcceptedFacts ==
  ASSUME NetInv, ControlType, NEW m \in ToClient, m.kind = "reply", Acceptable(m)
  PROVE  setup.mode # "normal" => m.token = 0
BY DEF Acceptable, ControlType, Setups

(***************************************************************************)
(* The control                                                              *)
(***************************************************************************)
LEMMA AsyncControl ==
  ASSUME OpenInv, AsyncNext
  PROVE  (ControlType /\ LifecycleInv)'
<1> USE FreshTyped, NextAttemptTyped
    DEF OpenInv, session, history, OpenReturns
<1>1. CASE StartAttempt
  <2>1. OpenTimeout \in Int
    BY OpenAssumption
  <2>2. CASE OpenReturns
    BY <1>1, <2>2 DEF StartAttempt, ControlType, LifecycleInv
  <2>3. CASE tx' = [tx EXCEPT !.left = OpenTimeout, !.submitted = FALSE] /\ phase' = phase
    <3>1. tx' \in Transaction
      BY <2>1, <2>3, TransactionStep DEF ControlType
    <3> QED BY <1>1, <3>1, <2>3 DEF StartAttempt, ControlType, LifecycleInv, Opening, IsAsync
  <2> QED BY <1>1, <2>2, <2>3 DEF StartAttempt
<1>2. CASE Submit
  <2>1. CASE OpenReturns
    BY <1>2, <2>1 DEF Submit, ControlType, LifecycleInv
  <2>2. CASE tx' \in {[tx EXCEPT !.submitted = TRUE], NextAttempt} /\ phase' = phase
    <3>1. tx' \in Transaction
      BY <2>2 DEF ControlType, Transaction
    <3> QED BY <1>2, <3>1, <2>2 DEF Submit, ControlType, LifecycleInv, Opening, IsAsync
  <2> QED BY <1>2, <2>1, <2>2 DEF Submit
<1>3. CASE AttemptExpires \/ ReadStray \/ ReadMalformed
  BY <1>3 DEF AttemptExpires, ReadStray, ReadMalformed, ControlType, LifecycleInv,
              Waiting, Opening, IsAsync
<1>4. CASE ReadReply
  <2>1. PICK m \in ToClient : Waiting /\ ReadReply!(m)
    BY <1>4 DEF ReadReply
  <2>2. CASE IsLate
    BY <2>1, <2>2 DEF ControlType, LifecycleInv, Waiting, Opening, IsAsync
  <2>3. CASE m.kind = "reply" /\ ~IsLate /\ ~Acceptable(m)
    <3>1. tx' \in Transaction
      BY <2>1, <2>3, ReplyFacts DEF ControlType, Transaction
    <3> QED BY <2>1, <2>3, <3>1 DEF ControlType, LifecycleInv, Waiting, Opening, IsAsync
  <2>4. CASE m.kind = "reply" /\ ~IsLate /\ Acceptable(m)
    <3>1. Accept(m) /\ m.token \in Nat /\ ClassOf(m.params) \in Classes
      BY <2>1, <2>4, ReplyFacts
    <3>2. CASE CommitOpen(m) /\ OpenReturns /\ applied' = held'.class
               /\ sock' = IF setup.mode = "normal" THEN SetClass(sock, held'.class) ELSE sock
      <4>1. /\ machine' \in {"open", "noTest"}
            /\ held' \in [token : Nat, class : Classes]
            /\ machine' # "open" => held' = NoSession
        BY <3>1, <3>2 DEF CommitOpen
      <4> QED BY <2>1, <3>2, <4>1 DEF ControlType, LifecycleInv, SetClass
    <3>3. CASE /\ tx' = [tx EXCEPT !.cleanup = m.token]
               /\ sock' \in {sock, SetClass(sock, applied)}
               /\ UNCHANGED <<session, phase, applied>>
      <4>1. tx' \in Transaction
        BY <3>1, <3>3 DEF ControlType, Transaction
      <4> QED BY <2>1, <3>3, <4>1
              DEF ControlType, LifecycleInv, Waiting, Opening, IsAsync, SetClass
    <3> QED BY <3>1, <3>2, <3>3 DEF Accept
  <2> QED BY <2>1, <2>2, <2>3, <2>4
<1>5. CASE Cleanup \/ Abandon
  BY <1>5 DEF Cleanup, Abandon, ControlType, LifecycleInv
<1>6. CASE Close
  BY <1>6 DEF Close, CommitClose, Rollback, ControlType, LifecycleInv, SetClass, Classes
<1>7. CASE Receive
  BY <1>7 DEF Receive, CommitClose, ControlType, LifecycleInv, SetClass, Classes
<1> QED BY <1>1, <1>2, <1>3, <1>4, <1>5, <1>6, <1>7 DEF AsyncNext, AsyncOwnStep

LEMMA BlockingControl ==
  ASSUME OpenInv, BlockingNext
  PROVE  (ControlType /\ LifecycleInv)'
<1> USE FreshTyped, NextAttemptTyped
    DEF OpenInv, session, history, OpenReturns
<1>1. CASE BeginAttempt
  <2>1. PICK set, send, restore \in BOOLEAN : BeginAttempt!(set, send, restore)
    BY <1>1 DEF BeginAttempt
  <2>2. OpenTimeout \in Int
    BY OpenAssumption
  <2>3. CASE /\ tx' = [tx EXCEPT !.left = OpenTimeout, !.submitted = TRUE]
             /\ phase' = phase
             /\ sock' = IF set THEN [sock EXCEPT !.timeout = "open"] ELSE sock
    <3>1. tx' \in Transaction /\ tx'.cleanup = tx.cleanup
      BY <2>2, <2>3 DEF ControlType, Transaction
    <3> QED BY <2>1, <2>3, <3>1 DEF ControlType, LifecycleInv, InOpen
  <2>4. CASE OpenFails(sock, restore)
    BY <2>1, <2>4 DEF OpenFails, ControlType, LifecycleInv
  <2>5. CASE OpenFails(IF set THEN [sock EXCEPT !.timeout = "open"] ELSE sock, restore)
    BY <2>1, <2>5 DEF OpenFails, ControlType, LifecycleInv
  <2> QED BY <2>1, <2>3, <2>4, <2>5
<1>2. CASE AttemptOver \/ LateStray
  BY <1>2 DEF AttemptOver, LateStray, ControlType, LifecycleInv, InOpen
<1>3. CASE AttemptFails
  BY <1>3 DEF AttemptFails, OpenFails, ControlType, LifecycleInv
<1>4. CASE ReadOpenReply
  <2>1. PICK m \in ToClient : InOpen /\ ReadOpenReply!(m)
    BY <1>4 DEF ReadOpenReply
  <2>2. CASE IsLate
    BY <2>1, <2>2 DEF ControlType, LifecycleInv, InOpen
  <2>3. CASE m.kind = "reply" /\ RejectReply(m)
    BY <2>1, <2>3 DEF RejectReply, OpenFails, ControlType, LifecycleInv
  <2>4. CASE m.kind = "reply" /\ ApplyPreparedOpen(m)
    <3>1. PICK reserve, apply, timeout, undo, cleanup, restore \in BOOLEAN :
            ApplyPreparedOpen(m)!(reserve, apply, timeout, undo, cleanup, restore)
      BY <2>4 DEF ApplyPreparedOpen
    <3>2. m.token \in Nat /\ ClassOf(m.params) \in Classes
      BY <2>4, ReplyFacts
    <3> DEFINE marked == IF setup.mode = "normal" /\ reserve /\ apply
                         THEN SetClass(sock, ClassOf(m.params)) ELSE sock
               undone == IF setup.mode = "normal" /\ reserve /\ undo
                         THEN SetClass(marked, applied) ELSE marked
    <3>3. /\ marked \in [class : Classes, timeout : {"user", "open", "narrowed"}]
          /\ undone \in [class : Classes, timeout : {"user", "open", "narrowed"}]
      BY <3>2 DEF ControlType, SetClass
    <3>4. CASE /\ CommitOpen(m) /\ OpenReturns /\ applied' = held'.class
               /\ sock' = [marked EXCEPT !.timeout = "user"]
      <4>1. /\ machine' \in {"open", "noTest"}
            /\ held' \in [token : Nat, class : Classes]
            /\ machine' # "open" => held' = NoSession
        BY <3>2, <3>4 DEF CommitOpen
      <4> HIDE DEF marked
      <4> QED BY <2>1, <3>3, <3>4, <4>1 DEF ControlType, LifecycleInv
    <3>5. CASE /\ OpenReturns /\ UNCHANGED <<session, applied>>
               /\ sock' = IF restore THEN [undone EXCEPT !.timeout = "user"] ELSE undone
      <4> HIDE DEF undone
      <4> QED BY <2>1, <3>3, <3>5 DEF ControlType, LifecycleInv
    <3> QED BY <3>1, <3>4, <3>5
  <2> QED BY <2>1, <2>2, <2>3, <2>4
<1>5. CASE BlockingClose
  BY <1>5 DEF BlockingClose, CommitClose, ControlType, LifecycleInv, SetClass, Classes
<1>6. CASE RecvCall
  BY <1>6 DEF RecvCall, ControlType, LifecycleInv, InOpen
<1>7. CASE Interrupted \/ RecvEmpty
  BY <1>7 DEF Interrupted, RecvEmpty, RecvReturns, ControlType, LifecycleInv
<1>8. CASE RecvDatagram
  BY <1>8 DEF RecvDatagram, CommitClose, ControlType, LifecycleInv, Classes
<1> QED BY <1>1, <1>2, <1>3, <1>4, <1>5, <1>6, <1>7, <1>8
        DEF BlockingNext, BlockingOwnStep

(* Opening, the clock and the peer.                                            *)
LEMMA CommonControl ==
  ASSUME OpenInv, OpenCall \/ Tick \/ PeerOpens \/ PeerCloses \/ UNCHANGED vars
  PROVE  (ControlType /\ LifecycleInv)'
<1> USE FreshTyped DEF OpenInv, session, history
<1>1. CASE OpenCall
  BY <1>1 DEF OpenCall, ControlType, LifecycleInv
<1>2. CASE Tick
  <2>1. tx' \in Transaction /\ tx'.cleanup = tx.cleanup
    BY <1>2 DEF Tick, ControlType, Transaction
  <2> QED BY <1>2, <2>1 DEF Tick, ControlType, LifecycleInv
<1>3. CASE PeerOpens \/ PeerCloses \/ UNCHANGED vars
  BY <1>3 DEF PeerOpens, PeerCloses, vars, ControlType, LifecycleInv
<1> QED BY <1>1, <1>2, <1>3

(***************************************************************************)
(* The network                                                              *)
(***************************************************************************)
(* Whatever the client does, it sends open requests and close packets only.  *)
LEMMA ClientSends ==
  ASSUME OpenInv, AsyncNext \/ BlockingNext \/ OpenCall \/ Tick
  PROVE  \/ net' = net
         \/ net' = net \cup {[kind |-> "open"]}
         \/ \E t : net' = net \cup {[kind |-> "close", token |-> t]}
<1> USE DEF ClosePacket
<1>1. CASE AsyncOwnStep \/ ReadMalformed \/ ReadReply
  BY <1>1 DEF AsyncOwnStep, StartAttempt, Submit, AttemptExpires, ReadStray, Cleanup,
              ReadMalformed, ReadReply
<1>5. CASE Abandon \/ Receive
  BY <1>5 DEF Abandon, Receive
<1>6. CASE Close
  BY <1>6 DEF Close
<1>2. CASE BlockingOwnStep \/ AttemptFails \/ BlockingClose \/ RecvCall \/ Interrupted
           \/ RecvDatagram
  BY <1>2 DEF BlockingOwnStep, AttemptFails, BlockingClose, RecvCall, Interrupted,
              RecvDatagram, BeginAttempt, AttemptOver, LateStray, RecvEmpty
<1>3. CASE ReadOpenReply
  <2>1. ASSUME NEW t, NEW ok, SendCleanup(t, ok)
        PROVE  \/ net' = net
               \/ \E u : net' = net \cup {[kind |-> "close", token |-> u]}
    BY <2>1 DEF SendCleanup
  <2>2. ASSUME NEW m, RejectReply(m)
        PROVE  \E t, ok : SendCleanup(t, ok)
    BY <2>2 DEF RejectReply
  <2>3. ASSUME NEW m, ApplyPreparedOpen(m)
        PROVE  net' = net \/ \E t, ok : SendCleanup(t, ok)
    BY <2>3 DEF ApplyPreparedOpen
  <2>4. net' = net \/ \E t, ok : SendCleanup(t, ok)
    BY <1>3, <2>2, <2>3 DEF ReadOpenReply
  <2> QED BY <2>1, <2>4
<1>4. CASE OpenCall \/ Tick
  BY <1>4 DEF OpenCall, Tick
<1> QED BY <1>1, <1>2, <1>3, <1>4, <1>5, <1>6 DEF BlockingNext, AsyncNext

LEMMA NetStep ==
  ASSUME OpenInv, [Next]_vars
  PROVE  NetInv' /\ net \subseteq net'
<1> USE DEF OpenInv, NetInv
<1>1. CASE net' = net
  BY <1>1 DEF Issued
<1>2. ASSUME NEW m, m.kind # "reply", net' = net \cup {m}
      PROVE  NetInv' /\ net \subseteq net'
  <2>1. Issued' = Issued
    BY <1>2 DEF Issued
  <2> QED BY <1>2, <2>1
<1>3. CASE PeerOpens
  <2>1. Cardinality(Issued) \in Nat
    BY FS_CardinalityType
  <2>2. PICK n \in Nat, close \in BOOLEAN, params \in Returned :
          /\ net' = net \cup {Reply(n, close, params)}
          /\ close => n = 0
    <3>1. PICK params \in Returned : PeerOpens!(params)
      BY <1>3 DEF PeerOpens
    <3>2. CASE net' = net \cup {Reply(Cardinality(Issued) + 1, FALSE, params)}
      <4>1. Cardinality(Issued) + 1 \in Nat
        BY <2>1
      <4> QED BY <3>2, <4>1, Zenon
    <3>3. CASE net' = net \cup {Reply(0, TRUE, params)}
      <4>1. 0 \in Nat /\ TRUE \in BOOLEAN /\ (TRUE => 0 = 0)
        OBVIOUS
      <4> QED BY <3>3, <4>1, Zenon
    <3> QED BY <3>1, <3>2, <3>3
  <2>3. Issued' \subseteq Issued \cup {n}
    BY <2>2 DEF Issued, Reply
  <2>4. IsFiniteSet(Issued')
    BY <2>3, FS_AddElement, FS_Subset
  <2> QED BY <2>2, <2>4 DEF Reply
<1>4. CASE PeerCloses
  BY <1>2, <1>4 DEF PeerCloses
<1>5. CASE AsyncNext \/ BlockingNext \/ OpenCall \/ Tick
  BY <1>1, <1>2, <1>5, ClientSends
<1> QED BY <1>1, <1>3, <1>4, <1>5 DEF Next, vars

(***************************************************************************)
(* The wait                                                                 *)
(***************************************************************************)
LEMMA WaitStep ==
  ASSUME OpenInv, [Next]_vars
  PROVE  WaitInv'
<1> USE OpenAssumption DEF OpenInv, WaitInv, FreshReceive
<1>1. CASE rx' = rx
  BY <1>1
<1>2. CASE rx' = FreshReceive
  BY <1>2
<1>3. CASE Tick
  BY <1>3 DEF Tick
<1>4. CASE Interrupted
  <2>1. CASE RemainingTime > 0 /\ rx' = [rx EXCEPT !.kernel = RearmedTime]
    BY <2>1 DEF RemainingTime, RearmedTime
  <2> QED BY <1>2, <1>4, <2>1 DEF Interrupted, RecvReturns
<1>5. CASE AsyncNext
  BY <1>1, <1>5 DEF AsyncNext, AsyncOwnStep, StartAttempt, Submit, AttemptExpires,
      ReadStray, Cleanup, ReadMalformed, ReadReply, Abandon, Close, Receive
<1>6. CASE BeginAttempt \/ AttemptOver \/ LateStray \/ AttemptFails \/ ReadOpenReply \/ BlockingClose
  BY <1>1, <1>6 DEF BeginAttempt, AttemptOver, LateStray, AttemptFails, ReadOpenReply, BlockingClose
<1>7. CASE RecvEmpty \/ RecvCall \/ RecvDatagram
  BY <1>2, <1>7 DEF RecvEmpty, RecvReturns, RecvCall, RecvDatagram
<1>8. CASE OpenCall \/ PeerOpens \/ PeerCloses \/ UNCHANGED vars
  BY <1>1, <1>8 DEF OpenCall, PeerOpens, PeerCloses, vars
<1> QED BY <1>3, <1>4, <1>5, <1>6, <1>7, <1>8
        DEF Next, BlockingNext, BlockingOwnStep

(***************************************************************************)
(* The socket                                                               *)
(***************************************************************************)
(* A step that leaves the socket, the session and the failed settings alone.  *)
LEMMA SocketKept ==
  ASSUME OpenInv, UNCHANGED <<setup, machine, held, sock, applied, stale>>,
         phase' = phase \/ phase' = "opening" \/ setup.adapter = "async"
  PROVE  (ClassInv /\ TimeoutInv)'
BY DEF OpenInv, ClassInv, TimeoutInv, ClassMatchesSession, ReadTimeoutRestored

LEMMA AsyncSocket ==
  ASSUME OpenInv, AsyncNext
  PROVE  (ClassInv /\ TimeoutInv)'
<1> USE DEF session, history
<1>1. CASE AsyncOwnStep \/ ReadMalformed \/ Abandon
  BY <1>1, SocketKept DEF AsyncOwnStep, StartAttempt, Submit, AttemptExpires, ReadStray,
       Cleanup, ReadMalformed, Abandon, Opening, Waiting, IsAsync
<1>2. CASE ReadReply
  <2>1. PICK m \in ToClient : Waiting /\ ReadReply!(m)
    BY <1>2 DEF ReadReply
  <2>2. CASE UNCHANGED <<session, phase, sock, applied, stale>>
    BY <2>1, <2>2, SocketKept
  <2>3. CASE Accept(m)
    <3>1. PICK reserve, apply, restore \in BOOLEAN : Accept(m)!(reserve, apply, restore)
      BY <2>3 DEF Accept
    <3>2. /\ setup \in Setups /\ setup.adapter = "async" /\ sock.class = Clear /\ sock.timeout = "user"
          /\ machine = "connected" /\ held = NoSession /\ applied = Clear
          /\ sock \in [class : Classes, timeout : {"user", "open", "narrowed"}]
      BY <2>1, FreshTyped DEF OpenInv, ControlType, LifecycleInv, ClassInv, TimeoutInv,
           Waiting, Opening, IsAsync
    <3>3. CASE reserve /\ apply
      <4>1. /\ CommitOpen(m) /\ applied' = held'.class
            /\ sock' = IF setup.mode = "normal" THEN SetClass(sock, held'.class) ELSE sock
        BY <3>1, <3>3
      <4>2. sock'.class = held'.class /\ sock'.timeout = "user" /\ machine' # "connected"
        BY <3>2, <4>1, FreshTyped DEF CommitOpen, SetClass
      <4> QED BY <2>1, <4>1, <4>2
              DEF ClassInv, TimeoutInv, ClassMatchesSession, ReadTimeoutRestored
    <3>4. CASE ~(reserve /\ apply)
      <4>1. sock' = sock /\ UNCHANGED <<session, applied>>
        BY <3>1, <3>2, <3>4 DEF SetClass
      <4> QED BY <2>1, <3>2, <4>1, FreshTyped
              DEF ClassInv, TimeoutInv, ClassMatchesSession, ReadTimeoutRestored
    <3> QED BY <3>3, <3>4
  <2> QED BY <2>1, <2>2, <2>3
<1>3. CASE Close \/ Receive
  <2> USE FreshTyped DEF OpenInv, ControlType, ClassInv, TimeoutInv, ClassMatchesSession,
          ReadTimeoutRestored, SetClass, Judged, CommitClose
  <2>1. CASE Close
    <3>1. CASE UNCHANGED <<session, sock, applied, stale>>
      BY <1>3, <2>1, <3>1, SocketKept DEF Close
    <3>2. CASE CommitClose /\ sock' = SetClass(sock, Clear) /\ applied' = Clear
      BY <2>1, <3>2 DEF Close
    <3>3. ASSUME NEW tries, Rollback(tries), UNCHANGED <<session, applied>>
          PROVE  (ClassInv /\ TimeoutInv)'
      BY <2>1, <3>3 DEF Close, Rollback
    <3> QED BY <2>1, <3>1, <3>2, <3>3 DEF Close
  <2>2. CASE Receive
    BY <2>2 DEF Receive
  <2> QED BY <1>3, <2>1, <2>2
<1> QED BY <1>1, <1>2, <1>3 DEF AsyncNext

LEMMA BlockingSocket ==
  ASSUME OpenInv, BlockingNext
  PROVE  (ClassInv /\ TimeoutInv)'
<1> USE DEF session, history
<1>1. ASSUME NEW now \in [class : Classes, timeout : {"user", "open", "narrowed"}],
             NEW restore \in BOOLEAN, OpenFails(now, restore),
             now.class = sock.class, setup.adapter = "blocking",
             UNCHANGED <<setup, session, applied>>
      PROVE  (ClassInv /\ TimeoutInv)'
  BY <1>1 DEF OpenInv, OpenFails, Judged, ClassInv, TimeoutInv, ClassMatchesSession, ReadTimeoutRestored
<1>2. sock \in [class : Classes, timeout : {"user", "open", "narrowed"}]
  BY DEF OpenInv, ControlType
<1>3. CASE BeginAttempt
  <2>1. PICK set, send, restore \in BOOLEAN : BeginAttempt!(set, send, restore)
    BY <1>3 DEF BeginAttempt
  <2> DEFINE now == IF set THEN [sock EXCEPT !.timeout = "open"] ELSE sock
  <2>2. /\ now \in [class : Classes, timeout : {"user", "open", "narrowed"}]
        /\ now.class = sock.class
    BY <1>2
  <2>3. CASE sock' = now /\ UNCHANGED <<phase, stale>>
    <3> HIDE DEF now
    <3> QED BY <2>1, <2>2, <2>3 DEF InOpen, IsBlocking, OpenInv, ClassInv, TimeoutInv,
              ClassMatchesSession, ReadTimeoutRestored
  <2>4. CASE OpenFails(sock, restore)
    BY <1>1, <1>2, <2>1, <2>4 DEF InOpen, IsBlocking
  <2>5. CASE OpenFails(now, restore)
    BY <1>1, <2>1, <2>2, <2>5 DEF InOpen, IsBlocking
  <2> QED BY <2>1, <2>3, <2>4, <2>5
<1>4. CASE AttemptOver \/ LateStray
  BY <1>4, SocketKept DEF AttemptOver, LateStray
<1>5. CASE AttemptFails
  BY <1>1, <1>2, <1>5 DEF AttemptFails, InOpen, IsBlocking
<1>6. CASE ReadOpenReply
  <2>1. PICK m \in ToClient : InOpen /\ ReadOpenReply!(m)
    BY <1>6 DEF ReadOpenReply
  <2>2. CASE IsLate
    BY <2>1, <2>2, SocketKept
  <2>3. CASE RejectReply(m)
    BY <1>1, <1>2, <2>1, <2>3 DEF RejectReply, InOpen, IsBlocking
  <2>4. CASE m.kind = "reply" /\ ApplyPreparedOpen(m)
    <3>1. PICK reserve, apply, timeout, undo, cleanup, restore \in BOOLEAN :
            ApplyPreparedOpen(m)!(reserve, apply, timeout, undo, cleanup, restore)
      BY <2>4 DEF ApplyPreparedOpen
    <3>2. /\ setup \in Setups /\ setup.adapter = "blocking" /\ machine = "connected"
          /\ held = NoSession /\ applied = held.class
          /\ ClassOf(m.params) \in Classes
      BY <2>1, <2>4, ReplyFacts DEF OpenInv, ControlType, LifecycleInv, ClassInv, InOpen, IsBlocking
    <3> DEFINE marked == IF setup.mode = "normal" /\ reserve /\ apply
                         THEN SetClass(sock, ClassOf(m.params)) ELSE sock
               undone == IF setup.mode = "normal" /\ reserve /\ undo
                         THEN SetClass(marked, applied) ELSE marked
               judged == IF setup.mode = "normal" /\ reserve THEN Judged("class", undo)
                         ELSE stale
    <3>3. /\ marked \in [class : Classes, timeout : {"user", "open", "narrowed"}]
          /\ undone \in [class : Classes, timeout : {"user", "open", "narrowed"}]
          /\ setup.mode = "normal" /\ reserve /\ apply => marked.class = ClassOf(m.params)
          /\ setup.mode # "normal" => marked.class = sock.class
          /\ setup.mode = "normal" /\ reserve /\ undo => undone.class = applied
          /\ setup.mode # "normal" \/ ~reserve => undone.class = sock.class
          /\ "class" \in judged <=> IF setup.mode = "normal" /\ reserve THEN ~undo
                                    ELSE "class" \in stale
      BY <1>2, <3>2 DEF OpenInv, ControlType, SetClass, Judged
    <3>4. CASE reserve /\ apply /\ timeout
      <4>1. /\ CommitOpen(m) /\ OpenReturns /\ applied' = held'.class
            /\ sock' = [marked EXCEPT !.timeout = "user"] /\ stale' = judged \ {"timeout"}
        BY <3>1, <3>4
      <4>2. /\ sock'.class = marked.class /\ sock'.timeout = "user"
            /\ machine' # "connected" /\ setup.mode \in {"normal", "noTest"}
        BY <3>2, <3>3, <4>1 DEF CommitOpen, Setups
      <4>3. "class" \notin stale' => sock'.class = held'.class
        <5>1. CASE setup.mode = "normal"
          BY <3>3, <3>4, <4>1, <4>2, <5>1 DEF CommitOpen
        <5>2. CASE setup.mode # "normal"
          BY <3>2, <3>3, <4>1, <4>2, <5>2 DEF CommitOpen, OpenInv, ClassInv, ClassMatchesSession
        <5> QED BY <5>1, <5>2
      <4> QED BY <2>1, <3>2, <4>1, <4>2, <4>3
              DEF ClassInv, TimeoutInv, ClassMatchesSession, ReadTimeoutRestored
    <3>5. CASE ~(reserve /\ apply /\ timeout)
      <4>1. /\ UNCHANGED <<session, applied>>
            /\ sock' = IF restore THEN [undone EXCEPT !.timeout = "user"] ELSE undone
            /\ stale' = IF restore THEN judged \ {"timeout"} ELSE judged \cup {"timeout"}
        BY <3>1, <3>5
      <4>2. sock'.class = undone.class
        BY <3>3, <4>1
      <4>3. restore => sock'.timeout = "user"
        BY <3>3, <4>1
      <4>4. "class" \notin stale' => undone.class = held.class
        BY <3>2, <3>3, <4>1 DEF OpenInv, ClassInv, ClassMatchesSession
      <4>5. "timeout" \notin stale' => restore
        BY <4>1
      <4> HIDE DEF undone, marked, judged
      <4> QED BY <2>1, <3>2, <3>3, <4>1, <4>2, <4>3, <4>4, <4>5
              DEF ClassInv, TimeoutInv, ClassMatchesSession, ReadTimeoutRestored
    <3> QED BY <3>4, <3>5
  <2> QED BY <2>1, <2>2, <2>3, <2>4
<1>7. CASE BlockingClose
  BY <1>7, FreshTyped DEF BlockingClose, IsBlocking, OpenInv, ControlType, ClassInv, TimeoutInv,
       ClassMatchesSession, ReadTimeoutRestored, SetClass, Judged, CommitClose
<1>8. CASE RecvCall
  BY <1>2, <1>8 DEF RecvCall, IsBlocking, OpenInv, ClassInv, TimeoutInv, ClassMatchesSession,
       ReadTimeoutRestored
<1>9. CASE Interrupted \/ RecvEmpty
  BY <1>2, <1>9 DEF Interrupted, RecvEmpty, RecvReturns, IsBlocking, OpenInv, ClassInv,
       TimeoutInv, ClassMatchesSession, ReadTimeoutRestored
<1>10. CASE RecvDatagram
  BY <1>2, <1>10, FreshTyped DEF RecvDatagram, CommitClose, Judged, IsBlocking, OpenInv, ClassInv,
       TimeoutInv, ClassMatchesSession, ReadTimeoutRestored
<1> QED BY <1>3, <1>4, <1>5, <1>6, <1>7, <1>8, <1>9, <1>10
        DEF BlockingNext, BlockingOwnStep

(***************************************************************************)
(* The tokens                                                               *)
(***************************************************************************)
ClosedOnNet(t) == \E m \in net : m.kind \in {"close", "peerClose"} /\ m.token = t

Accounted(t) == t \in {held.token, tx.cleanup} \cup lapsed \/ ClosedOnNet(t)

(* A step may drop the token of the session or of the retained close packet   *)
(* only when it accounts for it, and learn one only then.                     *)
LEMMA TokensAccounted ==
  ASSUME OpenInv, net \subseteq net', lapsed \subseteq lapsed',
         NEW fresh, learned' \subseteq learned \cup {fresh}, fresh \in Nat,
         fresh # 0 => Accounted(fresh)',
         \A t \in Nat \ {0} : t = held.token => Accounted(t)',
         \A t \in Nat \ {0} : t = tx.cleanup => Accounted(t)'
  PROVE  TokenInv'
<1>1. learned' \subseteq Nat
  BY DEF OpenInv, TokenInv
<1>2. ASSUME NEW t \in learned \ {0} PROVE Accounted(t)'
  <2>1. t \in Nat /\ Accounted(t)
    BY <1>2 DEF OpenInv, TokenInv, NoSessionForgotten, Accounted, ClosedOnNet
  <2>2. CASE t = held.token
    BY <1>2, <2>1, <2>2
  <2>3. CASE t = tx.cleanup
    BY <1>2, <2>1, <2>3
  <2>4. CASE t \in lapsed
    BY <2>4 DEF Accounted
  <2>5. CASE ClosedOnNet(t)
    BY <2>5 DEF ClosedOnNet, Accounted
  <2> QED BY <2>1, <2>2, <2>3, <2>4, <2>5 DEF Accounted
<1>3. \A t \in learned' \ {0} : Accounted(t)'
  BY <1>2
<1> QED BY <1>1, <1>3 DEF TokenInv, NoSessionForgotten, Accounted, ClosedOnNet

(* Most steps leave both tokens where they are, or have none to lose.         *)
LEMMA TokensKept ==
  ASSUME OpenInv, net \subseteq net', learned' = learned, lapsed' = lapsed, held' = held,
         tx'.cleanup = tx.cleanup \/ tx.cleanup = NoCleanup
  PROVE  TokenInv'
<1>1. \A t \in Nat \ {0} : t = held.token => Accounted(t)'
  BY DEF Accounted
<1>2. \A t \in Nat \ {0} : t = tx.cleanup => Accounted(t)'
  BY DEF Accounted, NoCleanup
<1> QED BY <1>1, <1>2, TokensAccounted, 0 \in Nat

(* A close packet that is sent accounts for its token.                        *)
LEMMA CloseAccounts ==
  ASSUME NEW t \in Nat \ {0}, ClosePacket(t) \subseteq net'
  PROVE  Accounted(t)'
BY DEF ClosePacket, Accounted, ClosedOnNet

LEMMA AsyncTokens ==
  ASSUME OpenInv, AsyncNext, net \subseteq net'
  PROVE  TokenInv'
<1> USE DEF session, history
<1>t. /\ tx \in Transaction /\ NextAttempt.cleanup = tx.cleanup
      /\ held \in [token : Nat, class : Classes]
  BY NextAttemptTyped DEF OpenInv, ControlType
<1>1. CASE StartAttempt
  BY <1>1, <1>t, TokensKept DEF StartAttempt
<1>2. CASE Submit
  BY <1>2, <1>t, TokensKept DEF Submit
<1>3. CASE AttemptExpires \/ ReadStray \/ ReadMalformed
  BY <1>3, <1>t, TokensKept DEF AttemptExpires, ReadStray, ReadMalformed, Waiting
<1>4. CASE ReadReply
  <2>1. PICK m \in ToClient : Waiting /\ ReadReply!(m)
    BY <1>4 DEF ReadReply
  <2>2. tx.cleanup = NoCleanup /\ held = NoSession
    BY <2>1 DEF Waiting, Opening, OpenInv, LifecycleInv
  <2>3. tx.cleanup \notin Nat /\ held.token = 0
    BY <2>2, FreshTyped DEF NoCleanup
  <2>4. CASE IsLate
    BY <2>1, <2>2, <2>4, TokensKept
  <2>5. CASE m.kind = "reply" /\ learned' = learned \cup {m.token}
             /\ (tx' = [tx EXCEPT !.cleanup = CleanupClose(m)] \/ (Accept(m) /\ Acceptable(m)))
    <3>1. m.token \in Nat /\ CleanupClose(m) = m.token
      BY <2>5, ReplyFacts DEF OpenInv
    <3>2. CASE tx' = [tx EXCEPT !.cleanup = m.token]
      <4>1. Accounted(m.token)'
        BY <1>t, <3>2 DEF Accounted, Transaction
      <4> QED BY <2>1, <2>3, <2>5, <3>1, <4>1, TokensAccounted
    <3>3. CASE CommitOpen(m) /\ Acceptable(m)
      <4>1. m.token # 0 => held'.token = m.token
        BY <2>5, <3>3, AcceptedFacts DEF CommitOpen, OpenInv
      <4>2. m.token # 0 => Accounted(m.token)'
        BY <4>1 DEF Accounted
      <4> QED BY <2>1, <2>3, <2>5, <3>1, <4>2, TokensAccounted
    <3>4. CASE Accept(m) /\ Acceptable(m)
      BY <3>2, <3>3, <3>4 DEF Accept
    <3> QED BY <2>5, <3>1, <3>2, <3>4
  <2> QED BY <2>1, <2>4, <2>5
<1>5. CASE Cleanup \/ Abandon
  <2>1. \A t \in Nat \ {0} : t = tx.cleanup => Accounted(t)'
    <3> SUFFICES ASSUME NEW t \in Nat \ {0}, t = tx.cleanup PROVE Accounted(t)'
      OBVIOUS
    <3>1. CASE t \in lapsed'
      BY <3>1 DEF Accounted
    <3>2. CASE ClosePacket(t) \subseteq net'
      BY <3>2, CloseAccounts
    <3> QED BY <1>5, <3>1, <3>2 DEF Cleanup, Abandon, NoCleanup
  <2>2. \A t \in Nat \ {0} : t = held.token => Accounted(t)'
    BY <1>5 DEF Cleanup, Abandon, Accounted
  <2> QED BY <1>5, <2>1, <2>2, TokensAccounted, 0 \in Nat DEF Cleanup, Abandon
<1>6. CASE Close \/ Receive
  <2>1. tx.cleanup = NoCleanup
    BY <1>6 DEF Close, Receive, OpenInv, LifecycleInv
  <2>2. \A t \in Nat \ {0} : t = held.token => Accounted(t)'
    <3>1. CASE held' = held
      BY <3>1 DEF Accounted
    <3>2. CASE net' = net \cup ClosePacket(held.token)
      BY <3>2, CloseAccounts
    <3>3. CASE Receive
      BY <3>3 DEF Receive, ToClient, PeerClosed, Accounted, ClosedOnNet
    <3> QED BY <1>6, <3>1, <3>2, <3>3 DEF Close
  <2>3. tx.cleanup \notin Nat
    BY <2>1 DEF NoCleanup
  <2>4. learned' = learned /\ lapsed' = lapsed
    BY <1>6 DEF Close, Receive
  <2> QED BY <2>2, <2>3, <2>4, TokensAccounted, 0 \in Nat
<1> QED BY <1>1, <1>2, <1>3, <1>4, <1>5, <1>6 DEF AsyncNext, AsyncOwnStep

LEMMA BlockingTokens ==
  ASSUME OpenInv, BlockingNext, net \subseteq net'
  PROVE  TokenInv'
<1> USE DEF session, history
<1>t. /\ tx \in Transaction /\ NextAttempt.cleanup = tx.cleanup
      /\ held \in [token : Nat, class : Classes]
  BY NextAttemptTyped DEF OpenInv, ControlType
<1>c. tx.cleanup = NoCleanup
  BY DEF BlockingNext, BlockingOwnStep, BeginAttempt, AttemptOver, LateStray, RecvEmpty,
     AttemptFails, ReadOpenReply, BlockingClose, RecvCall, Interrupted, RecvDatagram,
     InOpen, IsBlocking, OpenInv, LifecycleInv
<1>1. CASE BeginAttempt \/ AttemptOver \/ LateStray \/ RecvEmpty \/ AttemptFails
           \/ RecvCall \/ Interrupted
  BY <1>1, <1>c, TokensKept DEF BeginAttempt, AttemptOver, LateStray, RecvEmpty,
     AttemptFails, RecvCall, Interrupted
<1>2. CASE ReadOpenReply
  <2>1. PICK m \in ToClient : InOpen /\ ReadOpenReply!(m)
    BY <1>2 DEF ReadOpenReply
  <2>2. held.token = 0 /\ tx.cleanup \notin Nat
    BY <1>c, <2>1, FreshTyped DEF InOpen, OpenInv, LifecycleInv, NoCleanup
  <2>3. CASE IsLate
    BY <1>c, <2>1, <2>3, TokensKept
  <2>4. CASE m.kind = "reply" /\ learned' = learned \cup {m.token}
             /\ (RejectReply(m) \/ (Acceptable(m) /\ ApplyPreparedOpen(m)))
    <3>1. m.token \in Nat /\ CleanupClose(m) = m.token
      BY <2>4, ReplyFacts DEF OpenInv
    <3>2. ASSUME NEW ok \in BOOLEAN, SendCleanup(m.token, ok)
          PROVE  lapsed \subseteq lapsed' /\ (m.token # 0 => Accounted(m.token)')
      <4>1. CASE ok
        BY <3>1, <3>2, <4>1, CloseAccounts DEF SendCleanup
      <4>2. CASE ~ok
        BY <3>2, <4>2 DEF SendCleanup, Accounted
      <4> QED BY <4>1, <4>2
    <3>3. CASE \E ok \in BOOLEAN : SendCleanup(m.token, ok)
      BY <2>2, <2>4, <3>1, <3>2, <3>3, TokensAccounted
    <3>4. CASE CommitOpen(m) /\ Acceptable(m) /\ lapsed' = lapsed
      <4>1. m.token # 0 => held'.token = m.token
        BY <2>4, <3>4, AcceptedFacts DEF CommitOpen, OpenInv
      <4>2. m.token # 0 => Accounted(m.token)'
        BY <4>1 DEF Accounted
      <4> QED BY <2>2, <2>4, <3>1, <3>4, <4>2, TokensAccounted
    <3>5. CASE RejectReply(m)
      BY <3>1, <3>3, <3>5 DEF RejectReply
    <3>6. CASE Acceptable(m) /\ ApplyPreparedOpen(m)
      BY <3>3, <3>4, <3>6 DEF ApplyPreparedOpen
    <3> QED BY <2>4, <3>5, <3>6
  <2> QED BY <2>1, <2>3, <2>4
<1>3. CASE BlockingClose \/ RecvDatagram
  <2>1. \A t \in Nat \ {0} : t = held.token => Accounted(t)'
    <3>1. CASE held' = held
      BY <3>1 DEF Accounted
    <3>2. CASE net' = net \cup ClosePacket(held.token)
      BY <3>2, CloseAccounts
    <3>3. CASE \E m \in ToClient : PeerClosed(m) /\ net' = net
      BY <3>3 DEF ToClient, PeerClosed, Accounted, ClosedOnNet
    <3>4. CASE BlockingClose
      BY <3>1, <3>2, <3>4 DEF BlockingClose
    <3>5. CASE RecvDatagram
      BY <3>1, <3>3, <3>5 DEF RecvDatagram
    <3> QED BY <1>3, <3>4, <3>5
  <2>2. tx.cleanup \notin Nat
    BY <1>c DEF NoCleanup
  <2>3. learned' = learned /\ lapsed' = lapsed
    BY <1>3 DEF BlockingClose, RecvDatagram
  <2> QED BY <2>1, <2>2, <2>3, TokensAccounted, 0 \in Nat
<1> QED BY <1>1, <1>2, <1>3 DEF BlockingNext, BlockingOwnStep

(***************************************************************************)
(* The theorems                                                             *)
(***************************************************************************)
LEMMA OpenStep == OpenInv /\ [Next]_vars => OpenInv'
<1> SUFFICES ASSUME OpenInv, [Next]_vars PROVE OpenInv'
  OBVIOUS
<1>1. NetInv' /\ net \subseteq net' /\ WaitInv'
  BY NetStep, WaitStep
<1>2. CASE AsyncNext
  BY <1>1, <1>2, AsyncControl, AsyncSocket, AsyncTokens DEF OpenInv
<1>3. CASE BlockingNext
  BY <1>1, <1>3, BlockingControl, BlockingSocket, BlockingTokens DEF OpenInv
<1>4. CASE OpenCall \/ Tick \/ PeerOpens \/ PeerCloses \/ UNCHANGED vars
  <2>1. (ControlType /\ LifecycleInv)'
    BY <1>4, CommonControl
  <2>2. (ClassInv /\ TimeoutInv)'
    BY <1>4, SocketKept DEF OpenCall, Tick, PeerOpens, PeerCloses, vars, session, history
  <2>3. tx'.cleanup = tx.cleanup \/ tx.cleanup = NoCleanup
    BY <1>4 DEF OpenCall, Tick, PeerOpens, PeerCloses, vars, OpenInv, ControlType, Transaction,
         LifecycleInv
  <2>4. TokenInv'
    BY <1>1, <1>4, <2>3, TokensKept
       DEF OpenCall, Tick, PeerOpens, PeerCloses, vars, session, history
  <2> QED BY <1>1, <2>1, <2>2, <2>4 DEF OpenInv
<1> QED BY <1>2, <1>3, <1>4 DEF Next

(* The inductive invariant of opening, receiving and closing, for both        *)
(* adapters (Client, AsyncClient): it holds in every state, whatever the      *)
(* network does and whichever socket calls fail.                               *)
THEOREM OpenInvariant == Spec => []OpenInv
BY OpenInitially, OpenStep, PTL DEF Spec

(* Wherever a call suspends, fails or is abandoned, the socket carries the    *)
(* class of the open session, and between calls the user's read timeout,      *)
(* unless the restoring call failed itself; EINTR never extends a receive     *)
(* (AsyncClient::close, Client::set_recv_timeout,                              *)
(* Client::recv_datagram_retrying_interrupted).                                *)
THEOREM SocketAlwaysAsPromised == Spec => []SocketContract
<1>1. OpenInv => SocketContract
  BY OpenAssumption DEF OpenInv, SocketContract, ClassInv, TimeoutInv, WaitInv, InterruptsNeverExtend
<1> QED BY <1>1, OpenInvariant, PTL

(* A session the client was ever given is held, about to be closed, closed by *)
(* either side, or its close was refused or given up (Client::open,           *)
(* AsyncClient::cancel_open).                                                  *)
THEOREM SessionsNeverForgotten == Spec => []NoSessionForgotten
<1>1. OpenInv => NoSessionForgotten
  BY DEF OpenInv, TokenInv
<1> QED BY <1>1, OpenInvariant, PTL
=============================================================================
