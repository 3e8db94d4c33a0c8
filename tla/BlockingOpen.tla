---------------------------- MODULE BlockingOpen ----------------------------
(* The runtime-free adapter of irtt-rs (irtt-client: client.rs): opening,     *)
(* receiving and closing with blocking socket calls under the socket's read   *)
(* timeout.  A step ends where the next blocking call is made.                *)
EXTENDS OpenPeer

IsBlocking == setup.adapter = "blocking"
InOpen == IsBlocking /\ phase = "opening"

(* Mutant: a failed open keeps the attempt's read timeout.                     *)
FailsAsIs(now, restore) == OpenReturns /\ sock' = now /\ UNCHANGED stale

(* open returns an error: the read timeout is restored, best effort.          *)
OpenFails(now, restore) ==
  /\ OpenReturns
  /\ sock' = IF restore THEN [now EXCEPT !.timeout = "user"] ELSE now
  /\ stale' = Judged("timeout", restore)

(* The next attempt's request, or OpenTimeout after the last one.             *)
BeginAttempt ==
  \E set, send, restore \in BOOLEAN :
    LET now == IF set THEN [sock EXCEPT !.timeout = "open"] ELSE sock
        last == tx.attempt = Attempts
    IN  /\ InOpen /\ tx.left = NoDeadline
        /\ last => set /\ send
        /\ ~set => send
        /\ set /\ send /\ ~last => restore
        /\ Outcome(<<set, send, restore>>)
        /\ \/ /\ set /\ send /\ ~last
              /\ tx' = [tx EXCEPT !.left = OpenTimeout, !.submitted = TRUE]
              /\ net' = net \cup {[kind |-> "open"]}
              /\ sock' = now
              /\ UNCHANGED <<phase, stale>>
           \/ /\ last
              /\ OpenFails(sock, restore) /\ UNCHANGED net
           \/ /\ ~(set /\ send)
              /\ OpenFails(now, restore) /\ UNCHANGED net
        /\ UNCHANGED <<setup, session, rx, applied, opens, history>>

(* The deadline is found passed before the next receive or after it timed     *)
(* out; an interrupted receive comes back here as well.                        *)
AttemptOver ==
  /\ InOpen /\ tx.submitted /\ TimerDue
  /\ tx' = NextAttempt
  /\ UNCHANGED <<setup, session, phase, rx, sock, applied, opens, net, faults, history, stale>>

(* Setting the remaining time or the receive itself fails, or a malformed     *)
(* open reply is recognised.                                                   *)
AttemptFails ==
  \E received, restore \in BOOLEAN :
    /\ InOpen /\ tx.submitted /\ ~IsLate
    /\ received => setup.flooded
    /\ Outcome(<<received, restore>>)
    /\ OpenFails(sock, restore)
    /\ UNCHANGED <<setup, session, rx, applied, opens, net, history>>

LateStray ==
  /\ InOpen /\ tx.submitted /\ setup.flooded /\ IsLate
  /\ tx' = NextAttempt
  /\ UNCHANGED <<setup, session, phase, rx, sock, applied, opens, net, faults, history, stale>>

(* A best-effort cleanup close.                                                *)
SendCleanup(token, ok) ==
  /\ net' = IF ok THEN net \cup ClosePacket(token) ELSE net
  /\ lapsed' = IF ok THEN lapsed ELSE lapsed \cup {token}

RejectReply(reply) ==
  \E cleanup, restore \in BOOLEAN :
    /\ CleanupClose(reply) = 0 => cleanup
    /\ Outcome(<<cleanup, restore>>)
    /\ SendCleanup(CleanupClose(reply), cleanup)
    /\ OpenFails(sock, restore)
    /\ UNCHANGED <<session, applied>>

(* prepare_client_open and apply_prepared_open: the buffer grows, the class   *)
(* is applied and the read timeout restored before the machine commits; what  *)
(* was done is undone when a later call fails.                                *)
ApplyPreparedOpen(reply) ==
  \E reserve, apply, timeout, undo, cleanup, restore \in BOOLEAN :
    LET normal == setup.mode = "normal"
        done == reserve /\ apply /\ timeout
        marked == IF normal /\ reserve /\ apply
                  THEN SetClass(sock, ClassOf(reply.params)) ELSE sock
        undone == IF normal /\ reserve /\ undo THEN SetClass(marked, applied) ELSE marked
        judged == IF normal /\ reserve THEN Judged("class", undo) ELSE stale
    IN  /\ ~normal => reserve /\ apply /\ undo /\ cleanup
        /\ ~reserve => apply /\ timeout /\ undo
        /\ ~apply => timeout
        /\ done => undo /\ cleanup /\ restore
        /\ Outcome(<<reserve, apply, timeout, undo, cleanup, restore>>)
        /\ \/ /\ done
              /\ CommitOpen(reply) /\ OpenReturns
              /\ applied' = held'.class
              /\ sock' = [marked EXCEPT !.timeout = "user"]
              /\ stale' = judged \ {"timeout"}
              /\ UNCHANGED <<net, lapsed>>
           \/ /\ ~done
              /\ SendCleanup(reply.token, cleanup)
              /\ OpenReturns
              /\ sock' = IF restore THEN [undone EXCEPT !.timeout = "user"] ELSE undone
              /\ stale' = IF restore THEN judged \ {"timeout"} ELSE judged \cup {"timeout"}
              /\ UNCHANGED <<session, applied>>

ReadOpenReply ==
  \E m \in ToClient :
    /\ InOpen /\ tx.submitted
    /\ \/ /\ IsLate
          /\ tx' = NextAttempt
          /\ UNCHANGED <<session, phase, sock, applied, net, faults, history, stale>>
       \/ /\ ~IsLate /\ m.kind = "reply"
          /\ learned' = learned \cup {m.token}
          /\ \/ ~Acceptable(m) /\ RejectReply(m)
             \/ Acceptable(m) /\ ApplyPreparedOpen(m)
    /\ UNCHANGED <<setup, rx, opens>>

(* Client::close: a refused send restores the class, best effort.             *)
BlockingClose ==
  /\ IsBlocking /\ phase = "idle" /\ machine = "open"
  /\ \/ /\ Outcome(<<FALSE>>)                              \* clearing fails
        /\ UNCHANGED <<session, sock, applied, net, stale>>
     \/ /\ CommitClose                                      \* sent
        /\ net' = net \cup ClosePacket(held.token)
        /\ sock' = SetClass(sock, Clear) /\ applied' = Clear
        /\ stale' = Judged("class", TRUE)
        /\ UNCHANGED faults
     \/ /\ \E restore \in BOOLEAN :                         \* refused
             /\ Outcome(<<FALSE, restore>>)
             /\ sock' = SetClass(sock, IF restore THEN applied ELSE Clear)
             /\ stale' = Judged("class", restore)
        /\ UNCHANGED <<session, applied, net>>
  /\ UNCHANGED <<setup, phase, tx, rx, opens, history>>

(***************************************************************************)
(* recv_once, and each turn of recv_available                               *)
(***************************************************************************)
RecvCall ==
  \E set \in BOOLEAN :
    /\ IsBlocking /\ phase = "idle" /\ machine = "open"
    /\ Outcome(<<set>>)
    /\ phase' = IF set THEN "receiving" ELSE "idle"
    /\ rx' = FreshReceive
    /\ sock' = IF set THEN [sock EXCEPT !.timeout = "user"] ELSE sock
    /\ stale' = IF set THEN stale \ {"timeout"} ELSE stale
    /\ UNCHANGED <<setup, session, tx, applied, opens, net, history>>

RemainingTime == RecvTimeout - rx.elapsed

(* Mutant: every retry starts the configured timeout again.                    *)
RearmedInFull == RecvTimeout

(* The timeout set for a retry after EINTR.                                   *)
RearmedTime == RemainingTime

(* The receive is over: a narrowed read timeout is restored first, and its    *)
(* failure replaces the result.                                                *)
RecvReturns(now, restore) ==
  /\ phase' = "idle" /\ rx' = FreshReceive
  /\ now.timeout # "narrowed" => restore
  /\ sock' = IF restore THEN [now EXCEPT !.timeout = "user"] ELSE now
  /\ stale' = IF restore THEN stale ELSE stale \cup {"timeout"}

Interrupted ==
  \E set, restore \in BOOLEAN :
    /\ IsBlocking /\ phase = "receiving"
    /\ RemainingTime <= 0 => set
    /\ Outcome(<<set, restore>>)
    /\ \/ /\ RemainingTime > 0 /\ set /\ restore
          /\ rx' = [rx EXCEPT !.kernel = RearmedTime]
          /\ sock' = [sock EXCEPT !.timeout = "narrowed"]
          /\ UNCHANGED <<phase, stale>>
       \/ /\ RemainingTime <= 0 \/ ~set
          /\ RecvReturns(sock, restore)
    /\ UNCHANGED <<setup, session, tx, applied, opens, net, history>>

(* The kernel's timer expires, or the receive fails.                          *)
RecvEmpty ==
  \E received, restore \in BOOLEAN :
    /\ IsBlocking /\ phase = "receiving"
    /\ received => rx.kernel = 0
    /\ Outcome(<<received, restore>>)
    /\ RecvReturns(sock, restore)
    /\ UNCHANGED <<setup, session, tx, applied, opens, net, history>>

RecvDatagram ==
  \E m \in ToClient, restore, cleared \in BOOLEAN :
    LET closes == restore /\ PeerClosed(m) IN
    /\ IsBlocking /\ phase = "receiving"
    /\ ~closes => cleared
    /\ sock.timeout # "narrowed" => restore
    /\ Outcome(<<restore, cleared>>)
    /\ phase' = "idle" /\ rx' = FreshReceive
    /\ IF closes THEN CommitClose ELSE UNCHANGED <<session>>
    /\ applied' = IF closes /\ cleared THEN Clear ELSE applied
    /\ sock' = [class |-> IF closes /\ cleared THEN Clear ELSE sock.class,
                timeout |-> IF restore THEN "user" ELSE sock.timeout]
    /\ stale' = (IF closes THEN Judged("class", cleared) ELSE stale)
                \cup (IF restore THEN {} ELSE {"timeout"})
    /\ UNCHANGED <<setup, tx, opens, net, history>>

(* The steps a call takes whatever the peer does.                             *)
BlockingOwnStep == BeginAttempt \/ AttemptOver \/ LateStray \/ RecvEmpty

BlockingNext ==
  \/ BlockingOwnStep \/ AttemptFails \/ ReadOpenReply \/ BlockingClose
  \/ RecvCall \/ Interrupted \/ RecvDatagram
=============================================================================
