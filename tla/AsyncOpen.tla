------------------------------ MODULE AsyncOpen ------------------------------
(* The Tokio adapter of irtt-rs (irtt-client: async_client.rs): opening and   *)
(* closing a session.  One step is one iteration of the loop of poll_open or  *)
(* poll_close; the future may be dropped between any two.                     *)
EXTENDS OpenPeer

IsAsync == setup.adapter = "async"
Opening == IsAsync /\ phase = "opening"

(* start_attempt, or OpenTimeout once the attempts are used up.               *)
StartAttempt ==
  /\ Opening /\ tx.cleanup = NoCleanup /\ tx.left = NoDeadline
  /\ \/ /\ tx.attempt < Attempts
        /\ tx' = [tx EXCEPT !.left = OpenTimeout, !.submitted = FALSE]
        /\ UNCHANGED phase
     \/ /\ tx.attempt = Attempts
        /\ OpenReturns
  /\ UNCHANGED <<setup, session, rx, sock, applied, opens, net, faults, history, stale>>

(* try_send accepts the request, fails for good, or would block until the     *)
(* attempt is over.                                                            *)
Submit ==
  /\ Opening /\ tx.cleanup = NoCleanup /\ tx.left # NoDeadline /\ ~tx.submitted
  /\ \/ /\ tx' = [tx EXCEPT !.submitted = TRUE]
        /\ net' = net \cup {[kind |-> "open"]}
        /\ UNCHANGED <<phase, faults>>
     \/ /\ Outcome(<<FALSE>>)
        /\ OpenReturns
        /\ UNCHANGED net
     \/ /\ TimerDue
        /\ tx' = NextAttempt
        /\ UNCHANGED <<phase, net, faults>>
  /\ UNCHANGED <<setup, session, rx, sock, applied, opens, history, stale>>

Waiting == Opening /\ tx.cleanup = NoCleanup /\ tx.submitted

(* Nothing to read, and the attempt's timer is ready.                         *)
AttemptExpires ==
  /\ Waiting /\ ~setup.flooded /\ TimerDue
  /\ tx' = NextAttempt
  /\ UNCHANGED <<setup, session, phase, rx, sock, applied, opens, net, faults, history, stale>>

ReadStray ==
  /\ Waiting /\ setup.flooded
  /\ \/ IsLate /\ tx' = NextAttempt /\ UNCHANGED phase
     \/ ~IsLate /\ UNCHANGED <<tx, phase>>
  /\ UNCHANGED <<setup, session, rx, sock, applied, opens, net, faults, history, stale>>

(* A datagram that is recognizably a malformed open reply ends the open.      *)
ReadMalformed ==
  /\ Waiting /\ setup.flooded /\ ~IsLate
  /\ OpenReturns
  /\ UNCHANGED <<setup, session, rx, sock, applied, opens, net, faults, history, stale>>

(* prepare_async_open and commit_async_open: everything that can fail comes   *)
(* first; a failure keeps the close packet for cleanup.                       *)
Accept(reply) ==
  \E reserve, apply, restore \in BOOLEAN :
    /\ setup.mode = "noTest" => reserve /\ apply
    /\ ~reserve => apply
    /\ apply => restore
    /\ Outcome(<<reserve, apply, restore>>)
    /\ \/ /\ reserve /\ apply
          /\ CommitOpen(reply)
          /\ OpenReturns
          /\ applied' = held'.class
          /\ sock' = IF setup.mode = "normal" THEN SetClass(sock, held'.class) ELSE sock
       \/ /\ ~(reserve /\ apply)
          /\ tx' = [tx EXCEPT !.cleanup = reply.token]
          /\ sock' = IF ~apply /\ restore THEN SetClass(sock, applied) ELSE sock
          /\ UNCHANGED <<session, phase, applied>>
    /\ stale' = Judged("class", restore)

(* A datagram read after the deadline ends the attempt unseen; a peer close   *)
(* is no open reply and is ignored like any stray.                            *)
ReadReply ==
  \E m \in ToClient :
    /\ Waiting
    /\ \/ /\ IsLate
          /\ tx' = NextAttempt
          /\ UNCHANGED <<session, phase, sock, applied, faults, learned, stale>>
       \/ /\ ~IsLate /\ m.kind = "reply" /\ ~Acceptable(m)
          /\ tx' = [tx EXCEPT !.cleanup = CleanupClose(m)]
          /\ learned' = learned \cup {m.token}
          /\ UNCHANGED <<session, phase, sock, applied, faults, stale>>
       \/ /\ ~IsLate /\ m.kind = "reply" /\ Acceptable(m)
          /\ Accept(m)
          /\ learned' = learned \cup {m.token}
    /\ UNCHANGED <<setup, rx, opens, net, lapsed>>

(* poll_open_cleanup: the primary error is returned once the close packet is  *)
(* sent, refused, or still unsent when the attempt's timer is ready.          *)
Cleanup ==
  /\ Opening /\ tx.cleanup # NoCleanup
  /\ OpenReturns
  /\ \/ /\ net' = net \cup ClosePacket(tx.cleanup)
        /\ UNCHANGED <<faults, lapsed>>
     \/ /\ tx.cleanup # 0
        /\ \/ Outcome(<<FALSE>>)
           \/ TimerDue /\ UNCHANGED faults
        /\ lapsed' = lapsed \cup {tx.cleanup}
        /\ UNCHANGED net
  /\ UNCHANGED <<setup, session, rx, sock, applied, opens, learned, stale>>

(* The future is dropped, or the managed driver cancels the opening with one  *)
(* try_send of a retained close packet.                                        *)
Abandon ==
  /\ Opening
  /\ OpenReturns
  /\ \/ net' = net \cup ClosePacket(tx.cleanup) /\ tx.cleanup > 0 /\ UNCHANGED lapsed
     \/ UNCHANGED net /\ lapsed' = lapsed \cup ({tx.cleanup} \ {NoCleanup})
  /\ UNCHANGED <<setup, session, rx, sock, applied, opens, faults, learned, stale>>

(* Mutant: a send that would block leaves the class cleared.                   *)
ForgetsRollback(tries) ==
  /\ sock' = SetClass(sock, Clear)
  /\ stale' = stale

(* DscpRollback: a failed restore is tried once more when the guard is        *)
(* dropped.                                                                    *)
Rollback(tries) ==
  LET restored == \E i \in DOMAIN tries : tries[i] IN
  /\ sock' = SetClass(sock, IF restored THEN applied ELSE Clear)
  /\ stale' = Judged("class", restored)

(* poll_close after write readiness: the class is cleared only for the send.  *)
Close ==
  /\ IsAsync /\ phase = "idle" /\ machine = "open"
  /\ \/ /\ Outcome(<<FALSE>>)                              \* clearing fails
        /\ UNCHANGED <<session, sock, applied, net, stale>>
     \/ /\ CommitClose                                      \* sent
        /\ net' = net \cup ClosePacket(held.token)
        /\ sock' = SetClass(sock, Clear) /\ applied' = Clear
        /\ stale' = Judged("class", TRUE)
        /\ UNCHANGED faults
     \/ /\ \E first, again \in BOOLEAN :                    \* would block
             /\ first => again
             /\ Outcome(<<first, again>>) /\ Rollback(<<first, again>>)
        /\ UNCHANGED <<session, applied, net>>
     \/ /\ \E restore \in BOOLEAN :                         \* refused
             Outcome(<<FALSE, restore>>) /\ Rollback(<<restore>>)
        /\ UNCHANGED <<session, applied, net>>
  /\ UNCHANGED <<setup, phase, tx, rx, opens, history>>

(* poll_recv of an open session: only the peer's close matters here.          *)
Receive ==
  \E m \in ToClient, cleared \in BOOLEAN :
    /\ IsAsync /\ phase = "idle" /\ machine = "open" /\ PeerClosed(m)
    /\ Outcome(<<cleared>>)
    /\ CommitClose
    /\ IF cleared THEN sock' = SetClass(sock, Clear) /\ applied' = Clear
       ELSE UNCHANGED <<sock, applied>>
    /\ stale' = Judged("class", cleared)
    /\ UNCHANGED <<setup, phase, tx, rx, opens, net, history>>

(* The steps a polled open takes whatever the peer does.                      *)
AsyncOwnStep == StartAttempt \/ Submit \/ AttemptExpires \/ ReadStray \/ Cleanup

AsyncNext == AsyncOwnStep \/ ReadMalformed \/ ReadReply \/ Abandon \/ Close \/ Receive
=============================================================================
