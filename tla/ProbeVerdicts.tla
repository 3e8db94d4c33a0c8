---------------------------- MODULE ProbeVerdicts ----------------------------
(* What an irtt-rs client session promises the consumer of its event stream   *)
(* about each probe it sent: the verdict events (EchoReply, LateReply,        *)
(* EchoLoss) of a probe are at most one answer and at most one loss, and a    *)
(* loss is never announced for a probe already answered.  The statistics      *)
(* crate adds these events up without remembering individual probes, so it    *)
(* depends on exactly this.                                                    *)
EXTENDS Naturals, Sequences

CONSTANT Probes          \* probe identities 0, 1, ... in sending order

VARIABLES
  sent,                  \* number of probes sent
  verdicts,              \* verdicts[u]: the verdict events emitted for probe u
  ended                  \* the session is closed

avars == <<sent, verdicts, ended>>

VInit ==
  /\ sent = 0
  /\ verdicts = [u \in Probes |-> <<>>]
  /\ ended = FALSE

Send ==
  /\ ~ended
  /\ sent \in Probes
  /\ sent' = sent + 1
  /\ UNCHANGED <<verdicts, ended>>

(* The first answer to a probe; an answer may also end the session.           *)
Answer(u) ==
  /\ ~ended
  /\ u < sent
  /\ \E v \in {"EchoReply", "LateReply"} :
       /\ \/ verdicts[u] = <<>>
          \/ verdicts[u] = <<"EchoLoss">> /\ v = "LateReply"
       /\ verdicts' = [verdicts EXCEPT ![u] = Append(@, v)]
  /\ ended' \in BOOLEAN
  /\ UNCHANGED sent

(* A timeout pass gives up on several probes at once.                         *)
Lose(S) ==
  /\ ~ended
  /\ S # {}
  /\ \A u \in S : u < sent /\ verdicts[u] = <<>>
  /\ verdicts' = [u \in Probes |-> IF u \in S THEN <<"EchoLoss">> ELSE verdicts[u]]
  /\ UNCHANGED <<sent, ended>>

End ==
  /\ ~ended
  /\ ended' = TRUE
  /\ UNCHANGED <<sent, verdicts>>

VNext ==
  \/ Send
  \/ \E u \in Probes : Answer(u)
  \/ \E S \in SUBSET Probes : Lose(S)
  \/ End

VSpec == VInit /\ [][VNext]_avars
=============================================================================
