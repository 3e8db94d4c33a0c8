----------------------------- MODULE ProbeSession -----------------------------
(* One client session of irtt-rs: the protocol state machine                  *)
(* SessionMachine (session/machine.rs), its probe bookkeeping (probe.rs) and  *)
(* the non-blocking client that drives it (async_client.rs).                  *)
(*                                                                            *)
(* Probes carry a 32-bit wire sequence number that wraps; SeqSpace stands for   *)
(* 2^32.  A sent probe is pending until a reply or its deadline resolves it;  *)
(* timed-out probes and answered sequence numbers are remembered in bounded   *)
(* FIFO stores so that late and duplicate replies can be recognised.  The     *)
(* network loses, duplicates, delays and reorders replies: Receive delivers   *)
(* the reply to any probe still within its lifetime, any number of times.     *)
(* The kernel reports transmit timestamps asynchronously, by its own counter. *)
EXTENDS Integers, SequencesExt

CONSTANTS
  SeqSpace,        \* size of the wire sequence space (2^32 in the code)
  MaxPending,    \* config.max_pending_probes: capacity of all three stores
  ProbeTimeout,  \* config.probe_timeout, in clock ticks
  ReplyAge,      \* lifetime of a reply, in probes sent since its own
  StampAge,      \* lifetime of a kernel stamp, in submissions since its own
  MaxSendTime,   \* bound: clock ticks one socket send may take
  MaxSends,      \* bound: probes sent
  MaxFailures,   \* bound: failed socket sends
  MaxTime        \* bound: clock value

(* The sequence space is even (sequence_is_after halves it), and no reply or  *)
(* kernel stamp outlives one full cycle of sequence numbers.                   *)
ASSUME ConstantsAssumption ==
  /\ SeqSpace \in Nat /\ SeqSpace >= 2 /\ SeqSpace % 2 = 0
  /\ MaxPending \in Nat \ {0}
  /\ ProbeTimeout \in Nat \ {0}
  /\ ReplyAge \in 0 .. SeqSpace /\ StampAge \in 0 .. SeqSpace
  /\ MaxSendTime \in Nat
  /\ MaxSends \in Nat
  /\ MaxFailures \in Nat
  /\ MaxTime \in Nat

VARIABLES
  state,         \* MachineState
  now,           \* the monotonic clock
  nextSeq,       \* next_wire_seq
  highest,       \* highest_received_seq
  packetsSent,   \* packets_sent; also numbers the probes
  pending,       \* PendingMap in list order
  timedOut,      \* TimedOutMap in list order
  completed,     \* CompletedSet in insertion order
  txValid,       \* kernel_tx_correlation_valid
  prepared,      \* AsyncClient.prepared_probe: its sequence number
  kernelIds,     \* submissions the kernel has numbered (SOF_TIMESTAMPING_OPT_ID)
  failures,      \* failed sends so far (for the bound)
  verdicts,      \* history: verdict events emitted for each probe
  newest,        \* history: newest probe a tracked reply was received for
  jumped         \* history: a tracked reply was half the space from newest

vars == <<state, now, nextSeq, highest, packetsSent, pending, timedOut,
          completed, txValid, prepared, kernelIds, failures, verdicts, newest,
          jumped>>

None == -1
SeqNos == 0 .. SeqSpace - 1
Probes == 0 .. MaxSends - 1
Half == SeqSpace \div 2
WireSeq(u) == u % SeqSpace

(* PendingProbe: seq and timeoutAt are the code's fields, uid the probe's     *)
(* identity, submission the number the kernel gave its datagram and kernelTx  *)
(* the submission whose timestamp was attached to it (None: no timestamp).    *)
Entry == [seq : SeqNos, uid : Nat, timeoutAt : Nat, submission : Nat,
          kernelTx : Nat \cup {None}]
Answered == [seq : SeqNos, uid : Nat]

(***************************************************************************)
(* The stores of probe.rs                                                   *)
(***************************************************************************)
Tracks(store, s) == \E i \in DOMAIN store : store[i].seq = s
IndexOf(store, s) == CHOOSE i \in DOMAIN store : store[i].seq = s
Lookup(store, s) == store[IndexOf(store, s)]

(* Mutants of Unlink: the entry stays; the last entry moves into the gap; the *)
(* head always becomes the successor of the removed entry.                     *)
UnlinkNothing(store, s) == store
UnlinkBySwap(store, s) ==
  IF Tracks(store, s)
  THEN Front([store EXCEPT ![IndexOf(store, s)] = Last(store)]) ELSE store
UnlinkMovesHead(store, s) ==
  IF Tracks(store, s)
  THEN SubSeq(store, IndexOf(store, s) + 1, Len(store)) ELSE store

(* PendingMap::remove and CompletedSet::remove: unlink, keep the order.      *)
Unlink(store, s) ==
  IF Tracks(store, s) THEN RemoveAt(store, IndexOf(store, s)) ELSE store

(* Mutant: the previous generation of a sequence number stays retained.       *)
RecycleNothing(store, s) == store

(* commit_probe_sent forgets what is retained of an earlier probe that used   *)
(* the same sequence number.                                                   *)
Recycle(store, s) == Unlink(store, s)

(* TimedOutMap::insert and CompletedSet::insert of new members in order, each *)
(* evicting the oldest member of a full store.                                *)
Retain(store, new) ==
  LET all == store \o new IN
  IF Len(all) <= MaxPending THEN all
  ELSE SubSeq(all, Len(all) - MaxPending + 1, Len(all))

RememberAnswer(store, e) ==
  IF Tracks(store, e.seq) THEN store
  ELSE Retain(store, <<[seq |-> e.seq, uid |-> e.uid]>>)

(* PendingMap::drain_expired_bounded: how many heads it pops at time t.       *)
IsDrain(k, t, limit) ==
  /\ k <= limit
  /\ \A i \in 1 .. k : pending[i].timeoutAt <= t
  /\ k < limit /\ k < Len(pending) => pending[k + 1].timeoutAt > t

NextDeadline == IF pending = <<>> THEN None ELSE Head(pending).timeoutAt

LatestDeadline ==
  LET tail(store) == IF store = <<>> THEN None ELSE Last(store).timeoutAt
  IN  IF tail(pending) >= tail(timedOut) THEN tail(pending) ELSE tail(timedOut)

(***************************************************************************)
(* Wrapping sequence comparison                                             *)
(***************************************************************************)
(* Mutant: plain comparison.                                                   *)
NumericallyAfter(candidate, current) == candidate > current

SequenceIsAfter(candidate, current) ==
  candidate # current /\ (candidate - current) % SeqSpace < Half
SequenceIsBefore(candidate, current) == SequenceIsAfter(current, candidate)

(* Mutant: no wrap.                                                            *)
PlainSuccessor(s) == s + 1

Successor(s) == (s + 1) % SeqSpace

UpdateHighest(h, s) ==
  IF h = None THEN s ELSE IF SequenceIsAfter(s, h) THEN s ELSE h

(***************************************************************************)
(* Kernel transmit timestamps: every handler that touches the socket drains *)
(* the error queue, and each drained record goes to                         *)
(* record_kernel_tx_timestamp.                                              *)
(***************************************************************************)
Attach(store, stamps) ==
  [i \in DOMAIN store |->
     IF txValid /\ store[i].kernelTx = None
        /\ \E k \in stamps : WireSeq(k) = store[i].seq
     THEN [store[i] EXCEPT !.kernelTx =
             CHOOSE k \in stamps : WireSeq(k) = store[i].seq]
     ELSE store[i]]

AttachTimedOut(p, t, stamps) ==
  Attach(t, { k \in stamps : ~Tracks(p, WireSeq(k)) })

(* One drain finds no record or one: a longer drain is several handlers'.     *)
Drains(submitted) ==
  {{}} \cup { {k} : k \in { j \in 0 .. submitted - 1 : submitted - j <= StampAge } }

(***************************************************************************)
(* Opening and closing                                                      *)
(***************************************************************************)
Init ==
  /\ state = "Connected" /\ now = 0
  /\ nextSeq = 0 /\ highest = None /\ packetsSent = 0
  /\ pending = <<>> /\ timedOut = <<>> /\ completed = <<>>
  /\ txValid = TRUE /\ prepared = None /\ kernelIds = 0 /\ failures = 0
  /\ verdicts = [u \in Probes |-> <<>>] /\ newest = None /\ jumped = FALSE

(* commit_open of an accepted reply: a running session, or a completed       *)
(* no-test exchange.  (A fresh session's fields have their initial values.)   *)
AcceptOpen ==
  /\ state = "Connected"
  /\ state' \in {"Open", "NoTestCompleted"}
  /\ UNCHANGED <<now, nextSeq, highest, packetsSent, pending, timedOut, completed,
                 txValid, prepared, kernelIds, failures, verdicts, newest, jumped>>

(* The prepared probe is consumed by a commit, a close or a withdrawal.       *)
ForgetPrepared == prepared' = None

(* Replacing MachineState::Open drops the ActiveSession; only packets_sent is *)
(* kept.  The client also forgets its prepared probe.                         *)
DropSession ==
  /\ nextSeq' = 0 /\ highest' = None /\ txValid' = TRUE /\ ForgetPrepared
  /\ pending' = <<>> /\ timedOut' = <<>> /\ completed' = <<>>

(* poll_close whose datagram the socket accepted.                             *)
LocalClose ==
  /\ state = "Open"
  /\ state' = "ClosedLocal"
  /\ DropSession
  /\ UNCHANGED <<now, packetsSent, kernelIds, failures, verdicts, newest, jumped>>

(***************************************************************************)
(* Sending                                                                  *)
(***************************************************************************)
Prepared == IF prepared = None THEN nextSeq ELSE prepared

(* poll_send_probe up to a socket that is not writable, and any preflight     *)
(* error: the prepared probe is retained across the pending poll.             *)
PrepareProbe ==
  /\ state = "Open"
  /\ prepared = None
  /\ prepared' = nextSeq
  /\ UNCHANGED <<state, now, nextSeq, highest, packetsSent, pending, timedOut,
                 completed, txValid, kernelIds, failures, verdicts, newest, jumped>>

(* The managed driver withdraws a send it no longer wants.                    *)
DiscardPreparedProbe ==
  /\ prepared # None
  /\ ForgetPrepared
  /\ UNCHANGED <<state, now, nextSeq, highest, packetsSent, pending, timedOut,
                 completed, txValid, kernelIds, failures, verdicts, newest, jumped>>

PreflightInsert(store, s) == ~Tracks(store, s) /\ Len(store) < MaxPending

Preflight ==
  /\ state = "Open"
  /\ Prepared = nextSeq
  /\ PreflightInsert(pending, Prepared)

(* The deadline is fixed from the clock before the send.                      *)
FinalizeProbeCommit ==
  [seq |-> Prepared, uid |-> packetsSent, timeoutAt |-> now + ProbeTimeout,
   submission |-> kernelIds, kernelTx |-> None]

(* A new probe becomes the tail of the list.                                  *)
CommitInsert(store, probe) == Append(store, probe)

(* After the send, nothing can fail: the probe takes the place of any answer  *)
(* or timeout of its number.  Then the error queue is drained.                *)
CommitProbeSent(probe, stamps) ==
  LET p == CommitInsert(pending, probe)
      t == Recycle(timedOut, probe.seq)
  IN  /\ pending' = Attach(p, stamps)
      /\ timedOut' = AttachTimedOut(p, t, stamps)
      /\ completed' = Recycle(completed, probe.seq)
      /\ nextSeq' = Successor(probe.seq)
      /\ packetsSent' = packetsSent + 1

(* A send takes d ticks, and the commit comes after it.                       *)
SendProbe(d, stamps) ==
  /\ Preflight
  /\ packetsSent < MaxSends
  /\ now + d + ProbeTimeout <= MaxTime
  /\ CommitProbeSent(FinalizeProbeCommit, stamps)
  /\ now' = now + d
  /\ kernelIds' = kernelIds + 1
  /\ ForgetPrepared
  /\ UNCHANGED <<state, highest, txValid, failures, verdicts, newest, jumped>>

(* Mutant: correlation is trusted after a failed send.                         *)
KeepCorrelation == txValid' = txValid

InvalidateKernelTxCorrelation == txValid' = FALSE

(* The socket refuses the datagram: nothing is committed, but the kernel may  *)
(* have used up one of its numbers.                                           *)
SendFails(consumed) ==
  /\ Preflight
  /\ failures < MaxFailures
  /\ failures' = failures + 1
  /\ InvalidateKernelTxCorrelation
  /\ kernelIds' = kernelIds + consumed
  /\ prepared' = Prepared
  /\ UNCHANGED <<state, now, nextSeq, highest, packetsSent, pending, timedOut,
                 completed, verdicts, newest, jumped>>

(***************************************************************************)
(* Receiving                                                                *)
(***************************************************************************)
(* What is left of the session after a reply; a Close flag ends it.           *)
Settle(close, p, t, c, h) ==
  IF close
  THEN /\ state' = "ClosedPeer"
       /\ DropSession
  ELSE /\ pending' = p /\ timedOut' = t /\ completed' = c /\ highest' = h
       /\ UNCHANGED <<state, nextSeq, txValid, prepared>>

Emit(u, verdict) == verdicts' = [verdicts EXCEPT ![u] = Append(@, verdict)]

Observe(u) ==
  /\ newest' = IF u > newest THEN u ELSE newest
  /\ jumped' = \/ jumped
               \/ newest # None /\ (u - newest >= Half \/ newest - u >= Half)

ReplyToPending(u, close, p, t) ==
  LET s == WireSeq(u)
      probe == Lookup(p, s)
      isLate == highest # None /\ SequenceIsBefore(s, highest)
  IN  /\ Tracks(p, s)
      /\ Emit(probe.uid, IF isLate THEN "LateReply" ELSE "EchoReply")
      /\ Settle(close, Unlink(p, s), t, RememberAnswer(completed, probe),
                UpdateHighest(highest, s))
      /\ Observe(u)

DuplicateReply(u, close, p, t) ==
  LET s == WireSeq(u) IN
  /\ ~Tracks(p, s)
  /\ Tracks(completed, s)
  /\ Settle(close, p, t, completed, UpdateHighest(highest, s))
  /\ Observe(u)
  /\ UNCHANGED verdicts

ReplyToTimedOut(u, close, p, t) ==
  LET s == WireSeq(u)
      probe == Lookup(t, s)
  IN  /\ ~Tracks(p, s) /\ ~Tracks(completed, s)
      /\ Tracks(t, s)
      /\ Emit(probe.uid, "LateReply")
      /\ Settle(close, p, Unlink(t, s), RememberAnswer(completed, probe),
                UpdateHighest(highest, s))
      /\ Observe(u)

(* Neither store knows it: a LateReply without measurements when the number  *)
(* is before the highest, a warning otherwise.  A Close flag still counts.    *)
UntrackedReply(u, close, p, t) ==
  LET s == WireSeq(u) IN
  /\ ~Tracks(p, s) /\ ~Tracks(completed, s) /\ ~Tracks(t, s)
  /\ Settle(close, p, t, completed, highest)
  /\ UNCHANGED <<verdicts, newest, jumped>>

Receive(u, close, stamps) ==
  /\ state = "Open"
  /\ u < packetsSent /\ packetsSent - u <= ReplyAge
  /\ LET p == Attach(pending, stamps)
         t == AttachTimedOut(p, timedOut, stamps)
     IN  \/ ReplyToPending(u, close, p, t)
         \/ DuplicateReply(u, close, p, t)
         \/ ReplyToTimedOut(u, close, p, t)
         \/ UntrackedReply(u, close, p, t)
  /\ UNCHANGED <<now, packetsSent, kernelIds, failures>>

(* A malformed datagram, one with a foreign token, or a drain that ends in a  *)
(* socket error before the datagram is looked at: only stamps are recorded.   *)
DropDatagram(stamps) ==
  /\ state = "Open"
  /\ pending' = Attach(pending, stamps)
  /\ timedOut' = AttachTimedOut(pending, timedOut, stamps)
  /\ UNCHANGED <<state, now, nextSeq, highest, packetsSent, completed, txValid,
                 prepared, kernelIds, failures, verdicts, newest, jumped>>

(***************************************************************************)
(* Timeouts                                                                 *)
(***************************************************************************)
(* The expired heads become losses and move, in order, to the timed-out store.*)
PollTimeouts(limit, stamps) ==
  /\ state = "Open"
  /\ LET p == Attach(pending, stamps)
         t == AttachTimedOut(p, timedOut, stamps)
     IN  \E k \in 0 .. Len(pending) :
           /\ IsDrain(k, now, limit)
           /\ pending' = SubSeq(p, k + 1, Len(p))
           /\ timedOut' = Retain(t, SubSeq(p, 1, k))
           /\ verdicts' = [u \in Probes |->
                IF \E i \in 1 .. k : p[i].uid = u
                THEN Append(verdicts[u], "EchoLoss") ELSE verdicts[u]]
  /\ UNCHANGED <<state, now, nextSeq, highest, packetsSent, completed, txValid,
                 prepared, kernelIds, failures, newest, jumped>>

Tick ==
  /\ state = "Open"
  /\ now < MaxTime
  /\ now' = now + 1
  /\ UNCHANGED <<state, nextSeq, highest, packetsSent, pending, timedOut,
                 completed, txValid, prepared, kernelIds, failures, verdicts,
                 newest, jumped>>

Next ==
  \/ AcceptOpen
  \/ LocalClose
  \/ PrepareProbe
  \/ DiscardPreparedProbe
  \/ \E d \in 0 .. MaxSendTime, stamps \in Drains(kernelIds + 1) :
       SendProbe(d, stamps)
  \/ \E consumed \in {0, 1} : SendFails(consumed)
  \/ \E u \in Probes, close \in BOOLEAN, stamps \in Drains(kernelIds) :
       Receive(u, close, stamps)
  \/ \E stamps \in Drains(kernelIds) : DropDatagram(stamps)
  \/ \E limit \in 1 .. MaxPending, stamps \in Drains(kernelIds) :
       PollTimeouts(limit, stamps)
  \/ Tick

Spec == Init /\ [][Next]_vars

(* A client that keeps polling its timeouts while the clock runs.             *)
Polling ==
  /\ WF_vars(Tick)
  /\ WF_vars(\E limit \in 1 .. MaxPending : PollTimeouts(limit, {}))
FairSpec == Spec /\ Polling
(***************************************************************************)
(* Properties                                                               *)
(***************************************************************************)
MachineStates ==
  {"Connected", "Open", "NoTestCompleted", "ClosedLocal", "ClosedPeer"}

(* Every field of the session has the type machine.rs and probe.rs give it.   *)
TypeOK ==
  /\ state \in MachineStates
  /\ now \in Nat
  /\ nextSeq \in SeqNos
  /\ highest \in SeqNos \cup {None}
  /\ packetsSent \in 0 .. MaxSends
  /\ pending \in Seq(Entry)
  /\ timedOut \in Seq(Entry)
  /\ completed \in Seq(Answered)
  /\ txValid \in BOOLEAN
  /\ prepared \in SeqNos \cup {None}
  /\ kernelIds \in Nat
  /\ failures \in Nat
  /\ verdicts \in [Probes -> Seq({"EchoReply", "LateReply", "EchoLoss"})]
  /\ newest \in Probes \cup {None}
  /\ jumped \in BOOLEAN

Distinct(store) ==
  \A i, j \in DOMAIN store : store[i].seq = store[j].seq => i = j
Apart(a, b) ==
  \A i \in DOMAIN a, j \in DOMAIN b : a[i].seq # b[j].seq

(* "A sequence cannot be both pending and retained" (probe.rs): a wire        *)
(* sequence number is in at most one place of one of the three stores, and    *)
(* none of them outgrows max_pending_probes, also across a sequence wrap.     *)
StoresApart ==
  /\ Distinct(pending) /\ Distinct(timedOut) /\ Distinct(completed)
  /\ Apart(pending, timedOut) /\ Apart(pending, completed)
  /\ Apart(timedOut, completed)
  /\ Len(pending) <= MaxPending /\ Len(timedOut) <= MaxPending
  /\ Len(completed) <= MaxPending

(* The constant-time deadline queries are right: next_probe_timeout_deadline, *)
(* which reads the list head, is the earliest pending deadline, and           *)
(* latest_probe_timeout_deadline, which reads the two tails, is no earlier    *)
(* than any deadline retained - whatever replies unlinked in between.         *)
DeadlinesAtEnds ==
  /\ \A i \in DOMAIN pending : NextDeadline <= pending[i].timeoutAt
  /\ \A i \in DOMAIN pending : pending[i].timeoutAt <= LatestDeadline
  /\ \A i \in DOMAIN timedOut : timedOut[i].timeoutAt <= LatestDeadline

(* No probe vanishes and none is counted twice: while the session is open, a  *)
(* sent probe is pending exactly when no verdict was announced for it.        *)
ProbesAccounted ==
  state = "Open" =>
    \A u \in 0 .. packetsSent - 1 :
      (\E i \in DOMAIN pending : pending[i].uid = u) <=> verdicts[u] = <<>>

(* A reply is credited to the probe it answers: whichever store the reply of  *)
(* a probe within its lifetime hits, it finds that very probe there, never an *)
(* older or newer one with the same wire sequence number.                      *)
ReplyFindsItsProbe ==
  \A u \in 0 .. packetsSent - 1 :
    packetsSent - u <= ReplyAge =>
      /\ Tracks(pending, WireSeq(u)) => Lookup(pending, WireSeq(u)).uid = u
      /\ Tracks(timedOut, WireSeq(u)) => Lookup(timedOut, WireSeq(u)).uid = u
      /\ Tracks(completed, WireSeq(u)) => Lookup(completed, WireSeq(u)).uid = u

(* A kernel transmit timestamp is attached only to the probe whose datagram   *)
(* it was taken for, even though kernel numbers and wire numbers drift apart  *)
(* after a failed send.                                                        *)
StampsBelong ==
  /\ \A i \in DOMAIN pending :
       pending[i].kernelTx \in {None, pending[i].submission}
  /\ \A i \in DOMAIN timedOut :
       timedOut[i].kernelTx \in {None, timedOut[i].submission}

(* The probe kept across pending polls, cancelled sends and failed sends is   *)
(* always the next one: StalePreparedProbe cannot be returned.                 *)
PreparedIsNext == prepared \in {None, nextSeq}

(* Unless replies jump half the sequence space, a first answer is reported as *)
(* late exactly when a newer probe was answered before it - also when the     *)
(* sequence numbers wrapped in between.                                        *)
LateIffOvertaken ==
  [][\A u \in Probes :
       (verdicts[u] = <<>> /\ verdicts'[u] \in {<<"EchoReply">>, <<"LateReply">>}
          /\ ~jumped')
       => (verdicts'[u] = <<"LateReply">> <=> newest > u)]_vars

(* The event stream of each probe is one that ProbeVerdicts allows.           *)
Abstract == INSTANCE ProbeVerdicts WITH
  sent <- packetsSent,
  ended <- state \in {"ClosedLocal", "ClosedPeer"}
VerdictsRefine == Abstract!VSpec

(* Every probe gets its verdict, or the session ends, when timeouts are       *)
(* polled.                                                                     *)
ProbesResolved ==
  []<>(state = "Open" =>
         \A u \in Probes : u < packetsSent => verdicts[u] # <<>>)

(* The intrusive lists and what they count stay true through every unlink:    *)
(* deadlines are in order from end to end and no probe is in two places       *)
(* (probe.rs: PendingProbes, TimedOutProbes).                                 *)
ListsAccount == DeadlinesAtEnds /\ ProbesAccounted

(* What arrives from outside, a reply or a kernel timestamp, is credited to   *)
(* the probe it belongs to (machine.rs: process_echo_reply, process_kernel_tx). *)
AnswersBelong == ReplyFindsItsProbe /\ StampsBelong
=============================================================================
