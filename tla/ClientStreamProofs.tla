-------------------------- MODULE ClientStreamProofs --------------------------
(* Proofs about ClientStream, for any number of records, targets and events,  *)
(* any capacity of the queues and any length of the bounded histories.         *)
EXTENDS ClientStream, FiniteSetTheorems, SequenceTheorems, TLAPS

(***************************************************************************)
(* The inductive invariant                                                  *)
(***************************************************************************)

Revisions == Targets \cup {None}
Happenings ==
    { e \in [kind : {"state", "client", "finished", "other"}, target : Revisions] :
        e.kind = "other" \/ e.target \in Targets }
Snapshots ==
    [version : Nat, targets : SUBSET Targets, final : BOOLEAN, peerClosed : BOOLEAN]
Drivers ==
    [phase : {"idle", "running", "stopping", "ended"}, live : SUBSET Targets,
     over : SUBSET Targets, desired : SUBSET Targets, command : Revisions,
     ack : {"none", "Applied", "LimitExceeded", "Stopping"}, stop : BOOLEAN,
     peerClosed : BOOLEAN, good : BOOLEAN, chunks : Nat]
Loop == {"start", "top", "decide", "select", "sending"}
Settled == {"report", "summaries", "returning", "returned", "dropping"}
Frontends ==
    [phase : Loop \cup {"joining", "draining"} \cup Settled, after : {"top", "draining"},
     snap : Snapshots, specs : Revisions, preparing : Revisions, desired : Revisions,
     pending : Revisions, retry : Nat, stop : {"none", "Eof", "Fatal", "Interrupted"},
     stats : SUBSET Targets, summary : SUBSET Targets, terminal : Seq(Targets),
     rest : Seq(Targets), left : Int, failed : BOOLEAN]

Typed ==
    /\ setup \in Setups /\ shutdown \in BOOLEAN
    /\ stdin \in [revision : 0 .. setup.targets, stop : {"none", "Eof", "Fatal"},
                  unseen : BOOLEAN, closed : BOOLEAN]
    /\ driver \in Drivers /\ recent \in Seq(Targets) /\ status \in Snapshots
    /\ events \in [queue : Seq(Happenings), lagged : BOOLEAN]
    /\ ui \in Frontends
    /\ writer \in [phase : {"idle", "busy", "failed", "done"}, queued : Int, closed : BOOLEAN]
    /\ grace \in {"unset", "armed", "over"}
    /\ newest \in Revisions /\ reported \in [Targets -> Nat]

(* Whether the end of t waits in the queue, is known in any way, and whether  *)
(* t was ever the driver's.                                                    *)
Waits(q, t) == \E i \in DOMAIN q : q[i].kind = "finished" /\ q[i].target = t
Within(s, t) == \E i \in DOMAIN s : s[i] = t
Ended(t) ==
    Within(recent, t) \/ Within(ui.terminal, t) \/ Waits(events.queue, t) \/ reported[t] # 0
Begun(t) == t \in driver.live \/ Ended(t)

(* What is between stdin and the driver is in order, and the newest of it is  *)
(* what was taken last: at most one record is the one wanted, an older one is *)
(* being prepared or with the driver. A result dropped for a newer record      *)
(* leaves none wanted until that record is taken.                              *)
Wanted == ui.desired # None \/ ui.preparing # None \/ ui.specs # None
FlowInv ==
    /\ stdin.closed <=> stdin.stop # "none"
    /\ driver.ack # "none" => driver.command = None
    /\ ~OnStdin =>
         /\ {driver.command, ui.specs, ui.preparing, ui.desired, ui.pending} = {None}
         /\ ui.stop \in {"none", "Interrupted"}
    /\ ui.stop = "none" =>
         /\ newest <= stdin.revision
         /\ stdin.unseen /\ ~stdin.closed => newest < stdin.revision
         /\ ui.specs # None => ui.specs = newest
         /\ ui.preparing # None /\ ui.specs = None => ui.preparing = newest
         /\ ui.desired # None =>
              ui.specs = None /\ ui.preparing = None /\ ui.desired = newest
         /\ driver.command <= newest
         /\ Wanted /\ driver.command # None => driver.command < newest
         /\ ui.pending # None => driver.command \in {None, ui.pending}
         /\ ui.pending # None /\ ~Wanted =>
              \/ ui.pending = newest
              \/ ui.phase \in {"top", "decide"} /\ (stdin.unseen \/ stdin.closed)

(* What the driver has had is older than what is still to come to it.         *)
TouchInv ==
    OnStdin /\ ui.phase \notin Settled =>
        \A t \in Targets : Begun(t) =>
            /\ driver.command # None => t < driver.command
            /\ ui.stop = "none" =>
                 /\ t <= newest
                 /\ Wanted => t < newest
                 /\ ui.pending # None /\ driver.ack # "Applied" => t < ui.pending

(* Wherever a is in the history, b is after it.                               *)
Precedes(h, a, b) ==
    \A k \in DOMAIN h : h[k] = a => \E m \in DOMAIN h : m > k /\ h[m] = b

(* Until the history is gone through, ends are learnt of in the order of the  *)
(* history: first those reported, then those queued.                          *)
ReportedFirst ==
    /\ \A i, j \in DOMAIN ui.terminal : i < j => Precedes(recent, ui.terminal[i], ui.terminal[j])
    /\ \A i \in DOMAIN ui.terminal, j \in DOMAIN events.queue :
         events.queue[j].kind = "finished" =>
            Precedes(recent, ui.terminal[i], events.queue[j].target)
    /\ \A i, j \in DOMAIN events.queue :
         i < j /\ events.queue[i].kind = "finished" /\ events.queue[j].kind = "finished" =>
            /\ events.queue[i].target # events.queue[j].target
            /\ Precedes(recent, events.queue[i].target, events.queue[j].target)
    /\ \A t \in Targets : Waits(events.queue, t) => reported[t] = 0
    /\ \A t \in driver.live : ~Ended(t)

(* What the history still holds and was reported is remembered as such.       *)
Remembered == \A t \in Targets : Within(recent, t) /\ reported[t] # 0 => Within(ui.terminal, t)

(* The set of those reported drops what the history has dropped first.        *)
DropsOldest ==
    \A i, j \in DOMAIN ui.terminal :
        i < j /\ Within(recent, ui.terminal[i]) => Within(recent, ui.terminal[j])

OnceInv ==
    /\ Len(recent) <= OutcomeLimit /\ Len(ui.terminal) <= OutcomeLimit
    /\ \A t \in Targets : reported[t] <= 1 /\ (Within(ui.terminal, t) => reported[t] = 1)
    /\ \A i, j \in DOMAIN ui.terminal : i < j => ui.terminal[i] # ui.terminal[j]
    /\ ui.phase \notin Settled => ReportedFirst /\ Remembered
    /\ ui.phase = "report" =>
         /\ Remembered /\ DropsOldest
         /\ \A t \in Targets : Within(ui.rest, t) => Within(recent, t)
         /\ \A t \in Targets : Within(recent, t) => reported[t] = 1 \/ Within(ui.rest, t)
    /\ ui.phase = "summaries" => \A t \in Targets : Within(recent, t) => reported[t] = 1

(* A run that failed to say or do something says so.                          *)
EndInv ==
    /\ grace # "unset" => shutdown
    /\ ui.phase \in {"draining", "report", "summaries", "returning", "returned"} =>
         driver.phase = "ended"
    /\ ui.phase = "sending" /\ ui.after = "draining" => driver.phase = "ended"
    /\ ~OnStdin =>
         /\ ui.stop = "Interrupted" => shutdown
         /\ recent = <<>> => driver.live = 1 .. setup.targets
         /\ driver.phase = "ended" /\ ui.phase \notin {"returning", "returned"} => recent # <<>>
    /\ ui.phase \in {"summaries", "returning", "returned"} /\ ~ui.failed /\ ~shutdown =>
         /\ ui.stop # "Fatal"
         /\ OnStdin \/ (driver.good /\ ~(setup.continuous /\ driver.peerClosed))
    /\ ui.phase = "returned" /\ ~ui.failed /\ ~shutdown => writer.phase = "done"

StreamInv == Typed /\ FlowInv /\ TouchInv /\ OnceInv /\ EndInv /\ SummaryBacked

(***************************************************************************)
(* Types                                                                    *)
(***************************************************************************)

LEMMA Constants ==
    /\ MaxRecords \in Nat /\ MaxRecords > 0 /\ MaxLive \in Nat /\ EventCapacity \in Nat
    /\ EventCapacity > 0 /\ HistoryLimit \in Nat /\ HistoryLimit > 0 /\ OutputCapacity \in Nat
    /\ \A s \in Setups :
         /\ s.mode \in {"stdin", "fixed"} /\ s.continuous \in BOOLEAN
         /\ s.targets \in Targets /\ s.targets \in Nat /\ s.targets > 0
         /\ s.ends \in Nat /\ s.chunks \in Nat
         /\ 1 .. s.targets \subseteq Targets /\ 0 .. s.targets \subseteq Revisions
BY StreamAssumption DEF Targets, Revisions, None

LEMMA LimitPositive ==
    ASSUME setup \in Setups
    PROVE  OutcomeLimit \in Nat /\ OutcomeLimit > 0
BY Constants DEF OutcomeLimit

(* A set of targets can be counted.                                           *)
LEMMA TargetsCounted ==
    ASSUME NEW S \in SUBSET Targets
    PROVE  IsFiniteSet(S) /\ Cardinality(S) \in Nat
<1>1. IsFiniteSet(Targets)
  BY FS_Interval, Constants DEF Targets
<1>2. IsFiniteSet(S)
  BY <1>1, FS_Subset
<1> QED BY <1>2, FS_CardinalityType

(* Of what was queued and what is published, the queue keeps the newest.      *)
Joined(q, p, n) == IF n <= Len(q) THEN q[n] ELSE p[n - Len(q)]
Kept(q, p, r, k) ==
    /\ k \in Nat /\ k <= Len(q) + Len(p)
    /\ Len(r) = Len(q) + Len(p) - k
    /\ \A i \in 1 .. Len(r) : r[i] = Joined(q, p, i + k)

LEMMA PublishFacts ==
    ASSUME Typed, NEW p \in Seq(Happenings), Publish(p)
    PROVE  /\ events' \in [queue : Seq(Happenings), lagged : BOOLEAN]
           /\ \E k \in Nat : Kept(events.queue, p, events'.queue, k)
<1> DEFINE q == events.queue  all == q \o p  lost == Len(all) - EventCapacity
           kept == SubSeq(all, lost + 1, Len(all))
<1>0. q \in Seq(Happenings) /\ Len(q) \in Nat /\ Len(p) \in Nat /\ EventCapacity \in Nat
  BY Constants, LenProperties DEF Typed
<1>1. all \in Seq(Happenings) /\ Len(all) = Len(q) + Len(p)
  BY <1>0, ConcatProperties
<1>2. \A i \in 1 .. Len(all) : all[i] = Joined(q, p, i)
  BY <1>0, <1>1, ConcatProperties DEF Joined
<1>3. CASE lost <= 0
  <2>1. events' = [events EXCEPT !.queue = all]
    BY <1>3 DEF Publish
  <2>2. events'.queue = all /\ events' \in [queue : Seq(Happenings), lagged : BOOLEAN]
    BY <1>1, <2>1 DEF Typed
  <2>3. Kept(q, p, all, 0)
    BY <1>0, <1>1, <1>2 DEF Kept
  <2> QED BY <2>2, <2>3
<1>4. CASE ~(lost <= 0)
  <2>1. events' = [queue |-> kept, lagged |-> TRUE]
    BY <1>4 DEF Publish
  <2>2. lost \in Nat /\ lost + 1 \in 1 .. Len(all) + 1 /\ lost <= Len(all)
    BY <1>0, <1>1, <1>4
  <2>3. /\ kept \in Seq(Happenings) /\ Len(kept) = Len(all) - lost
        /\ \A i \in 1 .. Len(all) - lost : kept[i] = all[lost + i]
    <3> HIDE DEF all, lost, q
    <3>1. /\ lost \in Nat /\ Len(all) \in Nat /\ lost <= Len(all)
          /\ \A i \in lost + 1 .. Len(all) : all[i] \in Happenings
      BY <1>0, <1>1, <2>2
    <3>2. /\ kept \in Seq(Happenings)
          /\ Len(kept) = IF lost + 1 <= Len(all) THEN Len(all) - (lost + 1) + 1 ELSE 0
          /\ \A i \in 1 .. Len(all) - (lost + 1) + 1 : kept[i] = all[lost + 1 + i - 1]
      <4> SUFFICES ASSUME NEW m \in Int, NEW n \in Int, m = lost + 1, n = Len(all)
                   PROVE  /\ SubSeq(all, m, n) \in Seq(Happenings)
                          /\ Len(SubSeq(all, m, n)) = IF m <= n THEN n - m + 1 ELSE 0
                          /\ \A i \in 1 .. n - m + 1 : SubSeq(all, m, n)[i] = all[m + i - 1]
        BY <3>1
      <4>1. \A i \in m .. n : all[i] \in Happenings
        BY <3>1
      <4> QED BY <4>1, SubSeqProperties
    <3> HIDE DEF kept
    <3>3. Len(kept) = Len(all) - lost
      BY <3>1, <3>2
    <3>4. ASSUME NEW i \in 1 .. Len(all) - lost PROVE kept[i] = all[lost + i]
      <4>1. i \in 1 .. Len(all) - (lost + 1) + 1 /\ lost + 1 + i - 1 = lost + i
        BY <3>1
      <4> QED BY <3>2, <4>1, Zenon
    <3> QED BY <3>2, <3>3, <3>4
  <2>4. Kept(q, p, kept, lost)
    <3> HIDE DEF all, lost, kept, q
    <3>0. Len(kept) = Len(all) - lost /\ lost <= Len(all) /\ Len(all) = Len(q) + Len(p)
      BY <1>1, <2>2, <2>3, Zenon
    <3>1. Len(kept) = Len(q) + Len(p) - lost /\ lost <= Len(q) + Len(p)
      BY <1>0, <2>2, <3>0
    <3>2. ASSUME NEW i \in 1 .. Len(kept) PROVE kept[i] = Joined(q, p, i + lost)
      <4>1. i \in 1 .. Len(all) - lost /\ lost + i \in 1 .. Len(all) /\ lost + i = i + lost
        BY <1>0, <1>1, <2>2, <2>3
      <4> QED BY <1>2, <2>3, <4>1, Zenon
    <3> QED BY <2>2, <3>1, <3>2 DEF Kept
  <2> QED BY <2>1, <2>2, <2>3, <2>4
<1> QED BY <1>3, <1>4

(* What an action leaves behind of the driver and of the frontend.             *)
LEMMA RecordTyped ==
    ASSUME Typed, NEW t \in Targets
    PROVE  /\ RecordOutcome(t, OutcomeLimit) \in Seq(Targets)
           /\ RecordOutcome(t, OutcomeLimit) # <<>>
<1>1. recent \in Seq(Targets) /\ OutcomeLimit \in Nat /\ OutcomeLimit > 0
  BY LimitPositive DEF Typed
<1>2. CASE Len(recent) = OutcomeLimit
  <2>1. recent # <<>>
    BY <1>1, <1>2
  <2>2. Tail(recent) \in Seq(Targets)
    BY <1>1, <2>1, HeadTailProperties
  <2> QED BY <1>2, <2>2, AppendProperties DEF RecordOutcome
<1>3. CASE Len(recent) # OutcomeLimit
  BY <1>1, <1>3, AppendProperties DEF RecordOutcome
<1> QED BY <1>2, <1>3

LEMMA InsertTyped ==
    ASSUME Typed, NEW t \in Targets
    PROVE  /\ Insert(ui.terminal, t) \in Seq(Targets)
<1>1. ui.terminal \in Seq(Targets) /\ OutcomeLimit \in Nat /\ OutcomeLimit > 0
  BY LimitPositive DEF Typed, Frontends
<1>2. CASE Len(ui.terminal) = OutcomeLimit
  <2>1. ui.terminal # <<>>
    BY <1>1, <1>2
  <2>2. Tail(ui.terminal) \in Seq(Targets)
    BY <1>1, <2>1, HeadTailProperties
  <2> QED BY <1>2, <2>2, AppendProperties DEF Insert
<1>3. CASE Len(ui.terminal) # OutcomeLimit
  BY <1>1, <1>3, AppendProperties DEF Insert
<1> QED BY <1>2, <1>3

(* The driver's own steps.                                                     *)
DriverTyped ==
    /\ driver' \in Drivers /\ recent' \in Seq(Targets) /\ status' \in Snapshots
    /\ events' \in [queue : Seq(Happenings), lagged : BOOLEAN]
    /\ UNCHANGED <<setup, shutdown, stdin, ui, writer, grace, newest, reported>>

LEMMA EventTyped ==
    ASSUME NEW t \in Targets
    PROVE  /\ <<Event("state", t)>> \in Seq(Happenings)
           /\ <<Event("client", t)>> \in Seq(Happenings)
           /\ <<Event("other", None)>> \in Seq(Happenings)
           /\ <<Event("state", t), Event("finished", t)>> \in Seq(Happenings)
<1>1. /\ Event("state", t) \in Happenings /\ Event("client", t) \in Happenings
      /\ Event("finished", t) \in Happenings /\ Event("other", None) \in Happenings
  BY DEF Event, Happenings, Revisions
<1> QED BY <1>1

LEMMA StatusTyped ==
    ASSUME Typed, driver' \in Drivers, NEW S \in SUBSET Targets, NEW b \in BOOLEAN,
           ReplaceStatus(S, b)
    PROVE  status' \in Snapshots /\ status'.targets = S /\ status'.final = b
BY DEF Typed, ReplaceStatus, Snapshots, Drivers

LEMMA DriverStaysTyped ==
    ASSUME Typed
    PROVE  /\ ApplyUpdate => DriverTyped
           /\ \A t \in Targets : Measures(t) => DriverTyped
           /\ \A t \in Targets : \A why : TargetFinishes(t, why) => DriverTyped
           /\ Prune => DriverTyped
           /\ ObserveStop => DriverTyped
           /\ Seal => DriverTyped
<1> USE DEF DriverTyped
<1>0. /\ driver \in Drivers /\ recent \in Seq(Targets) /\ status \in Snapshots
      /\ events \in [queue : Seq(Happenings), lagged : BOOLEAN] /\ setup \in Setups
  BY DEF Typed
<1>1. ASSUME ApplyUpdate PROVE DriverTyped
  <2> DEFINE r == driver.command
  <2>1. r \in Targets /\ UNCHANGED <<setup, shutdown, stdin, recent, ui, writer, grace, newest, reported>>
    BY <1>0, <1>1 DEF ApplyUpdate, Drivers, Revisions, None
  <2>2. CASE driver.phase = "running" /\ Fits(r)
    <3>1. /\ driver' = [driver EXCEPT !.command = None, !.ack = "Applied",
                               !.desired = {r}, !.live = @ \cup {r}, !.over = {}]
          /\ ReplaceStatus(Listed(driver'), FALSE) /\ Publish(<<Event("state", r)>>)
      BY <1>1, <2>2 DEF ApplyUpdate
    <3>2. driver' \in Drivers
      BY <1>0, <2>1, <3>1 DEF Drivers, Revisions, None
    <3>3. Listed(driver') \in SUBSET Targets
      BY <3>2 DEF Listed, Drivers
    <3>4. status' \in Snapshots
      BY <3>1, <3>2, <3>3, StatusTyped
    <3> QED BY <1>0, <2>1, <3>1, <3>2, <3>4, PublishFacts, EventTyped
  <2>3. CASE ~(driver.phase = "running" /\ Fits(r))
    <3>1. /\ driver' = [driver EXCEPT !.command = None,
                    !.ack = IF driver.phase = "running" THEN "LimitExceeded" ELSE "Stopping"]
          /\ UNCHANGED <<status, events>>
      BY <1>1, <2>3 DEF ApplyUpdate
    <3>2. driver' \in Drivers
      BY <1>0, <3>1 DEF Drivers, Revisions, None
    <3> QED BY <1>0, <2>1, <3>1, <3>2
  <2> QED BY <2>2, <2>3
<1>2. ASSUME NEW t \in Targets, Measures(t) PROVE DriverTyped
  <2>0. driver' = [driver EXCEPT !.chunks = driver.chunks + 1] /\ driver.chunks + 1 \in Nat
    BY <1>0, <1>2 DEF Measures, Drivers
  <2>1. driver' \in Drivers /\ UNCHANGED <<setup, shutdown, stdin, recent, status, ui, writer, grace, newest, reported>>
    BY <1>0, <1>2, <2>0 DEF Measures, Drivers
  <2>2. Publish(<<Event("client", t)>>)
    BY <1>2 DEF Measures
  <2> QED BY <1>0, <2>1, <2>2, PublishFacts, EventTyped
<1>3. ASSUME NEW t \in Targets, NEW why, TargetFinishes(t, why) PROVE DriverTyped
  <2>1. driver' \in Drivers /\ UNCHANGED <<setup, shutdown, stdin, ui, writer, grace, newest, reported>>
    BY <1>0, <1>3 DEF TargetFinishes, Drivers
  <2>2. /\ recent' = RecordOutcome(t, OutcomeLimit) /\ ReplaceStatus(Listed(driver'), FALSE)
        /\ Publish(<<Event("state", t), Event("finished", t)>>)
    BY <1>3 DEF TargetFinishes
  <2>3. Listed(driver') \in SUBSET Targets
    BY <2>1 DEF Listed, Drivers
  <2>4. status' \in Snapshots
    BY <2>1, <2>2, <2>3, StatusTyped
  <2> QED BY <2>1, <2>2, <2>4, RecordTyped, PublishFacts, EventTyped
<1>4. ASSUME Prune PROVE DriverTyped
  <2>1. driver' \in Drivers /\ ReplaceStatus(Listed(driver'), FALSE)
        /\ UNCHANGED <<setup, shutdown, stdin, recent, events, ui, writer, grace, newest, reported>>
    BY <1>0, <1>4 DEF Prune, Drivers
  <2>2. Listed(driver') \in SUBSET Targets
    BY <2>1 DEF Listed, Drivers
  <2> QED BY <1>0, <2>1, <2>2, StatusTyped
<1>5. ASSUME ObserveStop \/ Seal PROVE DriverTyped
  <2>1. driver' \in Drivers /\ (\E b \in BOOLEAN : ReplaceStatus(Listed(driver'), b))
        /\ Publish(<<Event("other", None)>>)
        /\ UNCHANGED <<setup, shutdown, stdin, recent, ui, writer, grace, newest, reported>>
    BY <1>0, <1>5 DEF ObserveStop, Seal, Drivers, Revisions
  <2>2. Listed(driver') \in SUBSET Targets
    BY <2>1 DEF Listed, Drivers
  <2>3. status' \in Snapshots
    BY <2>1, <2>2, StatusTyped
  <2>4. 1 \in Targets
    BY Constants DEF Targets
  <2> QED BY <1>0, <2>1, <2>3, <2>4, PublishFacts, EventTyped
<1> QED BY <1>1, <1>2, <1>3, <1>4, <1>5

(* What the frontend's local operations leave alone.                          *)
SameReports(u, v) ==
    v.terminal = u.terminal /\ v.rest = u.rest /\ v.failed = u.failed /\ v.after = u.after
SameFlow(u, v) ==
    /\ v.specs = u.specs /\ v.preparing = u.preparing /\ v.desired = u.desired
    /\ v.pending = u.pending /\ v.retry = u.retry
SameEnd(u, v) == v.stop = u.stop /\ v.stats = u.stats /\ v.summary = u.summary
NoFlow(v) ==
    v.specs = None /\ v.preparing = None /\ v.desired = None /\ v.pending = None

LEMMA GotoFacts ==
    ASSUME NEW u \in Frontends, NEW p \in Loop \cup {"joining", "draining"} \cup Settled
    PROVE  /\ Goto(u, p) \in Frontends /\ Goto(u, p).phase = p /\ Goto(u, p).snap = u.snap
           /\ SameReports(u, Goto(u, p)) /\ SameFlow(u, Goto(u, p)) /\ SameEnd(u, Goto(u, p))
BY DEF Goto, Frontends, SameReports, SameFlow, SameEnd

LEMMA LeaveFacts ==
    ASSUME NEW u \in Frontends
    PROVE  /\ LeaveLoop(u) \in Frontends /\ LeaveLoop(u).phase = "joining"
           /\ SameReports(u, LeaveLoop(u)) /\ NoFlow(LeaveLoop(u)) /\ SameEnd(u, LeaveLoop(u))
<1>1. NoSnapshot \in Snapshots /\ None \in Revisions /\ None \in Nat
  BY DEF NoSnapshot, Snapshots, None, Revisions
<1> QED BY <1>1 DEF LeaveLoop, Frontends, SameReports, NoFlow, SameEnd

LEMMA ReconcileFacts ==
    ASSUME NEW u \in Frontends, NEW S \in SUBSET Targets
    PROVE  /\ Reconcile(u, S) \in Frontends /\ SameReports(u, Reconcile(u, S))
           /\ SameFlow(u, Reconcile(u, S)) /\ Reconcile(u, S).stop = u.stop
           /\ Reconcile(u, S).phase = u.phase /\ Reconcile(u, S).snap = u.snap
           /\ Reconcile(u, S).summary = u.summary
           /\ u.summary \subseteq u.stats => u.summary \subseteq Reconcile(u, S).stats
BY DEF Reconcile, Frontends, SameReports, SameFlow

LEMMA StopForFacts ==
    ASSUME NEW u \in Frontends, NEW S \in SUBSET Targets, NEW why \in {"Eof", "Fatal"}
    PROVE  /\ StopFor(u, why, S) \in Frontends /\ SameReports(u, StopFor(u, why, S))
           /\ StopFor(u, why, S).stop = why /\ StopFor(u, why, S).phase = u.phase
           /\ StopFor(u, why, S).snap = u.snap /\ StopFor(u, why, S).pending = u.pending
           /\ StopFor(u, why, S).specs = u.specs
           /\ StopFor(u, why, S).summary \subseteq StopFor(u, why, S).stats
BY DEF StopFor, Frontends, SameReports, Revisions, None

LEMMA InterruptedFacts ==
    ASSUME NEW u \in Frontends
    PROVE  /\ StopInterrupted(u) \in Frontends /\ SameReports(u, StopInterrupted(u))
           /\ SameFlow(u, StopInterrupted(u)) /\ StopInterrupted(u).stop = "Interrupted"
           /\ StopInterrupted(u).phase = u.phase
           /\ StopInterrupted(u).summary = StopInterrupted(u).stats
BY DEF StopInterrupted, Frontends, SameReports, SameFlow

(* Taking a record, starting its preparation and submitting what is prepared.  *)
Taken(u, v) ==
    /\ v \in Frontends /\ SameReports(u, v) /\ v.snap = u.snap /\ v.phase = u.phase
    /\ u.summary \subseteq u.stats => v.summary \subseteq v.stats

LEMMA ConsumeFacts ==
    ASSUME Typed, FlowInv
    PROVE  /\ Taken(ui, Consume(ui))
           /\ ~(stdin.unseen \/ stdin.closed) => Consume(ui) = ui
           /\ stdin.closed =>
                Consume(ui).stop # "none" /\ Consume(ui).pending = ui.pending
                /\ Consume(ui).specs = ui.specs
           /\ stdin.unseen /\ ~stdin.closed =>
                /\ Consume(ui).specs = stdin.revision /\ Consume(ui).desired = None
                /\ Consume(ui).preparing = ui.preparing /\ Consume(ui).pending = ui.pending
                /\ SameEnd(ui, Consume(ui))
<1>0. ui \in Frontends /\ stdin.unseen \in BOOLEAN /\ stdin.closed \in BOOLEAN
      /\ (stdin.closed <=> stdin.stop # "none") /\ stdin.stop \in {"none", "Eof", "Fatal"}
      /\ stdin.revision \in Revisions /\ ui.snap.targets \in SUBSET Targets
  BY Constants DEF Typed, FlowInv, Frontends, Snapshots
<1>1. CASE ~(stdin.unseen \/ stdin.closed)
  BY <1>0, <1>1 DEF Consume, Taken, SameReports
<1>2. CASE stdin.closed
  <2>1. Consume(ui) = StopFor(ui, stdin.stop, ui.snap.targets)
    BY <1>0, <1>2 DEF Consume
  <2> QED BY <1>0, <1>2, <2>1, StopForFacts DEF Taken
<1>3. CASE stdin.unseen /\ ~stdin.closed
  <2>1. Consume(ui) = [ui EXCEPT !.specs = stdin.revision, !.desired = None, !.retry = None]
    BY <1>0, <1>3 DEF Consume
  <2>2. None \in Revisions /\ None \in Nat
    BY DEF Revisions, None
  <2> QED BY <1>0, <1>3, <2>1, <2>2 DEF Taken, Frontends, SameReports, SameEnd
<1> QED BY <1>1, <1>2, <1>3

LEMMA StartFacts ==
    ASSUME NEW u \in Frontends
    PROVE  /\ Taken(u, StartPreparing(u)) /\ SameEnd(u, StartPreparing(u))
           /\ StartPreparing(u).desired = u.desired /\ StartPreparing(u).pending = u.pending
           /\ u.stop # "none" => StartPreparing(u) = u
           /\ u.stop = "none" =>
                IF u.preparing # None THEN StartPreparing(u) = u
                ELSE StartPreparing(u).preparing = u.specs /\ StartPreparing(u).specs = None
BY ZenonT(40) DEF StartPreparing, Taken, Frontends, SameReports, SameEnd, Revisions, None

LEMMA SubmitFacts ==
    ASSUME NEW u \in Frontends
    PROVE  /\ Taken(u, Submit(u))
           /\ ~Submits(u) => Submit(u) = u
           /\ Submits(u) /\ driver.phase # "running" =>
                Submit(u).stop = "Fatal" /\ Submit(u).pending = u.pending
           /\ Submits(u) /\ driver.phase = "running" =>
                /\ Submit(u).pending = u.desired /\ Submit(u).desired = None
                /\ Submit(u).specs = u.specs /\ Submit(u).preparing = u.preparing
                /\ SameEnd(u, Submit(u))
<1>0. u.snap.targets \in SUBSET Targets /\ u.snap.version \in Nat
  BY DEF Frontends, Snapshots
<1>1. CASE ~Submits(u)
  BY <1>1 DEF Submit, Taken, SameReports
<1>2. CASE Submits(u) /\ driver.phase # "running"
  <2>1. Submit(u) = StopFor(u, "Fatal", u.snap.targets)
    BY <1>2 DEF Submit
  <2> QED BY <1>0, <1>2, <2>1, StopForFacts DEF Taken
<1>3. CASE Submits(u) /\ driver.phase = "running"
  <2>1. Submit(u) = [u EXCEPT !.pending = u.desired, !.desired = None, !.retry = u.snap.version]
    BY <1>3 DEF Submit
  <2>2. None \in Revisions
    BY DEF Revisions, None
  <2> QED BY <1>0, <1>3, <2>1, <2>2 DEF Taken, Frontends, SameReports, SameEnd
<1> QED BY <1>1, <1>2, <1>3

(* Fields of the driver that only the driver itself moves.                    *)
SameDriver(d, e) ==
    /\ e.phase = d.phase /\ e.live = d.live /\ e.peerClosed = d.peerClosed /\ e.good = d.good
SameCommand(d, e) == SameDriver(d, e) /\ e.command = d.command /\ e.ack = d.ack

LEMMA StoppedFacts ==
    ASSUME Typed
    PROVE  Stopped \in Drivers /\ SameCommand(driver, Stopped)
BY DEF Typed, Drivers, Stopped, SameCommand, SameDriver

(* One iteration of run_stdin_stream: the new record is taken, the next       *)
(* preparation started, and what is prepared submitted.                       *)
Passes(u, v) ==
    /\ v.desired = u.desired /\ v.pending = u.pending
    /\ IF u.preparing # None THEN v.preparing = u.preparing /\ v.specs = u.specs
       ELSE v.preparing = u.specs /\ v.specs = None
TakesRecord ==
    /\ stdin.unseen /\ newest' = stdin.revision /\ SameCommand(driver, driver')
    /\ \/ NoFlow(ui')
       \/ /\ ui'.desired = None /\ ui'.pending = ui.pending
          /\ IF ui.preparing # None
             THEN ui'.preparing = ui.preparing /\ ui'.specs = stdin.revision
             ELSE ui'.preparing = stdin.revision /\ ui'.specs = None
GoesOn ==
    /\ ~stdin.unseen /\ SameCommand(driver, driver')
    /\ newest' = IF ui.specs # None THEN ui.specs ELSE newest
    /\ NoFlow(ui') \/ Passes(ui, ui')
SubmitsCommand ==
    /\ ~stdin.unseen /\ ui.desired # None /\ ui.pending = None
    /\ newest' = IF ui.specs # None THEN ui.specs ELSE newest
    /\ SameDriver(driver, driver') /\ driver'.command = ui.desired /\ driver'.ack = "none"
    /\ \/ NoFlow(ui')
       \/ /\ ui'.desired = None /\ ui'.pending = ui.desired
          /\ IF ui.preparing # None THEN ui'.preparing = ui.preparing /\ ui'.specs = ui.specs
             ELSE ui'.preparing = ui.specs /\ ui'.specs = None
Decided ==
    /\ ui' \in Frontends /\ SameReports(ui, ui') /\ ui'.phase \in {"joining", "select"}
    /\ ui.summary \subseteq ui.stats => ui'.summary \subseteq ui'.stats
    /\ driver' \in Drivers /\ newest' \in Revisions
    /\ stdin' \in [revision : 0 .. setup.targets, stop : {"none", "Eof", "Fatal"},
                   unseen : BOOLEAN, closed : BOOLEAN]
    /\ stdin'.closed = stdin.closed /\ stdin'.stop = stdin.stop
    /\ stdin'.revision = stdin.revision
    /\ \/ ui'.stop # "none" /\ SameCommand(driver, driver')
       \/ /\ ui'.stop = "none" /\ ui.stop = "none" /\ ~stdin.closed /\ ~stdin'.unseen
          /\ TakesRecord \/ GoesOn \/ SubmitsCommand
    /\ UNCHANGED <<setup, shutdown, recent, status, events, writer, grace, reported>>

LEMMA DecideFacts ==
    ASSUME Typed, FlowInv, DecideStdin
    PROVE  Decided /\ ui.phase = "decide" /\ OnStdin
<1> DEFINE consumed == Consume(ui)
           started == StartPreparing(consumed)
           asked == Submit(started)
           base == IF ui.stop = "none" THEN asked ELSE ui
           settled == Reconcile(base, ui.snap.targets)
           submitted == asked.pending # ui.pending
<1>0. /\ ui \in Frontends /\ driver \in Drivers /\ ui.snap.targets \in SUBSET Targets
      /\ stdin \in [revision : 0 .. setup.targets, stop : {"none", "Eof", "Fatal"},
                    unseen : BOOLEAN, closed : BOOLEAN]
      /\ newest \in Revisions /\ stdin.revision \in Revisions
  BY Constants DEF Typed, Frontends, Snapshots
<1>1. /\ ui.phase = "decide" /\ OnStdin
      /\ UNCHANGED <<setup, shutdown, recent, status, events, writer, grace, reported>>
  BY DEF DecideStdin, At
<1>2. CASE shutdown
  <2>1. /\ ui' = LeaveLoop(StopInterrupted(ui)) /\ driver' = Stopped
        /\ UNCHANGED <<stdin, newest>>
    BY <1>2 DEF DecideStdin
  <2>2. /\ StopInterrupted(ui) \in Frontends /\ SameReports(ui, StopInterrupted(ui))
        /\ StopInterrupted(ui).stop = "Interrupted"
        /\ StopInterrupted(ui).summary = StopInterrupted(ui).stats
    BY <1>0, InterruptedFacts
  <2>3. /\ ui' \in Frontends /\ SameReports(ui, ui') /\ ui'.phase = "joining"
        /\ ui'.stop = "Interrupted" /\ ui'.summary = ui'.stats
    BY <2>1, <2>2, LeaveFacts DEF SameReports, SameEnd
  <2> QED BY <1>0, <1>1, <2>1, <2>3, StoppedFacts DEF Decided
<1>3. CASE ~shutdown
  <2>1. /\ ui' = IF ui.snap.final THEN LeaveLoop(settled) ELSE Goto(settled, "select")
        /\ driver' = IF settled.stop # "none" THEN Stopped
                     ELSE IF submitted
                          THEN [driver EXCEPT !.command = asked.pending, !.ack = "none"]
                          ELSE driver
        /\ stdin' = [stdin EXCEPT !.unseen = stdin.unseen /\ ui.stop # "none"]
        /\ newest' = IF consumed.specs # None THEN consumed.specs ELSE newest
    BY <1>3 DEF DecideStdin
  <2>2. Taken(ui, consumed)
    BY ConsumeFacts
  <2>3. Taken(consumed, started)
    BY <2>2, StartFacts DEF Taken
  <2>4. Taken(started, asked)
    BY <2>3, SubmitFacts DEF Taken
  <2>5. Taken(ui, asked)
    <3> HIDE DEF asked, started, consumed
    <3> QED BY <2>2, <2>3, <2>4 DEF Taken, SameReports
  <2>6. base \in Frontends /\ Taken(ui, base)
    BY <1>0, <2>5 DEF Taken, SameReports
  <2>7. /\ settled \in Frontends /\ SameReports(ui, settled) /\ SameFlow(base, settled)
        /\ settled.stop = base.stop
        /\ ui.summary \subseteq ui.stats => settled.summary \subseteq settled.stats
    <3> HIDE DEF base
    <3>1. /\ settled \in Frontends /\ SameReports(base, settled)
          /\ SameFlow(base, settled) /\ settled.stop = base.stop
          /\ settled.summary = base.summary
          /\ base.summary \subseteq base.stats => base.summary \subseteq settled.stats
      BY <1>0, <2>6, ReconcileFacts
    <3> QED BY <2>6, <3>1 DEF Taken, SameReports
  <2>8. /\ ui' \in Frontends /\ SameReports(ui, ui') /\ ui'.phase \in {"joining", "select"}
        /\ ui'.stop = base.stop
        /\ ui.summary \subseteq ui.stats => ui'.summary \subseteq ui'.stats
        /\ NoFlow(ui') \/ SameFlow(base, ui')
    <3> HIDE DEF settled, base
    <3>1. CASE ui.snap.final
      <4>1. ui' = LeaveLoop(settled)
        BY <2>1, <3>1
      <4> QED BY <2>7, <4>1, LeaveFacts DEF SameReports, SameEnd
    <3>2. CASE ~ui.snap.final
      <4>1. ui' = Goto(settled, "select")
        BY <2>1, <3>2
      <4> QED BY <2>7, <4>1, GotoFacts DEF SameReports, SameEnd, SameFlow, Loop
    <3> QED BY <3>1, <3>2
  <2>9. /\ stdin' \in [revision : 0 .. setup.targets, stop : {"none", "Eof", "Fatal"},
                       unseen : BOOLEAN, closed : BOOLEAN]
        /\ stdin'.closed = stdin.closed /\ stdin'.stop = stdin.stop
        /\ stdin'.revision = stdin.revision /\ (ui.stop = "none" => ~stdin'.unseen)
    BY <1>0, <2>1
  <2>10. newest' \in Revisions /\ consumed.specs \in Revisions
    BY <1>0, <2>1, <2>2 DEF Taken, Frontends
  <2>11. driver' \in Drivers
    <3>1. asked.pending \in Revisions
      BY <2>5 DEF Taken, Frontends
    <3> HIDE DEF asked, settled, submitted
    <3> QED BY <1>0, <2>1, <3>1, StoppedFacts DEF Drivers
  <2>12. \/ ui'.stop # "none" /\ SameCommand(driver, driver')
         \/ /\ ui'.stop = "none" /\ ui.stop = "none" /\ ~stdin.closed
            /\ TakesRecord \/ GoesOn \/ SubmitsCommand
    <3>0. /\ SameCommand(driver, Stopped) /\ SameCommand(driver, driver)
          /\ settled.stop = base.stop /\ ui'.stop = base.stop
      BY <2>7, <2>8, StoppedFacts DEF SameCommand, SameDriver
    <3>1. ASSUME base.stop # "none" PROVE ui'.stop # "none" /\ SameCommand(driver, driver')
      <4> HIDE DEF settled, base, submitted, asked
      <4> QED BY <2>1, <3>0, <3>1
    <3>2. ASSUME base.stop = "none", asked.pending = ui.pending
          PROVE  SameCommand(driver, driver')
      <4> HIDE DEF settled, base, asked
      <4> QED BY <2>1, <3>0, <3>2
    <3>3. CASE ui.stop # "none"
      <4>1. base.stop # "none"
        BY <3>3
      <4> QED BY <3>1, <4>1
    <3>4. CASE ui.stop = "none" /\ stdin.closed
      <4>1. consumed.stop # "none"
        BY <3>4, ConsumeFacts
      <4>2. started = consumed
        BY <2>2, <4>1, StartFacts DEF Taken
      <4>3. ~Submits(started)
        BY <4>1, <4>2 DEF Submits
      <4>4. asked = started
        BY <2>3, <4>3, SubmitFacts DEF Taken
      <4>5. base.stop # "none"
        BY <3>4, <4>1, <4>2, <4>4
      <4> QED BY <3>1, <4>5
    <3>5. CASE ui.stop = "none" /\ ~stdin.closed /\ stdin.unseen
      <4>1. /\ consumed.specs = stdin.revision /\ consumed.desired = None
            /\ consumed.preparing = ui.preparing /\ consumed.pending = ui.pending
            /\ consumed.stop = "none"
        BY <3>5, ConsumeFacts DEF SameEnd
      <4>2. /\ started.desired = None /\ started.pending = ui.pending /\ started.stop = "none"
            /\ IF ui.preparing # None
               THEN started.preparing = ui.preparing /\ started.specs = stdin.revision
               ELSE started.preparing = stdin.revision /\ started.specs = None
        <5> HIDE DEF consumed
        <5> QED BY <2>2, <4>1, StartFacts DEF Taken, SameEnd
      <4>3. asked = started
        <5> HIDE DEF started
        <5>1. ~Submits(started)
          BY <4>2 DEF Submits
        <5> QED BY <2>3, <5>1, SubmitFacts DEF Taken
      <4>4. base = started
        BY <3>5, <4>3
      <4>5. SameCommand(driver, driver')
        <5> HIDE DEF asked, started, base
        <5> QED BY <3>2, <4>2, <4>3, <4>4
      <4>6. newest' = stdin.revision
        <5>1. stdin.revision # None
          BY <1>0, <3>5 DEF FlowInv, Revisions, None, Targets
        <5> HIDE DEF consumed
        <5> QED BY <2>1, <4>1, <5>1
      <4>7. ui'.stop = "none" /\ TakesRecord
        <5> HIDE DEF started, base
        <5> QED BY <2>8, <3>5, <4>2, <4>4, <4>5, <4>6 DEF TakesRecord, SameFlow
      <4> QED BY <3>5, <4>7
    <3>6. CASE ui.stop = "none" /\ ~stdin.closed /\ ~stdin.unseen
      <4>1. consumed = ui
        BY <3>6, ConsumeFacts
      <4>2. newest' = IF ui.specs # None THEN ui.specs ELSE newest
        BY <2>1, <4>1
      <4>3. /\ started.desired = ui.desired /\ started.pending = ui.pending
            /\ started.stop = "none"
            /\ IF ui.preparing # None
               THEN started.preparing = ui.preparing /\ started.specs = ui.specs
               ELSE started.preparing = ui.specs /\ started.specs = None
        BY <1>0, <3>6, <4>1, StartFacts DEF SameEnd
      <4>4. base = asked
        BY <3>6
      <4>5. CASE ~Submits(started)
        <5> HIDE DEF started, base
        <5>1. asked = started
          BY <2>3, <4>5, SubmitFacts DEF Taken
        <5>2. SameCommand(driver, driver')
          <6> HIDE DEF asked
          <6> QED BY <3>2, <4>3, <4>4, <5>1
        <5>3. ui'.stop = "none" /\ GoesOn
          <6> HIDE DEF asked
          <6> QED BY <2>8, <3>6, <4>2, <4>3, <4>4, <5>1, <5>2 DEF GoesOn, SameFlow, Passes
        <5> QED BY <3>6, <5>3
      <4>6. CASE Submits(started) /\ driver.phase # "running"
        <5>1. asked.stop = "Fatal"
          BY <2>3, <4>6, SubmitFacts DEF Taken
        <5>2. base.stop # "none"
          BY <3>6, <5>1
        <5> QED BY <3>1, <5>2
      <4>7. CASE Submits(started) /\ driver.phase = "running"
        <5> HIDE DEF started, base
        <5>1. /\ asked.pending = ui.desired /\ asked.desired = None /\ asked.stop = "none"
              /\ asked.specs = started.specs /\ asked.preparing = started.preparing
          BY <2>3, <4>3, <4>7, SubmitFacts DEF Taken, SameEnd
        <5>2. ui.desired # None /\ ui.pending = None
          BY <4>3, <4>7 DEF Submits
        <5> HIDE DEF asked, settled
        <5>3. /\ driver' = [driver EXCEPT !.command = asked.pending, !.ack = "none"]
              /\ ui'.stop = "none"
          BY <2>1, <2>8, <3>0, <4>4, <5>1, <5>2
        <5>4. /\ SameDriver(driver, driver') /\ driver'.command = ui.desired
              /\ driver'.ack = "none"
          BY <1>0, <5>1, <5>3 DEF Drivers, SameDriver
        <5>5. SubmitsCommand
          BY <2>8, <3>6, <4>2, <4>3, <4>4, <5>1, <5>2, <5>4 DEF SubmitsCommand, SameFlow
        <5> QED BY <3>6, <5>3, <5>5
      <4> QED BY <4>5, <4>6, <4>7
    <3> QED BY <1>0, <3>3, <3>4, <3>5, <3>6
  <2> QED BY <1>1, <2>8, <2>9, <2>10, <2>11, <2>12 DEF Decided
<1> QED BY <1>1, <1>2, <1>3

(***************************************************************************)
(* Ends told once                                                           *)
(***************************************************************************)

(* Every end queued in r was queued in q, k places further back.              *)
Shifted(q, r, k) ==
    \A i \in DOMAIN r : r[i].kind = "finished" => i + k \in DOMAIN q /\ r[i] = q[i + k]

LEMMA ShiftedWaits ==
    ASSUME NEW q, NEW r, NEW k \in Nat, Shifted(q, r, k), NEW t, Waits(r, t)
    PROVE  Waits(q, t)
BY DEF Shifted, Waits

(* Publishing anything but an end.                                            *)
LEMMA PublishShifts ==
    ASSUME Typed, NEW e \in Happenings, e.kind # "finished", Publish(<<e>>)
    PROVE  \E k \in Nat : Shifted(events.queue, events'.queue, k)
<1> DEFINE q == events.queue  r == events'.queue
<1>1. <<e>> \in Seq(Happenings) /\ Len(<<e>>) = 1 /\ <<e>>[1] = e
  OBVIOUS
<1>2. PICK k \in Nat : Kept(q, <<e>>, r, k)
  BY <1>1, PublishFacts
<1>3. /\ q \in Seq(Happenings) /\ DOMAIN q = 1 .. Len(q) /\ Len(q) \in Nat
      /\ r \in Seq(Happenings) /\ DOMAIN r = 1 .. Len(r) /\ Len(r) \in Nat
  BY <1>1, PublishFacts, LenProperties DEF Typed
<1> HIDE DEF q, r
<1>4. ASSUME NEW i \in DOMAIN r, r[i].kind = "finished"
      PROVE  i + k \in DOMAIN q /\ r[i] = q[i + k]
  <2>1. r[i] = Joined(q, <<e>>, i + k) /\ i + k <= Len(q) + 1 /\ i + k >= 1 /\ i + k \in Nat
    BY <1>1, <1>2, <1>3 DEF Kept
  <2>2. CASE i + k <= Len(q)
    BY <1>3, <2>1, <2>2 DEF Joined
  <2>3. CASE i + k = Len(q) + 1
    <3>1. r[i] = <<e>>[1]
      BY <1>3, <2>1, <2>3 DEF Joined
    <3> QED BY <1>1, <1>4, <3>1
  <2> QED BY <1>3, <2>1, <2>2, <2>3
<1> QED BY <1>4 DEF Shifted, q, r

LEMMA TailShifts ==
    ASSUME NEW q \in Seq(Happenings), q # <<>>
    PROVE  Shifted(q, Tail(q), 1)
BY HeadTailProperties, LenProperties DEF Shifted

LEMMA SameShifts ==
    ASSUME NEW q \in Seq(Happenings)
    PROVE  Shifted(q, q, 0)
BY LenProperties DEF Shifted

(* Steps that report nothing and end no target.                               *)
OnceStep ==
    /\ recent' = recent /\ ui'.terminal = ui.terminal /\ reported' = reported /\ setup' = setup
    /\ ui'.phase \notin Settled =>
         /\ ui.phase \notin Settled
         /\ \E k \in Nat : Shifted(events.queue, events'.queue, k)
         /\ \A t \in driver'.live : t \in driver.live \/ ~Ended(t)
    /\ ui'.phase = "report" => ui.phase = "report" /\ ui'.rest = ui.rest
    /\ ui'.phase = "summaries" => ui.phase = "summaries"

LEMMA OnceKept ==
    ASSUME Typed, Typed', OnceInv, OnceStep
    PROVE  OnceInv'
<1>0. OutcomeLimit' = OutcomeLimit
  BY DEF OnceStep, OutcomeLimit, OnStdin
<1>1. ASSUME ui'.phase \notin Settled PROVE ReportedFirst' /\ Remembered'
  <2>1. ui.phase \notin Settled /\ ReportedFirst /\ Remembered
        /\ \A t \in driver'.live : t \in driver.live \/ ~Ended(t)
    BY <1>1 DEF OnceStep, OnceInv
  <2>2. PICK k \in Nat : Shifted(events.queue, events'.queue, k)
    BY <1>1 DEF OnceStep
  <2>3. recent' = recent
    BY DEF OnceStep
  <2>4. \A t : Waits(events'.queue, t) => Waits(events.queue, t)
    BY <2>2, ShiftedWaits
  <2>5. \A t : Ended(t)' => Ended(t)
    BY <2>4 DEF OnceStep, Ended, Within
  <2>6. \A t \in driver'.live : ~Ended(t)'
    BY <2>1, <2>5 DEF ReportedFirst
  <2>7. \A i, j \in DOMAIN ui'.terminal : i < j => Precedes(recent', ui'.terminal[i], ui'.terminal[j])
    BY <2>1, <2>3 DEF OnceStep, ReportedFirst
  <2>8. ASSUME NEW i \in DOMAIN ui'.terminal, NEW j \in DOMAIN events'.queue,
               events'.queue[j].kind = "finished"
        PROVE  Precedes(recent', ui'.terminal[i], events'.queue[j].target)
    BY <2>1, <2>2, <2>3, <2>8 DEF OnceStep, ReportedFirst, Shifted
  <2>9. ASSUME NEW i \in DOMAIN events'.queue, NEW j \in DOMAIN events'.queue, i < j,
               events'.queue[i].kind = "finished", events'.queue[j].kind = "finished"
        PROVE  /\ events'.queue[i].target # events'.queue[j].target
               /\ Precedes(recent', events'.queue[i].target, events'.queue[j].target)
    <3>1. /\ i + k \in DOMAIN events.queue /\ j + k \in DOMAIN events.queue
          /\ events'.queue[i] = events.queue[i + k] /\ events'.queue[j] = events.queue[j + k]
      BY <2>2, <2>9 DEF Shifted
    <3>2. i \in Int /\ j \in Int
      BY LenProperties DEF Typed
    <3>3. i + k < j + k
      BY <2>9, <3>2
    <3> QED BY <2>1, <2>3, <2>9, <3>1, <3>3 DEF ReportedFirst
  <2>10. \A t \in Targets : Waits(events'.queue, t) => reported'[t] = 0
    BY <2>1, <2>4 DEF OnceStep, ReportedFirst
  <2>11. Remembered'
    BY <2>1 DEF OnceStep, Remembered, Within
  <2> QED BY <2>6, <2>7, <2>8, <2>9, <2>10, <2>11 DEF ReportedFirst
<1>2. ASSUME ui'.phase = "report"
      PROVE  /\ Remembered' /\ DropsOldest'
             /\ \A t \in Targets : Within(ui'.rest, t) => Within(recent', t)
             /\ \A t \in Targets : Within(recent', t) => reported'[t] = 1 \/ Within(ui'.rest, t)
  BY <1>2 DEF OnceStep, OnceInv, Remembered, DropsOldest, Within
<1>3. ASSUME ui'.phase = "summaries"
      PROVE  \A t \in Targets : Within(recent', t) => reported'[t] = 1
  BY <1>3 DEF OnceStep, OnceInv, Within
<1>4. /\ Len(recent') <= OutcomeLimit' /\ Len(ui'.terminal) <= OutcomeLimit'
      /\ \A t \in Targets : reported'[t] <= 1 /\ (Within(ui'.terminal, t) => reported'[t] = 1)
      /\ \A i, j \in DOMAIN ui'.terminal : i < j => ui'.terminal[i] # ui'.terminal[j]
  BY <1>0 DEF OnceStep, OnceInv
<1> QED BY <1>1, <1>2, <1>3, <1>4, Zenon DEF OnceInv

(* A bounded list takes t and drops its oldest d elements.                    *)
Slid(s, r, t, d) ==
    /\ d \in {0, 1} /\ d <= Len(s)
    /\ Len(r) = Len(s) - d + 1 /\ r[Len(r)] = t
    /\ \A i \in 1 .. Len(s) - d : r[i] = s[i + d]

LEMMA Slides ==
    ASSUME NEW s \in Seq(Targets), NEW t \in Targets, NEW limit \in Nat, limit > 0,
           Len(s) <= limit
    PROVE  LET r == Append(IF Len(s) = limit THEN Tail(s) ELSE s, t)
           IN /\ r \in Seq(Targets) /\ Len(r) <= limit
              /\ \E d \in {0, 1} : Slid(s, r, t, d) /\ (d = 1 <=> Len(s) = limit)
<1>1. CASE Len(s) = limit
  <2>1. s # <<>>
    BY <1>1
  <2>2. /\ Tail(s) \in Seq(Targets) /\ Len(Tail(s)) = Len(s) - 1
        /\ \A i \in 1 .. Len(Tail(s)) : Tail(s)[i] = s[i + 1]
    BY <2>1, HeadTailProperties
  <2> DEFINE r == Append(Tail(s), t)
  <2>3. /\ r \in Seq(Targets) /\ Len(r) = Len(s) - 1 + 1 /\ r[Len(r)] = t
        /\ \A i \in 1 .. Len(s) - 1 : r[i] = s[i + 1]
    BY <2>2, AppendProperties
  <2>4. Slid(s, r, t, 1)
    BY <1>1, <2>3 DEF Slid
  <2> QED BY <1>1, <2>3, <2>4
<1>2. CASE Len(s) # limit
  <2> DEFINE r == Append(s, t)
  <2>1. /\ r \in Seq(Targets) /\ Len(r) = Len(s) + 1 /\ r[Len(r)] = t
        /\ \A i \in 1 .. Len(s) : r[i] = s[i]
    BY AppendProperties
  <2>2. Slid(s, r, t, 0)
    BY <2>1, LenProperties DEF Slid
  <2> QED BY <1>2, <2>1, <2>2, LenProperties
<1> QED BY <1>1, <1>2

LEMMA SlidFacts ==
    ASSUME NEW s \in Seq(Targets), NEW r \in Seq(Targets), NEW t \in Targets, NEW d,
           Slid(s, r, t, d)
    PROVE  /\ DOMAIN s = 1 .. Len(s) /\ Len(s) \in Nat
           /\ DOMAIN r = 1 .. Len(s) - d + 1 /\ Len(r) \in Nat /\ r[Len(s) - d + 1] = t
           /\ \A i \in DOMAIN r : i = Len(s) - d + 1 \/ (i + d \in DOMAIN s /\ r[i] = s[i + d])
           /\ \A x : Within(r, x) => x = t \/ Within(s, x)
           /\ Within(r, t)
           /\ \A i \in DOMAIN s : i > d => i - d \in DOMAIN r /\ r[i - d] = s[i]
<1>1. /\ DOMAIN s = 1 .. Len(s) /\ Len(s) \in Nat /\ DOMAIN r = 1 .. Len(r) /\ Len(r) \in Nat
      /\ d \in {0, 1} /\ d <= Len(s)
  BY LenProperties DEF Slid
<1>2. /\ Len(r) = Len(s) - d + 1 /\ r[Len(s) - d + 1] = t
      /\ \A i \in 1 .. Len(s) - d : r[i] = s[i + d]
  BY DEF Slid
<1>3. \A i \in DOMAIN r : i = Len(s) - d + 1 \/ (i + d \in DOMAIN s /\ r[i] = s[i + d])
  BY <1>1, <1>2
<1>4. \A x : Within(r, x) => x = t \/ Within(s, x)
  BY <1>2, <1>3 DEF Within
<1>5. Within(r, t)
  <2>1. Len(s) - d + 1 \in DOMAIN r
    BY <1>1, <1>2
  <2> QED BY <1>2, <2>1 DEF Within
<1>6. ASSUME NEW i \in DOMAIN s, i > d PROVE i - d \in DOMAIN r /\ r[i - d] = s[i]
  <2>1. i - d \in 1 .. Len(s) - d /\ i - d + d = i
    BY <1>1, <1>6
  <2>2. r[i - d] = s[i - d + d]
    BY <1>2, <2>1
  <2> QED BY <1>1, <1>2, <2>1, <2>2
<1> QED BY <1>1, <1>2, <1>3, <1>4, <1>5, <1>6

(* The history goes on: what came before t still does, and t comes last.      *)
LEMMA SlidPrecedes ==
    ASSUME NEW s \in Seq(Targets), NEW r \in Seq(Targets), NEW t \in Targets, NEW d,
           Slid(s, r, t, d), NEW a, a # t
    PROVE  /\ \A b : Precedes(s, a, b) => Precedes(r, a, b)
           /\ Precedes(r, a, t)
<1>0. /\ DOMAIN s = 1 .. Len(s) /\ Len(s) \in Nat /\ DOMAIN r = 1 .. Len(s) - d + 1
      /\ r[Len(s) - d + 1] = t /\ d \in {0, 1}
      /\ \A i \in DOMAIN r : i = Len(s) - d + 1 \/ (i + d \in DOMAIN s /\ r[i] = s[i + d])
      /\ \A i \in DOMAIN s : i > d => i - d \in DOMAIN r /\ r[i - d] = s[i]
  <2>1. d \in {0, 1}
    BY DEF Slid
  <2> QED BY <2>1, SlidFacts
<1>1. ASSUME NEW b, Precedes(s, a, b), NEW k \in DOMAIN r, r[k] = a
      PROVE  \E m \in DOMAIN r : m > k /\ r[m] = b
  <2>1. k + d \in DOMAIN s /\ s[k + d] = a /\ k \in Int
    BY <1>0, <1>1
  <2>2. PICK m \in DOMAIN s : m > k + d /\ s[m] = b
    BY <1>1, <2>1 DEF Precedes
  <2>3. m > d /\ m - d > k
    BY <1>0, <2>1, <2>2
  <2>4. m - d \in DOMAIN r /\ r[m - d] = b
    BY <1>0, <2>2, <2>3
  <2> QED BY <2>3, <2>4
<1>2. ASSUME NEW k \in DOMAIN r, r[k] = a
      PROVE  \E m \in DOMAIN r : m > k /\ r[m] = t
  <2>1. Len(s) - d + 1 \in DOMAIN r /\ k < Len(s) - d + 1
    BY <1>0, <1>2
  <2> QED BY <1>0, <2>1
<1> QED BY <1>1, <1>2 DEF Precedes

(* The end of t is queued last.                                                *)
Extended(q, r, t, k) ==
    \A i \in DOMAIN r : r[i].kind = "finished" =>
        \/ i + k \in DOMAIN q /\ r[i] = q[i + k]
        \/ i = Len(r) /\ r[i].target = t

LEMMA FinishQueues ==
    ASSUME Typed, NEW t \in Targets, Publish(<<Event("state", t), Event("finished", t)>>)
    PROVE  \E k \in Nat : Extended(events.queue, events'.queue, t, k)
<1> DEFINE q == events.queue  r == events'.queue
           p == <<Event("state", t), Event("finished", t)>>
<1>1. p \in Seq(Happenings) /\ Len(p) = 2 /\ p[1] = Event("state", t) /\ p[2] = Event("finished", t)
  BY EventTyped
<1>2. PICK k \in Nat : Kept(q, p, r, k)
  BY <1>1, PublishFacts
<1>3. /\ q \in Seq(Happenings) /\ DOMAIN q = 1 .. Len(q) /\ Len(q) \in Nat
      /\ r \in Seq(Happenings) /\ DOMAIN r = 1 .. Len(r) /\ Len(r) \in Nat
  BY <1>1, PublishFacts, LenProperties DEF Typed
<1> HIDE DEF p, q, r
<1>4. ASSUME NEW i \in DOMAIN r, r[i].kind = "finished"
      PROVE  \/ i + k \in DOMAIN q /\ r[i] = q[i + k]
             \/ i = Len(r) /\ r[i].target = t
  <2>1. r[i] = Joined(q, p, i + k) /\ i + k >= 1 /\ i + k \in Nat
        /\ i + k <= Len(q) + 2 /\ Len(r) = Len(q) + 2 - k
    BY <1>1, <1>2, <1>3 DEF Kept
  <2>2. CASE i + k <= Len(q)
    <3>1. i + k \in DOMAIN q
      BY <1>3, <2>1, <2>2
    <3>2. r[i] = q[i + k]
      BY <2>1, <2>2, Zenon DEF Joined
    <3> QED BY <3>1, <3>2
  <2>3. CASE i + k = Len(q) + 1
    <3>1. r[i] = p[1]
      BY <1>3, <2>1, <2>3 DEF Joined
    <3>2. r[i].kind = "state"
      BY <1>1, <3>1 DEF Event
    <3> QED BY <1>4, <3>2
  <2>4. CASE i + k = Len(q) + 2
    <3>1. r[i] = p[2] /\ i = Len(r)
      BY <1>3, <2>1, <2>4 DEF Joined
    <3>2. r[i].target = t
      BY <1>1, <3>1 DEF Event
    <3> QED BY <3>1, <3>2
  <2>5. i + k <= Len(q) \/ i + k = Len(q) + 1 \/ i + k = Len(q) + 2
    BY <1>3, <2>1
  <2> QED BY <2>2, <2>3, <2>4, <2>5
<1> QED BY <1>4 DEF Extended, q, r

(* A target ends for the first time: its end is news, and the last in order.  *)
LEMMA FinishKeepsOnce ==
    ASSUME Typed, Typed', OnceInv, EndInv, NEW t \in Targets, NEW why, TargetFinishes(t, why)
    PROVE  OnceInv'
<1>0. /\ t \in driver.live /\ Drives /\ recent' = RecordOutcome(t, OutcomeLimit)
      /\ Publish(<<Event("state", t), Event("finished", t)>>)
      /\ UNCHANGED <<setup, ui, reported>> /\ recent \in Seq(Targets)
      /\ driver \in Drivers /\ driver'.live = driver.live \ {t}
      /\ events.queue \in Seq(Happenings) /\ events'.queue \in Seq(Happenings)
  BY DEF TargetFinishes, Typed, Drivers
<1>1. OutcomeLimit' = OutcomeLimit /\ OutcomeLimit \in Nat /\ OutcomeLimit > 0
  BY <1>0, LimitPositive DEF OutcomeLimit, OnStdin, Typed
<1>2. Len(recent) <= OutcomeLimit
  BY DEF OnceInv
<1>3. /\ recent' \in Seq(Targets) /\ Len(recent') <= OutcomeLimit
      /\ \E d \in {0, 1} : Slid(recent, recent', t, d)
  BY <1>0, <1>1, <1>2, Slides DEF RecordOutcome
<1>4. PICK d \in {0, 1} : Slid(recent, recent', t, d)
  BY <1>3
<1>5. PICK k \in Nat : Extended(events.queue, events'.queue, t, k)
  BY <1>0, FinishQueues
<1>6. ui.phase \notin {"report", "summaries"}
  BY <1>0 DEF EndInv, Drives
<1>7. ASSUME ui.phase \notin Settled PROVE ReportedFirst' /\ Remembered'
  <2>1. ReportedFirst /\ Remembered /\ ~Ended(t)
    BY <1>0, <1>7 DEF OnceInv, ReportedFirst
  <2>2. \A a, b : a # t /\ Precedes(recent, a, b) => Precedes(recent', a, b)
    BY <1>0, <1>3, <1>4, SlidPrecedes
  <2>3. \A a : a # t => Precedes(recent', a, t)
    BY <1>0, <1>3, <1>4, SlidPrecedes
  <2>4. \A i \in DOMAIN ui.terminal : ui.terminal[i] # t
    BY <2>1 DEF Ended, Within
  <2>5. \A i \in DOMAIN events.queue :
           events.queue[i].kind = "finished" => events.queue[i].target # t
    BY <2>1 DEF Ended, Waits
  <2>6. \A x : Within(recent', x) => x = t \/ Within(recent, x)
    BY <1>0, <1>3, <1>4, SlidFacts
  <2>7. \A x : Waits(events'.queue, x) => x = t \/ Waits(events.queue, x)
    BY <1>5 DEF Waits, Extended
  <2>8. \A x \in Targets : Ended(x)' => x = t \/ Ended(x)
    BY <1>0, <2>6, <2>7 DEF Ended
  <2>9. \A x \in driver'.live : ~Ended(x)'
    BY <1>0, <2>1, <2>8 DEF ReportedFirst, Drivers
  <2>10. \A i, j \in DOMAIN ui'.terminal :
            i < j => Precedes(recent', ui'.terminal[i], ui'.terminal[j])
    BY <1>0, <2>1, <2>2, <2>4 DEF ReportedFirst
  <2>11. ASSUME NEW i \in DOMAIN ui'.terminal, NEW j \in DOMAIN events'.queue,
                events'.queue[j].kind = "finished"
         PROVE  Precedes(recent', ui'.terminal[i], events'.queue[j].target)
    <3>1. CASE j + k \in DOMAIN events.queue /\ events'.queue[j] = events.queue[j + k]
      BY <1>0, <2>1, <2>2, <2>4, <2>11, <3>1 DEF ReportedFirst
    <3>2. CASE events'.queue[j].target = t
      BY <1>0, <2>3, <2>4, <3>2
    <3> QED BY <1>5, <2>11, <3>1, <3>2 DEF Extended
  <2>12. ASSUME NEW i \in DOMAIN events'.queue, NEW j \in DOMAIN events'.queue, i < j,
                events'.queue[i].kind = "finished", events'.queue[j].kind = "finished"
         PROVE  /\ events'.queue[i].target # events'.queue[j].target
                /\ Precedes(recent', events'.queue[i].target, events'.queue[j].target)
    <3>0. i \in Int /\ j \in Int /\ j <= Len(events'.queue) /\ i + k < j + k /\ i # Len(events'.queue)
      BY <1>0, <2>12, LenProperties
    <3>1. i + k \in DOMAIN events.queue /\ events'.queue[i] = events.queue[i + k]
      BY <1>5, <2>12, <3>0 DEF Extended
    <3>2. events'.queue[i].target # t
      BY <2>5, <2>12, <3>1
    <3>3. CASE j + k \in DOMAIN events.queue /\ events'.queue[j] = events.queue[j + k]
      BY <2>1, <2>2, <2>12, <3>0, <3>1, <3>2, <3>3 DEF ReportedFirst
    <3>4. CASE events'.queue[j].target = t
      BY <2>3, <3>2, <3>4
    <3> QED BY <1>5, <2>12, <3>3, <3>4 DEF Extended
  <2>13. \A x \in Targets : Waits(events'.queue, x) => reported'[x] = 0
    BY <1>0, <2>1, <2>7 DEF ReportedFirst, Ended
  <2>14. Remembered'
    BY <1>0, <2>1, <2>6 DEF Remembered, Ended
  <2> QED BY <2>9, <2>10, <2>11, <2>12, <2>13, <2>14 DEF ReportedFirst
<1>8. /\ Len(recent') <= OutcomeLimit' /\ Len(ui'.terminal) <= OutcomeLimit'
      /\ \A x \in Targets : reported'[x] <= 1 /\ (Within(ui'.terminal, x) => reported'[x] = 1)
      /\ \A i, j \in DOMAIN ui'.terminal : i < j => ui'.terminal[i] # ui'.terminal[j]
  BY <1>0, <1>1, <1>3 DEF OnceInv
<1>9. ui' = ui
  BY <1>0
<1> QED BY <1>6, <1>7, <1>8, <1>9, Zenon DEF OnceInv

(* A list without duplicates is not longer than one that holds its elements.  *)
LEMMA NoLonger ==
    ASSUME NEW s \in Seq(Targets), NEW r \in Seq(Targets),
           \A i, j \in DOMAIN s : i < j => s[i] # s[j],
           \A i \in DOMAIN s : Within(r, s[i])
    PROVE  Len(s) <= Len(r)
<1>0. /\ Len(s) \in Nat /\ Len(r) \in Nat /\ DOMAIN s = 1 .. Len(s) /\ DOMAIN r = 1 .. Len(r)
  BY LenProperties
<1> DEFINE f == [i \in 1 .. Len(s) |-> CHOOSE k \in DOMAIN r : r[k] = s[i]]
<1>1. \A i \in 1 .. Len(s) : f[i] \in 1 .. Len(r) /\ r[f[i]] = s[i]
  BY <1>0 DEF Within
<1>2. ASSUME NEW i \in 1 .. Len(s), NEW j \in 1 .. Len(s), f[i] = f[j] PROVE i = j
  <2>1. s[i] = s[j]
    BY <1>1, <1>2
  <2>2. i \in Int /\ j \in Int
    OBVIOUS
  <2> QED BY <1>0, <2>1, <2>2
<1>3. f \in Injection(1 .. Len(s), 1 .. Len(r))
  <2> HIDE DEF f
  <2>1. f \in [1 .. Len(s) -> 1 .. Len(r)]
    <3>1. f = [i \in 1 .. Len(s) |-> f[i]]
      BY DEF f
    <3> QED BY <1>1, <3>1
  <2> QED BY <1>2, <2>1 DEF Injection, IsInjective
<1>4. /\ IsFiniteSet(1 .. Len(r)) /\ Cardinality(1 .. Len(r)) = Len(r)
      /\ Cardinality(1 .. Len(s)) = Len(s)
  <2>1. \A n \in Nat : IsFiniteSet(1 .. n) /\ Cardinality(1 .. n) = n
    <3> TAKE n \in Nat
    <3>1. IsFiniteSet(1 .. n) /\ Cardinality(1 .. n) = IF 1 > n THEN 0 ELSE n - 1 + 1
      BY FS_Interval
    <3> QED BY <3>1
  <2> QED BY <1>0, <2>1
<1>5. Cardinality(1 .. Len(s)) <= Cardinality(1 .. Len(r))
  <2> HIDE DEF f
  <2> QED BY <1>3, <1>4, FS_Injection
<1> QED BY <1>4, <1>5

(* The set of those reported takes y, and forgets none the history still has. *)
LEMMA InsertKeeps ==
    ASSUME Typed, OnceInv, NEW y \in Targets, ~Within(ui.terminal, y),
           NEW r, r = Insert(ui.terminal, y),
           NEW x0, DOMAIN ui.terminal # {} => x0 = ui.terminal[1],
           Within(recent, x0) /\ DOMAIN ui.terminal # {} =>
             Within(recent, y) /\ \A i \in DOMAIN ui.terminal : Within(recent, ui.terminal[i])
    PROVE  /\ r \in Seq(Targets) /\ Len(r) <= OutcomeLimit
           /\ \E d \in {0, 1} : Slid(ui.terminal, r, y, d)
           /\ \A i, j \in DOMAIN r : i < j => r[i] # r[j]
           /\ Within(r, y) /\ \A t : Within(r, t) => t = y \/ Within(ui.terminal, t)
           /\ \A t : Within(recent, t) /\ Within(ui.terminal, t) => Within(r, t)
<1> DEFINE s == ui.terminal
<1>0. /\ s \in Seq(Targets) /\ OutcomeLimit \in Nat /\ OutcomeLimit > 0 /\ Len(s) <= OutcomeLimit
      /\ recent \in Seq(Targets) /\ Len(recent) <= OutcomeLimit
      /\ \A i, j \in DOMAIN s : i < j => s[i] # s[j]
      /\ Len(s) \in Nat /\ DOMAIN s = 1 .. Len(s) /\ Len(recent) \in Nat
  BY LimitPositive, LenProperties DEF Typed, OnceInv, Frontends
<1>1. r \in Seq(Targets) /\ Len(r) <= OutcomeLimit
      /\ \E d \in {0, 1} : Slid(s, r, y, d) /\ (d = 1 <=> Len(s) = OutcomeLimit)
  BY <1>0, Slides DEF Insert
<1>2. PICK d \in {0, 1} : Slid(s, r, y, d) /\ (d = 1 <=> Len(s) = OutcomeLimit)
  BY <1>1
<1> HIDE DEF s
<1>3. /\ DOMAIN r = 1 .. Len(s) - d + 1 /\ r[Len(s) - d + 1] = y
      /\ \A i \in DOMAIN r : i = Len(s) - d + 1 \/ (i + d \in DOMAIN s /\ r[i] = s[i + d])
      /\ \A t : Within(r, t) => t = y \/ Within(s, t)
      /\ Within(r, y)
      /\ \A i \in DOMAIN s : i > d => i - d \in DOMAIN r /\ r[i - d] = s[i]
  <2>1. s \in Seq(Targets) /\ r \in Seq(Targets) /\ Slid(s, r, y, d)
    BY <1>0, <1>1, <1>2
  <2> QED BY ONLY y \in Targets, <2>1, SlidFacts, SMTT(30)
<1>4. ASSUME NEW i \in DOMAIN r, NEW j \in DOMAIN r, i < j PROVE r[i] # r[j]
  <2>1. i + d \in DOMAIN s /\ r[i] = s[i + d] /\ i + d < j + d
    BY <1>0, <1>3, <1>4
  <2>2. CASE j = Len(s) - d + 1
    BY <1>3, <2>1, <2>2 DEF Within, s
  <2>3. CASE j + d \in DOMAIN s /\ r[j] = s[j + d]
    BY <1>0, <2>1, <2>3
  <2> QED BY <1>3, <2>2, <2>3
<1>5. ASSUME NEW t, Within(recent, t), Within(s, t) PROVE Within(r, t)
  <2>1. PICK i \in DOMAIN s : s[i] = t
    BY <1>5 DEF Within
  <2>2. CASE i > d
    BY <1>3, <2>1, <2>2 DEF Within
  <2>3. CASE ~(i > d)
    <3>1. i = 1 /\ Len(s) = OutcomeLimit /\ DOMAIN s # {}
      <4>1. i \in 1 .. Len(s) /\ d \in {0, 1}
        BY <1>0, <2>1
      <4>2. d = 1 /\ i = 1
        BY <2>3, <4>1
      <4> QED BY <1>2, <2>1, <4>2
    <3>2. /\ Within(recent, y) /\ \A n \in DOMAIN s : Within(recent, s[n])
      BY <1>5, <2>1, <3>1 DEF s
    <3> DEFINE a == Append(s, y)
    <3>3. /\ a \in Seq(Targets) /\ Len(a) = Len(s) + 1 /\ DOMAIN a = 1 .. Len(s) + 1
          /\ a[Len(s) + 1] = y /\ \A n \in 1 .. Len(s) : a[n] = s[n]
      BY <1>0, AppendProperties, LenProperties
    <3> HIDE DEF a
    <3>4. \A n \in DOMAIN a : Within(recent, a[n])
      BY <1>0, <3>2, <3>3
    <3>5. \A n, m \in DOMAIN a : n < m => a[n] # a[m]
      <4>1. \A n \in DOMAIN s : s[n] # y
        BY DEF Within, s
      <4> QED BY <1>0, <3>3, <4>1
    <3>6. Len(a) <= Len(recent)
      BY <1>0, <3>3, <3>4, <3>5, NoLonger
    <3> QED BY <1>0, <3>1, <3>3, <3>6
  <2> QED BY <2>2, <2>3
<1> QED BY <1>1, <1>2, <1>3, <1>4, <1>5 DEF s

(* One event is handled: an end that is news is reported, or nothing is.      *)
Told(t) ==
    /\ ui'.terminal = Insert(ui.terminal, t)
    /\ reported' = [reported EXCEPT ![t] = reported[t] + 1]
NotTold == ui'.terminal = ui.terminal /\ reported' = reported

LEMMA HandleFacts ==
    ASSUME Typed, NEW e \in Happenings, NEW next \in {"top", "draining"},
           NEW kept \in SUBSET Targets, Handle(e, next, kept)
    PROVE  /\ ui' \in Frontends /\ ui'.phase \in {next, "sending"} /\ ui'.after = next
           /\ SameFlow(ui, ui') /\ ui'.stop = ui.stop /\ ui'.summary = ui.summary
           /\ ui'.snap = ui.snap /\ ui'.rest = ui.rest /\ ui'.failed = ui.failed
           /\ ui.summary \subseteq ui.stats /\ ui.summary \subseteq kept =>
                ui'.summary \subseteq ui'.stats
           /\ reported' \in [Targets -> Nat]
           /\ NotTold \/ (e.kind = "finished" /\ Told(e.target))
<1> DEFINE fresh == IF OnStdin THEN StdinReports(e) ELSE FixedReports(e)
           collected == ui.stats \cup (IF e.kind \in {"state", "client"} THEN {e.target} ELSE {})
           list == IF fresh THEN Insert(ui.terminal, e.target) ELSE ui.terminal
<1>1. /\ ui' = [ui EXCEPT !.phase = IF e.kind = "client" THEN "sending" ELSE next,
                          !.after = next, !.stats = collected \cap kept, !.terminal = list]
      /\ reported' = IF fresh THEN [reported EXCEPT ![e.target] = reported[e.target] + 1]
                     ELSE reported
  BY DEF Handle
<1>2. fresh => e.kind = "finished"
  BY DEF StdinReports, FixedReports
<1>3. e.kind \in {"state", "client", "finished"} => e.target \in Targets
  BY DEF Happenings
<1>4. ui \in Frontends /\ reported \in [Targets -> Nat]
  BY DEF Typed
<1>5. collected \cap kept \in SUBSET Targets
  OBVIOUS
<1>6. list \in Seq(Targets)
  BY <1>2, <1>3, <1>4, InsertTyped DEF Frontends
<1>7. reported' \in [Targets -> Nat]
  <2> HIDE DEF fresh
  <2> QED BY <1>1, <1>2, <1>3, <1>4
<1>8. ui.summary \subseteq ui.stats => ui.summary \subseteq collected
  OBVIOUS
<1> HIDE DEF fresh, collected, list
<1>9. /\ ui' \in Frontends /\ ui'.phase \in {next, "sending"} /\ ui'.after = next
      /\ ui'.stats = collected \cap kept /\ ui'.terminal = list
      /\ SameFlow(ui, ui') /\ ui'.stop = ui.stop /\ ui'.summary = ui.summary
      /\ ui'.snap = ui.snap /\ ui'.rest = ui.rest /\ ui'.failed = ui.failed
  BY <1>1, <1>4, <1>5, <1>6 DEF Frontends, SameFlow, Loop
<1>10. NotTold \/ (e.kind = "finished" /\ Told(e.target))
  BY <1>1, <1>2, <1>9 DEF NotTold, Told, list
<1> QED BY <1>7, <1>8, <1>9, <1>10

(* Reporting the end that heads the queue: nothing is reported before it that *)
(* ended after it.                                                             *)
LEMMA HeadKeepsOnce ==
    ASSUME Typed, Typed', OnceInv, ui.phase \notin Settled, ui'.phase \notin Settled,
           events.queue # <<>>, events'.queue = Tail(events.queue), recent' = recent,
           setup' = setup, driver'.live = driver.live, Head(events.queue).kind = "finished",
           Told(Head(events.queue).target)
    PROVE  OnceInv'
<1> DEFINE q == events.queue  y == Head(q).target  s == ui.terminal  r == ui'.terminal
<1>0. /\ q \in Seq(Happenings) /\ DOMAIN q = 1 .. Len(q) /\ Len(q) \in Nat /\ Len(q) > 0
      /\ Head(q) = q[1] /\ Head(q) \in Happenings
  BY LenProperties, HeadTailProperties DEF Typed
<1>1. /\ Tail(q) \in Seq(Happenings) /\ DOMAIN Tail(q) = 1 .. Len(q) - 1
      /\ \A i \in DOMAIN Tail(q) : Tail(q)[i] = q[i + 1] /\ i + 1 \in DOMAIN q
  BY <1>0, HeadTailProperties, LenProperties
<1>2. y \in Targets /\ q[1].kind = "finished" /\ q[1].target = y /\ 1 \in DOMAIN q
  BY <1>0 DEF Happenings
<1>3. /\ ReportedFirst /\ Remembered /\ r = Insert(s, y)
      /\ reported' = [reported EXCEPT ![y] = reported[y] + 1] /\ reported \in [Targets -> Nat]
  BY DEF OnceInv, Told, Typed
<1>4. reported[y] = 0 /\ ~Within(s, y)
  BY <1>2, <1>3 DEF ReportedFirst, Waits, OnceInv
<1>5. \A i \in DOMAIN s : Precedes(recent, s[i], y)
  BY <1>2, <1>3 DEF ReportedFirst
<1>6. s \in Seq(Targets) /\ DOMAIN s = 1 .. Len(s) /\ Len(s) \in Nat
  BY LenProperties DEF Typed, Frontends
<1>7. ASSUME Within(recent, s[1]), DOMAIN s # {}
      PROVE  Within(recent, y) /\ \A i \in DOMAIN s : Within(recent, s[i])
  <2>1. 1 \in DOMAIN s
    BY <1>6, <1>7
  <2>2. ASSUME NEW i \in DOMAIN s, i # 1 PROVE Precedes(recent, s[1], s[i])
    <3>1. 1 < i
      BY <1>6, <2>2
    <3> QED BY <1>3, <2>1, <3>1 DEF ReportedFirst
  <2> QED BY <1>5, <1>7, <2>1, <2>2 DEF Within, Precedes
<1> HIDE DEF y, q, r, s
<1>8. /\ r \in Seq(Targets) /\ Len(r) <= OutcomeLimit
      /\ \E d \in {0, 1} : Slid(s, r, y, d)
      /\ \A i, j \in DOMAIN r : i < j => r[i] # r[j]
      /\ Within(r, y) /\ \A t : Within(r, t) => t = y \/ Within(s, t)
      /\ \A t : Within(recent, t) /\ Within(s, t) => Within(r, t)
  BY <1>2, <1>3, <1>4, <1>7, InsertKeeps DEF s
<1>9. PICK d \in {0, 1} : Slid(s, r, y, d)
  BY <1>8
<1>10. /\ DOMAIN r = 1 .. Len(s) - d + 1 /\ r[Len(s) - d + 1] = y
       /\ \A i \in DOMAIN r : i = Len(s) - d + 1 \/ (i + d \in DOMAIN s /\ r[i] = s[i + d])
  BY <1>2, <1>6, <1>8, <1>9, SlidFacts
<1>11. OutcomeLimit' = OutcomeLimit
  BY DEF OutcomeLimit, OnStdin
<1>12. \A t \in Targets : reported'[t] = IF t = y THEN 1 ELSE reported[t]
  BY <1>2, <1>3, <1>4
<1>13. \A t \in Targets : reported'[t] <= 1 /\ (Within(r, t) => reported'[t] = 1)
  BY <1>8, <1>12 DEF OnceInv, s
<1>14. ReportedFirst'
  <2>1. ASSUME NEW i \in DOMAIN r, NEW j \in DOMAIN r, i < j PROVE Precedes(recent, r[i], r[j])
    <3>1. i + d \in DOMAIN s /\ r[i] = s[i + d] /\ i + d < j + d
      BY <1>6, <1>10, <2>1
    <3>2. CASE j = Len(s) - d + 1
      BY <1>5, <1>10, <3>1, <3>2
    <3>3. CASE j + d \in DOMAIN s /\ r[j] = s[j + d]
      BY <1>3, <3>1, <3>3 DEF ReportedFirst, s
    <3> QED BY <1>10, <3>2, <3>3
  <2>2. ASSUME NEW i \in DOMAIN r, NEW j \in DOMAIN Tail(q), Tail(q)[j].kind = "finished"
        PROVE  Precedes(recent, r[i], Tail(q)[j].target)
    <3>1. Tail(q)[j] = q[j + 1] /\ j + 1 \in DOMAIN q /\ 1 < j + 1
      BY <1>0, <1>1
    <3>2. CASE i = Len(s) - d + 1
      BY <1>2, <1>3, <1>10, <2>2, <3>1, <3>2 DEF ReportedFirst, q
    <3>3. CASE i + d \in DOMAIN s /\ r[i] = s[i + d]
      BY <1>3, <2>2, <3>1, <3>3 DEF ReportedFirst, s, q
    <3> QED BY <1>10, <3>2, <3>3
  <2>3. ASSUME NEW i \in DOMAIN Tail(q), NEW j \in DOMAIN Tail(q), i < j,
               Tail(q)[i].kind = "finished", Tail(q)[j].kind = "finished"
        PROVE  /\ Tail(q)[i].target # Tail(q)[j].target
               /\ Precedes(recent, Tail(q)[i].target, Tail(q)[j].target)
    <3>1. /\ Tail(q)[i] = q[i + 1] /\ i + 1 \in DOMAIN q /\ Tail(q)[j] = q[j + 1]
          /\ j + 1 \in DOMAIN q /\ i + 1 < j + 1
      BY <1>0, <1>1, <2>3
    <3> QED BY <1>3, <2>3, <3>1 DEF ReportedFirst, q
  <2>4. \A t : Waits(Tail(q), t) => Waits(q, t) /\ t # y
    <3> SUFFICES ASSUME NEW j \in DOMAIN Tail(q), Tail(q)[j].kind = "finished"
                 PROVE  Waits(q, Tail(q)[j].target) /\ Tail(q)[j].target # y
      BY DEF Waits
    <3>1. Tail(q)[j] = q[j + 1] /\ j + 1 \in DOMAIN q /\ 1 < j + 1
      BY <1>0, <1>1
    <3> QED BY <1>2, <1>3, <3>1 DEF Waits, ReportedFirst, q
  <2>5. \A t \in Targets : Waits(Tail(q), t) => reported'[t] = 0
    BY <1>3, <1>12, <2>4 DEF ReportedFirst, q
  <2>6. \A t \in driver.live : t \in Targets /\ ~Ended(t) /\ t # y
    <3>1. Ended(y)
      BY <1>2 DEF Ended, Waits, q
    <3> QED BY <1>3, <3>1 DEF ReportedFirst, Typed, Drivers
  <2>7. \A t \in driver'.live : ~Ended(t)'
    BY <1>8, <1>12, <2>4, <2>6 DEF Ended, q, r, s
  <2> QED BY <2>1, <2>2, <2>3, <2>5, <2>7 DEF ReportedFirst, r, q
<1>15. Remembered'
  BY <1>3, <1>8, <1>12 DEF Remembered, r, s
<1>16. /\ Len(recent') <= OutcomeLimit' /\ Len(r) <= OutcomeLimit'
  BY <1>8, <1>11 DEF OnceInv
<1>17. ui'.phase \notin {"report", "summaries"}
  BY DEF Settled
<1> QED BY <1>8, <1>13, <1>14, <1>15, <1>16, <1>17, Zenon DEF OnceInv, r

(* Going through the history: what was reported of it is remembered, however  *)
(* much of it is reported on the way.                                          *)
LEMMA BeginReportKeepsOnce ==
    ASSUME Typed, Typed', OnceInv, BeginReport
    PROVE  OnceInv'
<1>1. /\ ui.phase = "draining" /\ ui' = [ui EXCEPT !.phase = "report", !.rest = recent]
      /\ UNCHANGED <<setup, driver, recent, reported>> /\ ui \in Frontends
  BY DEF BeginReport, At, Typed
<1>2. ui'.phase = "report" /\ ui'.rest = recent /\ ui'.terminal = ui.terminal
  BY <1>1 DEF Frontends
<1>3. ReportedFirst /\ Remembered
  BY <1>1 DEF OnceInv, Settled
<1>4. Remembered'
  BY <1>1, <1>2, <1>3 DEF Remembered
<1>5. DropsOldest'
  <2> SUFFICES ASSUME NEW i \in DOMAIN ui.terminal, NEW j \in DOMAIN ui.terminal, i < j,
                      Within(recent, ui.terminal[i])
               PROVE  Within(recent, ui.terminal[j])
    BY <1>1, <1>2 DEF DropsOldest
  <2>1. Precedes(recent, ui.terminal[i], ui.terminal[j])
    BY <1>3 DEF ReportedFirst
  <2> QED BY <2>1 DEF Precedes, Within
<1>6. \A t \in Targets : Within(ui'.rest, t) <=> Within(recent', t)
  BY <1>1, <1>2
<1>7. OutcomeLimit' = OutcomeLimit
  BY <1>1 DEF OutcomeLimit, OnStdin
<1>8. /\ Len(recent') <= OutcomeLimit' /\ Len(ui'.terminal) <= OutcomeLimit'
      /\ \A t \in Targets : reported'[t] <= 1 /\ (Within(ui'.terminal, t) => reported'[t] = 1)
      /\ \A i, j \in DOMAIN ui'.terminal : i < j => ui'.terminal[i] # ui'.terminal[j]
  BY <1>1, <1>2, <1>7 DEF OnceInv
<1>9. ui'.phase \in Settled /\ ui'.phase # "summaries"
  BY <1>2 DEF Settled
<1> QED BY <1>4, <1>5, <1>6, <1>8, <1>9, Zenon DEF OnceInv

LEMMA ReportKeepsOnce ==
    ASSUME Typed, Typed', OnceInv, ReportOutcome
    PROVE  OnceInv'
<1> DEFINE s == ui.terminal  r == ui'.terminal  y == Head(ui.rest)
<1>0. /\ ui.phase = "report" /\ ui.rest # <<>> /\ ui \in Frontends
      /\ ui' = [ui EXCEPT !.rest = Tail(ui.rest),
                          !.terminal = IF IsReported(y) THEN s ELSE Insert(s, y)]
      /\ reported' = IF IsReported(y) THEN reported
                     ELSE [reported EXCEPT ![y] = reported[y] + 1]
      /\ UNCHANGED <<setup, driver, recent>> /\ reported \in [Targets -> Nat]
  BY DEF ReportOutcome, At, Typed
<1>1. /\ ui'.phase = "report" /\ ui'.rest = Tail(ui.rest)
      /\ r = IF IsReported(y) THEN s ELSE Insert(s, y)
  BY <1>0 DEF Frontends
<1>2. /\ Remembered /\ DropsOldest
      /\ \A t \in Targets : Within(ui.rest, t) => Within(recent, t)
      /\ \A t \in Targets : Within(recent, t) => reported[t] = 1 \/ Within(ui.rest, t)
  BY <1>0 DEF OnceInv
<1>3. /\ ui.rest \in Seq(Targets) /\ y \in Targets /\ Within(ui.rest, y)
      /\ \A t : Within(Tail(ui.rest), t) => Within(ui.rest, t)
      /\ \A t : Within(ui.rest, t) => t = y \/ Within(Tail(ui.rest), t)
  <2>1. /\ ui.rest \in Seq(Targets) /\ DOMAIN ui.rest = 1 .. Len(ui.rest)
        /\ Len(ui.rest) \in Nat /\ Len(ui.rest) > 0
        /\ y = ui.rest[1] /\ y \in Targets
    BY <1>0, LenProperties, HeadTailProperties DEF Frontends
  <2>2. /\ DOMAIN Tail(ui.rest) = 1 .. Len(ui.rest) - 1
        /\ \A i \in 1 .. Len(ui.rest) - 1 : Tail(ui.rest)[i] = ui.rest[i + 1]
    BY <1>0, <2>1, LenProperties, HeadTailProperties
  <2> HIDE DEF y
  <2>3. \A t : Within(Tail(ui.rest), t) => Within(ui.rest, t)
    BY <2>1, <2>2 DEF Within
  <2>4. ASSUME NEW t, Within(ui.rest, t) PROVE t = y \/ Within(Tail(ui.rest), t)
    <3>1. PICK i \in DOMAIN ui.rest : ui.rest[i] = t
      BY <2>4 DEF Within
    <3>2. CASE i = 1
      BY <2>1, <3>1, <3>2
    <3>3. CASE i # 1
      <4>1. i - 1 \in 1 .. Len(ui.rest) - 1 /\ (i - 1) + 1 = i
        BY <2>1, <3>1, <3>3
      <4> QED BY <2>2, <3>1, <4>1 DEF Within
    <3> QED BY <3>2, <3>3
  <2>5. Within(ui.rest, y)
    BY <2>1 DEF Within
  <2> QED BY <2>1, <2>3, <2>4, <2>5
<1>4. Within(recent, y)
  BY <1>2, <1>3
<1>5. s \in Seq(Targets) /\ DOMAIN s = 1 .. Len(s) /\ Len(s) \in Nat
  BY <1>0, LenProperties DEF Frontends
<1>6. IsReported(y) <=> Within(s, y)
  BY <1>5 DEF IsReported, ToSet, Within
<1>7. OutcomeLimit' = OutcomeLimit
  BY <1>0 DEF OutcomeLimit, OnStdin
<1> HIDE DEF y
<1>8. /\ Len(recent') <= OutcomeLimit' /\ Len(r) <= OutcomeLimit'
      /\ \A t \in Targets : reported'[t] <= 1 /\ (Within(r, t) => reported'[t] = 1)
      /\ \A i, j \in DOMAIN r : i < j => r[i] # r[j]
      /\ Remembered' /\ DropsOldest' /\ reported'[y] = 1
      /\ \A t \in Targets : reported[t] = 1 => reported'[t] = 1
  <2>1. CASE Within(s, y)
    <3>1. r = s /\ reported' = reported /\ reported[y] = 1
      BY <1>0, <1>1, <1>3, <1>6, <2>1 DEF OnceInv
    <3>2. Remembered' /\ DropsOldest'
      BY <1>0, <1>2, <3>1 DEF Remembered, DropsOldest
    <3> QED BY <1>0, <1>7, <3>1, <3>2 DEF OnceInv
  <2>2. CASE ~Within(s, y)
    <3>1. /\ r = Insert(s, y) /\ reported' = [reported EXCEPT ![y] = reported[y] + 1]
      BY <1>0, <1>1, <1>6, <2>2
    <3>2. reported[y] = 0
      BY <1>0, <1>2, <1>3, <1>4, <2>2 DEF Remembered
    <3>3. ASSUME Within(recent, s[1]), DOMAIN s # {}
          PROVE  Within(recent, y) /\ \A i \in DOMAIN s : Within(recent, s[i])
      <4>1. 1 \in DOMAIN s
        BY <1>5, <3>3
      <4>2. ASSUME NEW i \in DOMAIN s, i # 1 PROVE Within(recent, s[i])
        <5>1. 1 < i
          BY <1>5, <4>2
        <5> QED BY <1>2, <3>3, <4>1, <5>1 DEF DropsOldest
      <4> QED BY <1>4, <3>3, <4>2
    <3> HIDE DEF r, s
    <3>4. /\ r \in Seq(Targets) /\ Len(r) <= OutcomeLimit
          /\ \E d \in {0, 1} : Slid(s, r, y, d)
          /\ \A i, j \in DOMAIN r : i < j => r[i] # r[j]
          /\ Within(r, y) /\ \A t : Within(r, t) => t = y \/ Within(s, t)
          /\ \A t : Within(recent, t) /\ Within(s, t) => Within(r, t)
      BY <1>3, <2>2, <3>1, <3>3, InsertKeeps DEF s
    <3>5. PICK d \in {0, 1} : Slid(s, r, y, d)
      BY <3>4
    <3>6. /\ DOMAIN r = 1 .. Len(s) - d + 1 /\ r[Len(s) - d + 1] = y
          /\ \A i \in DOMAIN r : i = Len(s) - d + 1 \/ (i + d \in DOMAIN s /\ r[i] = s[i + d])
      <4>1. s \in Seq(Targets) /\ r \in Seq(Targets) /\ y \in Targets
        BY <1>3, <1>5, <3>4
      <4> QED BY ONLY <3>5, <4>1, SlidFacts
    <3>7. \A t \in Targets : reported'[t] = IF t = y THEN 1 ELSE reported[t]
      BY <1>0, <1>3, <3>1, <3>2
    <3>8. \A t \in Targets : reported'[t] <= 1 /\ (Within(r, t) => reported'[t] = 1)
      BY <3>4, <3>7 DEF OnceInv, s
    <3>9. Remembered'
      BY <1>0, <1>2, <3>4, <3>7 DEF Remembered, r, s
    <3>10. DropsOldest'
      <4> SUFFICES ASSUME NEW i \in DOMAIN r, NEW j \in DOMAIN r, i < j, Within(recent, r[i])
                   PROVE  Within(recent, r[j])
        BY <1>0 DEF DropsOldest, r
      <4>1. i + d \in DOMAIN s /\ r[i] = s[i + d] /\ i + d < j + d
        BY <1>5, <3>6
      <4>2. CASE j = Len(s) - d + 1
        BY <1>4, <3>6, <4>2
      <4>3. CASE j + d \in DOMAIN s /\ r[j] = s[j + d]
        BY <1>2, <4>1, <4>3 DEF DropsOldest, s
      <4> QED BY <3>6, <4>2, <4>3
    <3>11. /\ Len(recent') <= OutcomeLimit' /\ Len(r) <= OutcomeLimit'
      BY <1>0, <1>7, <3>4 DEF OnceInv
    <3> QED BY <1>3, <3>4, <3>7, <3>8, <3>9, <3>10, <3>11
  <2> QED BY <2>1, <2>2
<1>9. \A t \in Targets : Within(ui'.rest, t) => Within(recent', t)
  BY <1>0, <1>1, <1>2, <1>3
<1>10. \A t \in Targets : Within(recent', t) => reported'[t] = 1 \/ Within(ui'.rest, t)
  BY <1>0, <1>1, <1>2, <1>3, <1>8
<1>11. ui'.phase \in Settled /\ ui'.phase # "summaries"
  BY <1>1 DEF Settled
<1> QED BY <1>8, <1>9, <1>10, <1>11, Zenon DEF OnceInv, r

LEMMA SummariesKeepOnce ==
    ASSUME Typed, Typed', OnceInv, ui.phase = "report", ui.rest = <<>>,
           ui'.phase = "summaries", ui'.terminal = ui.terminal,
           UNCHANGED <<setup, recent, reported>>
    PROVE  OnceInv'
<1>1. \A t \in Targets : Within(recent, t) => reported[t] = 1
  BY DEF OnceInv, Within
<1>2. OutcomeLimit' = OutcomeLimit
  BY DEF OutcomeLimit, OnStdin
<1>3. /\ Len(recent') <= OutcomeLimit' /\ Len(ui'.terminal) <= OutcomeLimit'
      /\ \A t \in Targets : reported'[t] <= 1 /\ (Within(ui'.terminal, t) => reported'[t] = 1)
      /\ \A i, j \in DOMAIN ui'.terminal : i < j => ui'.terminal[i] # ui'.terminal[j]
      /\ \A t \in Targets : Within(recent', t) => reported'[t] = 1
  BY <1>1, <1>2 DEF OnceInv
<1>4. ui'.phase \in Settled /\ ui'.phase # "report"
  BY DEF Settled
<1> QED BY <1>3, <1>4, Zenon DEF OnceInv

(***************************************************************************)
(* Records on their way to the driver                                       *)
(***************************************************************************)

(* Steps that take no record and move none.                                   *)
FlowStep ==
    /\ setup' = setup /\ newest' = newest /\ stdin' = stdin
    /\ driver'.command = driver.command /\ driver'.ack = driver.ack
    /\ SameFlow(ui, ui') \/ NoFlow(ui')
    /\ \/ ui'.stop = ui.stop \/ ui'.stop = "Interrupted"
       \/ OnStdin /\ ui'.stop # "none"
    /\ ui.phase \in {"top", "decide"} =>
         ui'.phase \in {"top", "decide"} \/ NoFlow(ui') \/ ui'.stop # "none" \/ ~OnStdin

LEMMA FlowKept ==
    ASSUME Typed, Typed', FlowInv, FlowStep
    PROVE  FlowInv'
<1>1. OnStdin' = OnStdin
  BY DEF FlowStep, OnStdin
<1>2. CASE NoFlow(ui')
  <2>1. ~Wanted'
    BY <1>2 DEF NoFlow, Wanted
  <2>2. ui'.stop = "none" => ui.stop = "none"
    BY DEF FlowStep
  <2> QED BY <1>1, <1>2, <2>1, <2>2 DEF FlowInv, FlowStep, NoFlow
<1>3. CASE SameFlow(ui, ui')
  <2>1. Wanted' = Wanted
    BY <1>3 DEF SameFlow, Wanted
  <2>2. ui'.stop = "none" => ui.stop = "none"
    BY DEF FlowStep
  <2>3. ui.pending # None /\ ~OnStdin => FALSE
    BY DEF FlowInv
  <2>4. ~OnStdin' =>
         /\ {driver'.command, ui'.specs, ui'.preparing, ui'.desired, ui'.pending} = {None}
         /\ ui'.stop \in {"none", "Interrupted"}
    BY <1>1, <1>3 DEF FlowInv, FlowStep, SameFlow
  <2>5. CASE ui'.stop = "none"
    <3>1. ui'.pending # None /\ ~Wanted' =>
              \/ ui'.pending = newest'
              \/ ui'.phase \in {"top", "decide"} /\ (stdin'.unseen \/ stdin'.closed)
      <4> SUFFICES ASSUME ui'.pending # None, ~Wanted', ui'.pending # newest'
                   PROVE  ui'.phase \in {"top", "decide"} /\ (stdin'.unseen \/ stdin'.closed)
        OBVIOUS
      <4>1. ui.pending # None /\ ~Wanted /\ ui.pending # newest
        BY <1>3, <2>1 DEF FlowStep, SameFlow
      <4>2. ui.phase \in {"top", "decide"} /\ (stdin.unseen \/ stdin.closed)
        BY <2>2, <2>5, <4>1 DEF FlowInv
      <4>3. ui'.phase \in {"top", "decide"} \/ NoFlow(ui')
        BY <2>3, <2>5, <4>1, <4>2 DEF FlowStep
      <4> QED BY <4>2, <4>3 DEF FlowStep, NoFlow
    <3> QED BY <1>3, <2>1, <2>2, <2>4, <2>5, <3>1 DEF FlowInv, FlowStep, SameFlow
  <2>6. CASE ui'.stop # "none"
    BY <2>4, <2>6 DEF FlowInv, FlowStep
  <2> QED BY <2>5, <2>6
<1> QED BY <1>2, <1>3 DEF FlowStep

LEMMA TouchKept ==
    ASSUME Typed, Typed', TouchInv, FlowStep,
           ui'.phase \notin Settled =>
             ui.phase \notin Settled /\ \A t \in Targets : Begun(t)' => Begun(t)
    PROVE  TouchInv'
<1> SUFFICES ASSUME OnStdin', ui'.phase \notin Settled, NEW t \in Targets, Begun(t)'
             PROVE  /\ driver'.command # None => t < driver'.command
                    /\ ui'.stop = "none" =>
                         /\ t <= newest'
                         /\ Wanted' => t < newest'
                         /\ ui'.pending # None /\ driver'.ack # "Applied" => t < ui'.pending
  BY Zenon DEF TouchInv
<1>1. OnStdin /\ ui.phase \notin Settled /\ Begun(t)
  BY DEF FlowStep, OnStdin
<1>2. /\ driver.command # None => t < driver.command
      /\ ui.stop = "none" =>
           /\ t <= newest
           /\ Wanted => t < newest
           /\ ui.pending # None /\ driver.ack # "Applied" => t < ui.pending
  BY <1>1 DEF TouchInv
<1>3. ui'.stop = "none" => ui.stop = "none"
  BY DEF FlowStep
<1>4. CASE NoFlow(ui')
  BY <1>2, <1>3, <1>4 DEF FlowStep, NoFlow, Wanted
<1>5. CASE SameFlow(ui, ui')
  BY <1>2, <1>3, <1>5 DEF FlowStep, SameFlow, Wanted
<1> QED BY <1>4, <1>5 DEF FlowStep

(* Steps that change neither what is on its way nor what is told.             *)
Calm ==
    /\ FlowStep /\ OnceStep /\ driver'.live \subseteq driver.live
    /\ \E k \in Nat : Shifted(events.queue, events'.queue, k)

LEMMA CalmKeeps ==
    ASSUME Typed, Typed', FlowInv, TouchInv, OnceInv, Calm
    PROVE  FlowInv' /\ TouchInv' /\ OnceInv'
<1>1. \A t : Waits(events'.queue, t) => Waits(events.queue, t)
  BY ShiftedWaits DEF Calm
<1>2. \A t \in Targets : Begun(t)' => Begun(t)
  BY <1>1 DEF Calm, OnceStep, Begun, Ended
<1> QED BY <1>2, FlowKept, TouchKept, OnceKept DEF Calm, OnceStep

(***************************************************************************)
(* The driver's steps                                                       *)
(***************************************************************************)

LEMMA DriverEnds ==
    ASSUME Typed, EndInv, DriverTyped, driver.phase # "ended",
           ~OnStdin =>
             /\ recent' = <<>> => driver'.live = 1 .. setup.targets
             /\ driver'.phase = "ended" => recent' # <<>>
    PROVE  EndInv'
<1>1. ui.phase \notin {"draining", "report", "summaries", "returning", "returned"}
  BY DEF EndInv
<1>2. /\ ui' = ui /\ setup' = setup /\ shutdown' = shutdown /\ grace' = grace /\ writer' = writer
      /\ OnStdin' = OnStdin
  BY DEF DriverTyped, OnStdin
<1> QED BY <1>1, <1>2 DEF EndInv

LEMMA DriverTypes ==
    ASSUME Typed, DriverTyped, SummaryBacked
    PROVE  Typed' /\ SummaryBacked' /\ ui' = ui /\ setup' = setup
BY DEF Typed, DriverTyped, SummaryBacked, OnStdin

LEMMA UiFlowSame == SameFlow(ui, ui) /\ SameEnd(ui, ui) /\ SameReports(ui, ui)
BY DEF SameFlow, SameEnd, SameReports

LEMMA CalmDriver ==
    ASSUME StreamInv, DriverTyped, recent' = recent, driver.phase # "ended",
           driver'.command = driver.command, driver'.ack = driver.ack,
           driver'.live = driver.live, driver'.phase # "ended",
           \E k \in Nat : Shifted(events.queue, events'.queue, k)
    PROVE  StreamInv'
<1>1. Typed' /\ SummaryBacked' /\ ui' = ui /\ setup' = setup
  BY DriverTypes DEF StreamInv
<1>2. FlowStep
  BY <1>1, UiFlowSame DEF FlowStep, DriverTyped
<1>3. OnceStep
  BY <1>1 DEF OnceStep, DriverTyped
<1>4. Calm
  BY <1>2, <1>3 DEF Calm
<1>5. EndInv'
  <2>1. ~OnStdin => (recent = <<>> => driver.live = 1 .. setup.targets)
    BY DEF StreamInv, EndInv
  <2> QED BY <2>1, DriverEnds DEF StreamInv
<1> QED BY <1>1, <1>4, <1>5, CalmKeeps DEF StreamInv

LEMMA MeasuresKeeps ==
    ASSUME StreamInv, NEW t \in Targets, Measures(t)
    PROVE  StreamInv'
<1>1. DriverTyped
  BY DriverStaysTyped DEF StreamInv
<1>2. /\ recent' = recent /\ driver.phase # "ended" /\ driver'.command = driver.command
      /\ driver'.ack = driver.ack /\ driver'.live = driver.live /\ driver'.phase = driver.phase
  BY DEF Measures, Drives, StreamInv, Typed, Drivers
<1>3. Event("client", t) \in Happenings /\ Event("client", t).kind # "finished"
  BY DEF Event, Happenings, Revisions
<1>4. \E k \in Nat : Shifted(events.queue, events'.queue, k)
  BY <1>3, PublishShifts DEF Measures, StreamInv
<1> QED BY <1>1, <1>2, <1>4, CalmDriver

LEMMA PruneKeeps ==
    ASSUME StreamInv, Prune
    PROVE  StreamInv'
<1>1. DriverTyped
  BY DriverStaysTyped DEF StreamInv
<1>2. /\ recent' = recent /\ driver.phase # "ended" /\ driver'.command = driver.command
      /\ driver'.ack = driver.ack /\ driver'.live = driver.live /\ driver'.phase = driver.phase
      /\ events' = events
  BY DEF Prune, Drives, StreamInv, Typed, Drivers
<1>3. \E k \in Nat : Shifted(events.queue, events'.queue, k)
  BY <1>2, SameShifts DEF StreamInv, Typed
<1> QED BY <1>1, <1>2, <1>3, CalmDriver

LEMMA OtherShifts ==
    ASSUME Typed, Publish(<<Event("other", None)>>)
    PROVE  \E k \in Nat : Shifted(events.queue, events'.queue, k)
<1>1. Event("other", None) \in Happenings /\ Event("other", None).kind # "finished"
  BY DEF Event, Happenings, Revisions
<1> QED BY <1>1, PublishShifts

LEMMA ObserveStopKeeps ==
    ASSUME StreamInv, ObserveStop
    PROVE  StreamInv'
<1>1. DriverTyped
  BY DriverStaysTyped DEF StreamInv
<1>2. /\ recent' = recent /\ driver.phase # "ended" /\ driver'.command = driver.command
      /\ driver'.ack = driver.ack /\ driver'.live = driver.live /\ driver'.phase # "ended"
      /\ Publish(<<Event("other", None)>>)
  BY DEF ObserveStop, StreamInv, Typed, Drivers
<1> QED BY <1>1, <1>2, OtherShifts, CalmDriver DEF StreamInv

(* The driver answers or refuses its command, and ends.                       *)
LEMMA CommandAnswered ==
    ASSUME StreamInv, DriverTyped, recent' = recent, driver'.command = None,
           IF driver.command = None THEN driver'.ack = driver.ack
           ELSE driver'.ack \in {"LimitExceeded", "Stopping"},
           driver'.live = driver.live,
           \E k \in Nat : Shifted(events.queue, events'.queue, k)
    PROVE  FlowInv' /\ TouchInv' /\ OnceInv'
<1>1. Typed' /\ ui' = ui /\ setup' = setup /\ newest' = newest /\ stdin' = stdin
      /\ OnStdin' = OnStdin /\ Wanted' = Wanted
  BY DriverTypes DEF StreamInv, DriverTyped, OnStdin, Wanted
<1>2. FlowInv'
  <2>1. None <= newest
    BY DEF StreamInv, Typed, Revisions, Targets, None
  <2> QED BY <1>1, <2>1 DEF StreamInv, FlowInv
<1>3. \A t : Waits(events'.queue, t) => Waits(events.queue, t)
  BY ShiftedWaits
<1>4. \A t \in Targets : Begun(t)' => Begun(t)
  BY <1>1, <1>3 DEF DriverTyped, Begun, Ended
<1>5. driver'.ack # "Applied" => driver.ack # "Applied"
  BY DEF StreamInv, FlowInv
<1>6. TouchInv'
  BY <1>1, <1>4, <1>5 DEF StreamInv, TouchInv
<1>7. OnceStep
  BY <1>1 DEF OnceStep, DriverTyped
<1> QED BY <1>1, <1>2, <1>6, <1>7, OnceKept DEF StreamInv

LEMMA SealKeeps ==
    ASSUME StreamInv, Seal
    PROVE  StreamInv'
<1>1. DriverTyped
  BY DriverStaysTyped DEF StreamInv
<1>2. /\ recent' = recent /\ driver.phase # "ended" /\ driver'.command = None
      /\ driver'.ack = IF driver.command = None THEN driver.ack ELSE "Stopping"
      /\ driver'.live = driver.live /\ driver.live = {} /\ driver'.phase = "ended"
      /\ Publish(<<Event("other", None)>>)
  BY DEF Seal, StreamInv, Typed, Drivers
<1>3. FlowInv' /\ TouchInv' /\ OnceInv'
  BY <1>1, <1>2, OtherShifts, CommandAnswered DEF StreamInv
<1>4. EndInv'
  <2>1. 1 \in 1 .. setup.targets
    BY Constants DEF StreamInv, Typed
  <2>2. ~OnStdin => recent # <<>>
    BY <1>2, <2>1 DEF StreamInv, EndInv
  <2> QED BY <1>1, <1>2, <2>2, DriverEnds DEF StreamInv
<1> QED BY <1>1, <1>3, <1>4, DriverTypes DEF StreamInv

LEMMA FinishKeeps ==
    ASSUME StreamInv, NEW t \in Targets, NEW why, TargetFinishes(t, why)
    PROVE  StreamInv'
<1>1. DriverTyped
  BY DriverStaysTyped DEF StreamInv
<1>2. /\ driver.phase # "ended" /\ driver'.command = driver.command /\ driver'.ack = driver.ack
      /\ driver'.live = driver.live \ {t} /\ t \in driver.live /\ driver'.phase = driver.phase
      /\ recent' = RecordOutcome(t, OutcomeLimit)
      /\ Publish(<<Event("state", t), Event("finished", t)>>)
  BY DEF TargetFinishes, Drives, StreamInv, Typed, Drivers
<1>3. Typed' /\ SummaryBacked' /\ ui' = ui /\ setup' = setup /\ reported' = reported
  BY <1>1, DriverTypes DEF StreamInv, DriverTyped
<1>4. FlowStep
  BY <1>1, <1>2, <1>3, UiFlowSame DEF FlowStep, DriverTyped
<1>5. FlowInv'
  BY <1>3, <1>4, FlowKept DEF StreamInv
<1>6. \A x \in Targets : Begun(x)' => Begun(x)
  <2>1. PICK k \in Nat : Extended(events.queue, events'.queue, t, k)
    BY <1>2, FinishQueues DEF StreamInv
  <2>2. \A x : Waits(events'.queue, x) => x = t \/ Waits(events.queue, x)
    BY <2>1 DEF Waits, Extended
  <2>3. \A x : Within(recent', x) => x = t \/ Within(recent, x)
    <3>1. recent \in Seq(Targets) /\ OutcomeLimit \in Nat /\ OutcomeLimit > 0
          /\ Len(recent) <= OutcomeLimit
      BY LimitPositive DEF StreamInv, Typed, OnceInv
    <3>2. recent' \in Seq(Targets) /\ \E d \in {0, 1} : Slid(recent, recent', t, d)
      BY <1>2, <3>1, Slides DEF RecordOutcome
    <3> QED BY <3>1, <3>2, SlidFacts
  <2> QED BY <1>2, <1>3, <2>2, <2>3 DEF Begun, Ended
<1>7. TouchInv'
  BY <1>3, <1>4, <1>6, TouchKept DEF StreamInv
<1>8. OnceInv'
  BY <1>3, FinishKeepsOnce DEF StreamInv
<1>9. recent' # <<>>
  BY <1>2, RecordTyped DEF StreamInv
<1>10. EndInv'
  BY <1>1, <1>2, <1>9, DriverEnds DEF StreamInv
<1> QED BY <1>3, <1>5, <1>7, <1>8, <1>10 DEF StreamInv

LEMMA ApplyKeeps ==
    ASSUME StreamInv, ApplyUpdate
    PROVE  StreamInv'
<1> DEFINE c == driver.command
<1>1. DriverTyped
  BY DriverStaysTyped DEF StreamInv
<1>2. Typed' /\ SummaryBacked' /\ ui' = ui /\ setup' = setup /\ stdin' = stdin
      /\ newest' = newest /\ reported' = reported
  BY <1>1, DriverTypes DEF StreamInv, DriverTyped
<1>3. /\ c # None /\ c \in Targets /\ driver.phase # "ended" /\ recent' = recent
      /\ driver \in Drivers /\ OnStdin /\ OnStdin'
  <2>1. c # None /\ driver.phase # "ended" /\ recent' = recent /\ driver \in Drivers
    BY DEF ApplyUpdate, Drives, StreamInv, Typed
  <2>2. c \in Targets
    BY <2>1 DEF Drivers, Revisions
  <2>3. OnStdin
    BY <2>1 DEF StreamInv, FlowInv
  <2> QED BY <1>2, <2>1, <2>2, <2>3 DEF OnStdin
<1>4. CASE driver.phase = "running" /\ Fits(c)
  <2>1. /\ driver' = [driver EXCEPT !.command = None, !.ack = "Applied",
                         !.desired = {c}, !.live = @ \cup {c}, !.over = {}]
        /\ Publish(<<Event("state", c)>>)
    BY <1>4 DEF ApplyUpdate
  <2>2. /\ driver'.command = None /\ driver'.ack = "Applied" /\ driver'.live = driver.live \cup {c}
        /\ driver'.phase # "ended"
    BY <1>3, <2>1 DEF Drivers
  <2>3. \E k \in Nat : Shifted(events.queue, events'.queue, k)
    <3>1. Event("state", c) \in Happenings /\ Event("state", c).kind # "finished"
      BY <1>3 DEF Event, Happenings, Revisions
    <3> QED BY <2>1, <3>1, PublishShifts DEF StreamInv
  <2>4. Wanted' = Wanted
    BY <1>2 DEF Wanted
  <2>5. FlowInv'
    <3>1. None <= newest
      BY DEF StreamInv, Typed, Revisions, Targets, None
    <3> QED BY <1>2, <1>3, <2>2, <2>4, <3>1 DEF StreamInv, FlowInv
  <2>6. \A t \in Targets : Begun(t)' => Begun(t) \/ t = c
    <3>1. \A t : Waits(events'.queue, t) => Waits(events.queue, t)
      BY <2>3, ShiftedWaits
    <3> QED BY <1>2, <1>3, <2>2, <3>1 DEF Begun, Ended
  <2>7. TouchInv'
    <3> SUFFICES ASSUME ui.phase \notin Settled, NEW t \in Targets, Begun(t)', ui.stop = "none"
                 PROVE  t <= newest /\ (Wanted => t < newest)
      BY <1>2, <2>2, <2>4 DEF TouchInv
    <3>1. CASE Begun(t)
      BY <1>3, <3>1 DEF StreamInv, TouchInv
    <3>2. CASE t = c
      BY <1>3, <3>2 DEF StreamInv, FlowInv
    <3> QED BY <2>6, <3>1, <3>2
  <2>8. ASSUME ui.phase \notin Settled PROVE ~Ended(c)
    <3>1. ~Begun(c)
      BY <1>3, <2>8 DEF StreamInv, TouchInv, Targets
    <3> QED BY <3>1 DEF Begun
  <2>9. OnceStep
    BY <1>2, <1>3, <2>2, <2>3, <2>8 DEF OnceStep
  <2>10. EndInv'
    BY <1>1, <1>3, <2>2, DriverEnds DEF StreamInv
  <2> QED BY <1>2, <2>5, <2>7, <2>9, <2>10, OnceKept DEF StreamInv
<1>5. CASE ~(driver.phase = "running" /\ Fits(c))
  <2>1. /\ driver' = [driver EXCEPT !.command = None,
                    !.ack = IF driver.phase = "running" THEN "LimitExceeded" ELSE "Stopping"]
        /\ UNCHANGED <<status, events>>
    BY <1>5 DEF ApplyUpdate
  <2>2. /\ driver'.command = None /\ driver'.ack \in {"LimitExceeded", "Stopping"}
        /\ driver'.live = driver.live /\ driver'.phase # "ended"
    BY <1>3, <2>1 DEF Drivers
  <2>3. \E k \in Nat : Shifted(events.queue, events'.queue, k)
    BY <2>1, SameShifts DEF StreamInv, Typed
  <2>4. FlowInv' /\ TouchInv' /\ OnceInv'
    BY <1>1, <1>3, <2>2, <2>3, CommandAnswered
  <2>5. EndInv'
    BY <1>1, <1>3, <2>2, DriverEnds DEF StreamInv
  <2> QED BY <1>2, <2>4, <2>5 DEF StreamInv
<1> QED BY <1>4, <1>5

(***************************************************************************)
(* The other threads                                                        *)
(***************************************************************************)

LEMMA SameAll ==
    ASSUME Typed, UNCHANGED <<setup, stdin, driver, recent, events, ui, newest, reported>>
    PROVE  Calm
<1>1. \E k \in Nat : Shifted(events.queue, events'.queue, k)
  BY SameShifts DEF Typed
<1> QED BY <1>1, UiFlowSame DEF Calm, FlowStep, OnceStep

LEMMA OthersKeep ==
    ASSUME StreamInv, Interrupt \/ WriterStep \/ GraceExpires
    PROVE  StreamInv'
<1>1. UNCHANGED <<setup, stdin, driver, recent, status, events, ui, newest, reported>>
  BY DEF Interrupt, WriterStep, GraceExpires
<1>2. /\ shutdown' \in BOOLEAN /\ (shutdown => shutdown')
      /\ writer' \in [phase : {"idle", "busy", "failed", "done"}, queued : Int, closed : BOOLEAN]
      /\ writer.phase = "done" => writer'.phase = "done"
      /\ grace' \in {"unset", "armed", "over"}
      /\ grace' # "unset" => grace # "unset"
  <2>0. /\ writer \in [phase : {"idle", "busy", "failed", "done"}, queued : Int, closed : BOOLEAN]
        /\ grace \in {"unset", "armed", "over"} /\ shutdown \in BOOLEAN
    BY DEF StreamInv, Typed
  <2>1. CASE Interrupt
    BY <2>0, <2>1 DEF Interrupt
  <2>2. CASE GraceExpires
    BY <2>0, <2>2 DEF GraceExpires
  <2>3. CASE WriterStep
    <3>1. UNCHANGED <<shutdown, grace>>
      BY <2>3 DEF WriterStep
    <3>2. CASE WriterTakes
      <4>1. /\ writer' = [writer EXCEPT !.phase = "busy", !.queued = writer.queued - 1]
            /\ writer.phase = "idle" /\ writer.queued - 1 \in Int
        BY <2>0, <3>2 DEF WriterTakes
      <4>2. writer' \in [phase : {"idle", "busy", "failed", "done"}, queued : Int, closed : BOOLEAN]
        BY <2>0, <4>1
      <4> QED BY <2>0, <3>1, <4>1, <4>2
    <3>3. ASSUME NEW ok \in BOOLEAN, WriterWrites(ok)
          PROVE  /\ writer' \in [phase : {"idle", "busy", "failed", "done"}, queued : Int, closed : BOOLEAN]
                 /\ writer.phase # "done"
      BY <2>0, <3>3 DEF WriterWrites
    <3>4. CASE WriterFinishes
      BY <2>0, <3>1, <3>4 DEF WriterFinishes
    <3> QED BY <2>0, <2>3, <3>1, <3>2, <3>3, <3>4 DEF WriterStep
  <2> QED BY <2>1, <2>2, <2>3
<1>3. Typed' /\ SummaryBacked'
  BY <1>1, <1>2 DEF StreamInv, Typed, SummaryBacked, OnStdin
<1>4. Calm
  BY <1>1, SameAll DEF StreamInv
<1>5. EndInv'
  BY <1>1, <1>2 DEF StreamInv, EndInv, OnStdin
<1> QED BY <1>3, <1>4, <1>5, CalmKeeps DEF StreamInv

LEMMA ReadKeeps ==
    ASSUME StreamInv, NEW stop \in {"none", "Eof", "Fatal"}, ReadTargetSet(stop)
    PROVE  StreamInv'
<1>1. /\ UNCHANGED <<setup, shutdown, driver, recent, status, events, ui, writer, grace,
                     newest, reported>>
      /\ OnStdin /\ ~stdin.closed /\ ui.stop = "none"
      /\ stop = "none" => stdin.revision < setup.targets
      /\ stdin' = IF stop = "none"
                  THEN [stdin EXCEPT !.revision = stdin.revision + 1, !.unseen = TRUE]
                  ELSE [stdin EXCEPT !.stop = stop, !.unseen = TRUE, !.closed = TRUE]
  BY DEF ReadTargetSet
<1>2. /\ stdin \in [revision : 0 .. setup.targets, stop : {"none", "Eof", "Fatal"},
                    unseen : BOOLEAN, closed : BOOLEAN]
      /\ setup.targets \in Nat /\ newest \in Nat
  BY Constants DEF StreamInv, Typed, Revisions, Targets, None
<1>3. /\ stdin' \in [revision : 0 .. setup.targets, stop : {"none", "Eof", "Fatal"},
                     unseen : BOOLEAN, closed : BOOLEAN]
      /\ stdin'.unseen /\ (stop = "none" => stdin'.revision = stdin.revision + 1)
      /\ (stop # "none" => stdin'.revision = stdin.revision /\ stdin'.closed /\ stdin'.stop = stop)
      /\ (stop = "none" => stdin'.closed = stdin.closed /\ stdin'.stop = stdin.stop)
  <2>1. CASE stop = "none"
    <3>1. stdin.revision + 1 \in 0 .. setup.targets
      BY <1>1, <1>2, <2>1
    <3>2. stdin' = [stdin EXCEPT !.revision = stdin.revision + 1, !.unseen = TRUE]
      BY <1>1, <2>1
    <3> QED BY <1>2, <2>1, <3>1, <3>2
  <2>2. CASE stop # "none"
    <3>1. stdin' = [stdin EXCEPT !.stop = stop, !.unseen = TRUE, !.closed = TRUE]
      BY <1>1, <2>2
    <3> QED BY <1>2, <2>2, <3>1
  <2> QED BY <2>1, <2>2
<1>4. Typed' /\ SummaryBacked'
  BY <1>1, <1>3 DEF StreamInv, Typed, SummaryBacked, OnStdin
<1>5. FlowInv'
  <2>1. newest <= stdin.revision /\ stdin.revision \in Nat
    BY <1>1, <1>2 DEF StreamInv, FlowInv
  <2>2. newest' <= stdin'.revision /\ (~stdin'.closed => newest' < stdin'.revision)
    BY <1>1, <1>2, <1>3, <2>1
  <2>3. stdin'.closed <=> stdin'.stop # "none"
    BY <1>1, <1>3 DEF StreamInv, FlowInv
  <2> QED BY <1>1, <1>3, <2>2, <2>3 DEF StreamInv, FlowInv, OnStdin, Wanted
<1>6. TouchInv'
  BY <1>1 DEF StreamInv, TouchInv, Begun, Ended, OnStdin, Wanted
<1>7. OnceStep
  BY <1>1, SameShifts DEF OnceStep, StreamInv, Typed
<1>8. OnceInv'
  BY <1>4, <1>7, OnceKept DEF StreamInv
<1>9. EndInv'
  BY <1>1 DEF StreamInv, EndInv, OnStdin
<1> QED BY <1>4, <1>5, <1>6, <1>8, <1>9 DEF StreamInv

(***************************************************************************)
(* The frontend's steps                                                     *)
(***************************************************************************)

Writers == [phase : {"idle", "busy", "failed", "done"}, queued : Int, closed : BOOLEAN]

(* What no step of the frontend touches, and what every one leaves typed.     *)
FrontTyped ==
    /\ UNCHANGED <<setup, shutdown, recent, status>>
    /\ ui' \in Frontends /\ driver' \in Drivers /\ driver'.live = driver.live
    /\ driver'.good = driver.good /\ driver'.peerClosed = driver.peerClosed
    /\ events' \in [queue : Seq(Happenings), lagged : BOOLEAN]
    /\ \E k \in Nat : Shifted(events.queue, events'.queue, k)
    /\ writer' \in Writers /\ grace' \in {"unset", "armed", "over"}
    /\ OnStdin => (ui.summary \subseteq ui.stats => ui'.summary \subseteq ui'.stats)

(* Steps that tell nothing and move no record.                                *)
FrontCalm ==
    /\ FrontTyped /\ UNCHANGED <<stdin, newest, reported>> /\ ui'.terminal = ui.terminal
    /\ driver'.command = driver.command /\ driver'.ack = driver.ack
    /\ SameFlow(ui, ui') \/ NoFlow(ui')
    /\ \/ ui'.stop = ui.stop \/ ui'.stop = "Interrupted"
       \/ OnStdin /\ ui'.stop # "none"
    /\ ui.phase \in {"top", "decide"} =>
         ui'.phase \in {"top", "decide"} \/ NoFlow(ui') \/ ui'.stop # "none" \/ ~OnStdin
    /\ ui'.phase \notin Settled => ui.phase \notin Settled
    /\ ui'.phase = "report" => ui.phase = "report" /\ ui'.rest = ui.rest
    /\ ui'.phase = "summaries" => ui.phase = "summaries"

LEMMA FrontCalmKeeps ==
    ASSUME StreamInv, FrontCalm
    PROVE  Typed' /\ FlowInv' /\ TouchInv' /\ OnceInv' /\ SummaryBacked'
<1>1. Typed'
  BY DEF StreamInv, Typed, FrontCalm, FrontTyped, Writers
<1>2. SummaryBacked'
  BY DEF StreamInv, SummaryBacked, FrontCalm, FrontTyped, OnStdin
<1>3. FlowStep
  BY DEF FrontCalm, FrontTyped, FlowStep
<1>4. OnceStep
  BY DEF FrontCalm, FrontTyped, OnceStep
<1>5. Calm
  BY <1>3, <1>4 DEF FrontCalm, FrontTyped, Calm
<1> QED BY <1>1, <1>2, <1>5, CalmKeeps DEF StreamInv

(* The run goes on, or begins to end.                                         *)
LEMMA LoopEnds ==
    ASSUME StreamInv, FrontTyped, driver'.phase = driver.phase, grace' = grace,
           ui.phase \notin {"returning", "returned"},
           ui'.phase \notin {"draining", "report", "summaries", "returning", "returned"},
           ~(ui'.phase = "sending" /\ ui'.after = "draining"),
           ~OnStdin /\ ui'.stop = "Interrupted" => ui.stop = "Interrupted" \/ shutdown
    PROVE  EndInv'
<1>1. OnStdin' = OnStdin
  BY DEF FrontTyped, OnStdin
<1> QED BY <1>1 DEF StreamInv, EndInv, FrontTyped

LEMMA SameFront ==
    ASSUME StreamInv
    PROVE  /\ ui \in Frontends /\ driver \in Drivers /\ writer \in Writers
           /\ events \in [queue : Seq(Happenings), lagged : BOOLEAN]
           /\ events.queue \in Seq(Happenings)
           /\ \E k \in Nat : Shifted(events.queue, events.queue, k)
           /\ grace \in {"unset", "armed", "over"}
           /\ status.targets \in SUBSET Targets /\ ui.snap.targets \in SUBSET Targets
BY SameShifts DEF StreamInv, Typed, Writers, Frontends, Snapshots

LEMMA TakeSnapshotKeeps ==
    ASSUME StreamInv, TakeSnapshot
    PROVE  StreamInv'
<1>1. /\ ui.phase = "top" /\ ui' = [ui EXCEPT !.phase = "decide", !.snap = status]
      /\ UNCHANGED <<setup, shutdown, stdin, driver, recent, status, events, writer, grace, newest, reported>>
      /\ ui \in Frontends /\ status \in Snapshots
  BY DEF TakeSnapshot, At, StreamInv, Typed
<1>2. /\ ui' \in Frontends /\ ui'.phase = "decide" /\ SameFlow(ui, ui') /\ SameEnd(ui, ui')
      /\ ui'.terminal = ui.terminal
  BY <1>1 DEF Frontends, SameFlow, SameEnd, Loop
<1>3. FrontCalm
  BY <1>1, <1>2, SameFront DEF FrontCalm, FrontTyped, SameEnd, Settled
<1>4. EndInv'
  BY <1>1, <1>2, <1>3, LoopEnds DEF FrontCalm, SameEnd
<1> QED BY <1>3, <1>4, FrontCalmKeeps DEF StreamInv

LEMMA WakesUpKeeps ==
    ASSUME StreamInv, WakesUp
    PROVE  StreamInv'
<1>1. /\ ui.phase = "select" /\ ui' = Goto(ui, "top")
      /\ UNCHANGED <<setup, shutdown, stdin, driver, recent, status, events, writer, grace, newest, reported>>
  BY DEF WakesUp, At
<1>2. /\ ui' \in Frontends /\ ui'.phase = "top" /\ SameFlow(ui, ui') /\ SameEnd(ui, ui')
      /\ ui'.terminal = ui.terminal
  BY <1>1, SameFront, GotoFacts DEF SameReports, Loop
<1>3. FrontCalm
  BY <1>1, <1>2, SameFront DEF FrontCalm, FrontTyped, SameEnd, Settled
<1>4. EndInv'
  BY <1>1, <1>2, <1>3, LoopEnds DEF FrontCalm, SameEnd
<1> QED BY <1>3, <1>4, FrontCalmKeeps DEF StreamInv

LEMMA BeginKeeps ==
    ASSUME StreamInv, NEW ok \in BOOLEAN, Begin(ok)
    PROVE  StreamInv'
<1>0. ui \in Frontends /\ driver \in Drivers /\ writer \in Writers /\ shutdown \in BOOLEAN
  BY DEF StreamInv, Typed, Writers
<1>1. /\ ui.phase = "start"
      /\ UNCHANGED <<setup, shutdown, stdin, recent, status, events, grace, newest, reported>>
  BY DEF Begin, At
<1>2. \/ \E failed \in BOOLEAN : ReturnsEarly(failed) /\ (failed \/ shutdown)
      \/ /\ ui' = Goto(ui, "top")
         /\ driver' = [driver EXCEPT !.phase = "running"]
         /\ UNCHANGED writer
  BY Zenon DEF Begin
<1>3. OnStdin' = OnStdin /\ EndInv
  BY <1>1 DEF StreamInv, OnStdin
<1>4. ASSUME NEW failed \in BOOLEAN, ReturnsEarly(failed), failed \/ shutdown
      PROVE  StreamInv'
  <2>1. /\ ui' = [ui EXCEPT !.phase = "returning", !.failed = failed]
        /\ writer' = [writer EXCEPT !.closed = TRUE]
        /\ driver' = [driver EXCEPT !.phase = "ended"]
    BY <1>4 DEF ReturnsEarly
  <2>2. /\ ui' \in Frontends /\ SameFlow(ui, ui') /\ SameEnd(ui, ui')
        /\ ui'.terminal = ui.terminal /\ ui'.stop = ui.stop
        /\ ui'.phase = "returning" /\ ui'.failed = failed
    BY <1>0, <1>1, <2>1 DEF Frontends, SameFlow, SameEnd, Settled
  <2>3. /\ driver' \in Drivers /\ driver'.live = driver.live /\ driver'.command = driver.command
        /\ driver'.ack = driver.ack /\ driver'.good = driver.good
        /\ driver'.peerClosed = driver.peerClosed /\ driver'.phase = "ended"
    BY <1>0, <2>1 DEF Drivers
  <2>4. writer' \in Writers
    BY <1>0, <2>1 DEF Writers
  <2>5. FrontCalm
    BY <1>1, <2>2, <2>3, <2>4, SameFront DEF FrontCalm, FrontTyped, SameEnd, Settled
  <2>6. EndInv'
    BY <1>0, <1>1, <1>3, <1>4, <2>2, <2>3 DEF EndInv
  <2> QED BY <2>5, <2>6, FrontCalmKeeps DEF StreamInv
<1>5. ASSUME ui' = Goto(ui, "top"), driver' = [driver EXCEPT !.phase = "running"],
             UNCHANGED writer
      PROVE  StreamInv'
  <2>2. /\ ui' \in Frontends /\ SameFlow(ui, ui') /\ SameEnd(ui, ui')
        /\ ui'.terminal = ui.terminal /\ ui'.phase = "top"
    BY <1>0, <1>1, <1>5, GotoFacts DEF SameReports, Loop
  <2>3. /\ driver' \in Drivers /\ driver'.live = driver.live /\ driver'.command = driver.command
        /\ driver'.ack = driver.ack /\ driver'.good = driver.good
        /\ driver'.peerClosed = driver.peerClosed /\ driver'.phase = "running"
    BY <1>0, <1>5 DEF Drivers
  <2>4. writer' \in Writers
    BY <1>0, <1>5
  <2>5. FrontCalm
    BY <1>1, <2>2, <2>3, <2>4, SameFront DEF FrontCalm, FrontTyped, SameEnd, Settled
  <2>6. EndInv'
    BY <1>0, <1>1, <1>3, <2>2, <2>3 DEF EndInv, SameEnd
  <2> QED BY <2>5, <2>6, FrontCalmKeeps DEF StreamInv
<1> QED BY <1>2, <1>4, <1>5

LEMMA DecideFixedKeeps ==
    ASSUME StreamInv, DecideFixed
    PROVE  StreamInv'
<1> DEFINE over == [ui EXCEPT !.stop = IF shutdown THEN "Interrupted" ELSE ui.stop]
<1>0. ui \in Frontends /\ driver \in Drivers
  BY SameFront
<1>1. /\ ui.phase = "decide" /\ ~OnStdin
      /\ ui' = IF shutdown \/ ui.snap.final THEN LeaveLoop(over) ELSE Goto(ui, "select")
      /\ driver' = IF shutdown \/ StopsForPeerClose THEN Stopped ELSE driver
      /\ UNCHANGED <<setup, shutdown, stdin, recent, status, events, writer, grace, newest, reported>>
  BY DEF DecideFixed, At
<1>2. /\ over \in Frontends /\ SameReports(ui, over)
      /\ over.stop = IF shutdown THEN "Interrupted" ELSE ui.stop
  BY <1>0 DEF Frontends, SameReports
<1> HIDE DEF over
<1>3. /\ ui' \in Frontends /\ ui'.phase \in {"joining", "select"} /\ ui'.terminal = ui.terminal
      /\ SameFlow(ui, ui') \/ NoFlow(ui')
      /\ ui'.stop = ui.stop \/ (ui'.stop = "Interrupted" /\ shutdown)
  <2>1. CASE shutdown \/ ui.snap.final
    <3>1. ui' = LeaveLoop(over)
      BY <1>1, <2>1
    <3>2. /\ ui' \in Frontends /\ ui'.phase = "joining" /\ SameReports(over, ui') /\ NoFlow(ui')
          /\ ui'.stop = over.stop
      BY <1>2, <3>1, LeaveFacts DEF SameEnd
    <3> QED BY <1>2, <3>2 DEF SameReports
  <2>2. CASE ~(shutdown \/ ui.snap.final)
    <3>1. ui' = Goto(ui, "select")
      BY <1>1, <2>2
    <3> QED BY <1>0, <3>1, GotoFacts DEF SameReports, SameEnd, Loop
  <2> QED BY <2>1, <2>2
<1>4. driver' \in Drivers /\ SameCommand(driver, driver')
  BY <1>0, <1>1, StoppedFacts DEF StreamInv, SameCommand, SameDriver
<1>5. FrontCalm
  BY <1>1, <1>3, <1>4, SameFront DEF FrontCalm, FrontTyped, SameCommand, SameDriver, Settled
<1>6. EndInv'
  BY <1>1, <1>3, <1>4, <1>5, LoopEnds DEF FrontCalm, SameCommand, SameDriver
<1> QED BY <1>5, <1>6, FrontCalmKeeps DEF StreamInv

LEMMA DecideStdinKeeps ==
    ASSUME StreamInv, DecideStdin
    PROVE  StreamInv'
<1>0. Decided /\ ui.phase = "decide" /\ OnStdin /\ OnStdin'
  BY DecideFacts DEF StreamInv, Decided, OnStdin
<1>1. /\ driver'.phase = driver.phase /\ driver'.live = driver.live
      /\ driver'.good = driver.good /\ driver'.peerClosed = driver.peerClosed
  BY <1>0 DEF Decided, SameCommand, SameDriver, TakesRecord, GoesOn, SubmitsCommand
<1>2. FrontTyped
  BY <1>0, <1>1, SameFront DEF Decided, FrontTyped
<1>3. Typed' /\ SummaryBacked'
  <2>1. Typed'
    BY <1>0, <1>2 DEF StreamInv, Typed, Decided, FrontTyped, Writers
  <2> QED BY <1>0, <2>1 DEF StreamInv, SummaryBacked, Decided
<1>4. OnceStep
  BY <1>0, <1>1, <1>2 DEF Decided, FrontTyped, OnceStep, SameReports, Settled
<1>5. \A t \in Targets : Begun(t)' <=> Begun(t)
  BY <1>0, <1>1 DEF Decided, Begun, Ended, SameReports
<1>6. EndInv'
  BY <1>0, <1>1, <1>2, LoopEnds DEF Decided
<1>7. OnceInv'
  BY <1>3, <1>4, OnceKept DEF StreamInv
<1>8. /\ newest \in Nat /\ newest' \in Nat /\ stdin.revision \in Nat
      /\ driver.command \in Nat /\ ui.desired \in Nat
  <2>1. \A x \in Revisions : x \in Nat
    BY DEF Revisions, Targets, None
  <2>2. stdin.revision \in 0 .. setup.targets /\ setup.targets \in Nat
    BY Constants DEF StreamInv, Typed
  <2>3. newest \in Revisions /\ newest' \in Revisions
    BY <1>3 DEF StreamInv, Typed
  <2>4. driver.command \in Revisions /\ ui.desired \in Revisions
    BY DEF StreamInv, Typed, Drivers, Frontends
  <2>5. stdin.revision \in Nat
    BY <2>2
  <2> QED BY <2>1, <2>3, <2>4, <2>5, Zenon
<1>9. ui.phase \notin Settled
  BY <1>0 DEF Settled
<1>10. CASE ui'.stop # "none"
  <2>1. SameCommand(driver, driver')
    BY <1>0, <1>10 DEF Decided
  <2>2. FlowInv'
    BY <1>0, <1>10, <2>1 DEF StreamInv, FlowInv, Decided, SameCommand
  <2>3. TouchInv'
    BY <1>0, <1>5, <1>9, <1>10, <2>1 DEF StreamInv, TouchInv, SameCommand
  <2> QED BY <1>3, <1>6, <1>7, <2>2, <2>3 DEF StreamInv
<1>11. CASE ui'.stop = "none"
  <2>0. /\ ui.stop = "none" /\ ~stdin.closed /\ ~stdin'.unseen /\ ~stdin'.closed
        /\ stdin'.stop = stdin.stop /\ stdin'.revision = stdin.revision
        /\ TakesRecord \/ GoesOn \/ SubmitsCommand
    BY <1>0, <1>11 DEF Decided
  <2>1. /\ stdin.closed <=> stdin.stop # "none"
        /\ driver.ack # "none" => driver.command = None
        /\ newest <= stdin.revision
        /\ stdin.unseen => newest < stdin.revision
        /\ ui.specs # None => ui.specs = newest
        /\ ui.preparing # None /\ ui.specs = None => ui.preparing = newest
        /\ ui.desired # None => ui.specs = None /\ ui.preparing = None /\ ui.desired = newest
        /\ driver.command <= newest
        /\ Wanted /\ driver.command # None => driver.command < newest
        /\ ui.pending # None => driver.command \in {None, ui.pending}
        /\ ui.pending # None /\ ~Wanted => ui.pending = newest \/ stdin.unseen
    BY <2>0 DEF StreamInv, FlowInv
  <2>2. \A t \in Targets : Begun(t) =>
            /\ driver.command # None => t < driver.command
            /\ t <= newest
            /\ Wanted => t < newest
            /\ ui.pending # None /\ driver.ack # "Applied" => t < ui.pending
    BY <1>0, <1>9, <2>0 DEF StreamInv, TouchInv
  <2>3. Targets \subseteq Nat
    BY DEF Targets
  <2>4. CASE TakesRecord
    <3>1. stdin.revision # None /\ newest < stdin.revision /\ newest' = stdin.revision
      BY <1>8, <2>1, <2>4 DEF TakesRecord, None
    <3>2. driver'.command = driver.command /\ driver'.ack = driver.ack
      BY <2>4 DEF TakesRecord, SameCommand
    <3>3. driver.command < newest'
      BY <1>8, <2>1, <3>1
    <3>4. CASE NoFlow(ui')
      <4>1. FlowInv'
        BY <1>0, <1>8, <2>0, <2>1, <3>1, <3>2, <3>3, <3>4 DEF FlowInv, NoFlow, Wanted
      <4>2. TouchInv'
        BY <1>5, <1>8, <2>2, <2>3, <3>1, <3>2, <3>4 DEF TouchInv, NoFlow, Wanted
      <4> QED BY <1>3, <1>6, <1>7, <4>1, <4>2 DEF StreamInv
    <3>5. CASE ~NoFlow(ui')
      <4>0. /\ ui'.desired = None /\ ui'.pending = ui.pending
            /\ IF ui.preparing # None
               THEN ui'.preparing = ui.preparing /\ ui'.specs = stdin.revision
               ELSE ui'.preparing = stdin.revision /\ ui'.specs = None
        BY <2>4, <3>5 DEF TakesRecord
      <4>1. FlowInv'
        BY <1>0, <1>8, <2>0, <2>1, <3>1, <3>2, <3>3, <4>0 DEF FlowInv, Wanted
      <4>2. TouchInv'
        BY <1>5, <1>8, <2>2, <2>3, <3>1, <3>2, <4>0 DEF TouchInv
      <4> QED BY <1>3, <1>6, <1>7, <4>1, <4>2 DEF StreamInv
    <3> QED BY <3>4, <3>5
  <2>5. CASE GoesOn
    <3>1. newest' = newest /\ ~stdin.unseen
      BY <2>1, <2>5 DEF GoesOn
    <3>2. driver'.command = driver.command /\ driver'.ack = driver.ack
      BY <2>5 DEF GoesOn, SameCommand
    <3>3. CASE NoFlow(ui')
      <4>1. FlowInv'
        BY <1>0, <1>8, <2>0, <2>1, <3>1, <3>2, <3>3 DEF FlowInv, NoFlow, Wanted
      <4>2. TouchInv'
        BY <1>5, <1>8, <2>2, <2>3, <3>1, <3>2, <3>3 DEF TouchInv, NoFlow, Wanted
      <4> QED BY <1>3, <1>6, <1>7, <4>1, <4>2 DEF StreamInv
    <3>4. CASE Passes(ui, ui')
      <4>0. Wanted' <=> Wanted
        BY <3>4 DEF Passes, Wanted
      <4>1. FlowInv'
        BY <1>0, <1>8, <2>0, <2>1, <3>1, <3>2, <3>4, <4>0 DEF FlowInv, Passes
      <4>2. TouchInv'
        BY <1>5, <1>8, <2>2, <2>3, <3>1, <3>2, <3>4, <4>0 DEF TouchInv, Passes
      <4> QED BY <1>3, <1>6, <1>7, <4>1, <4>2 DEF StreamInv
    <3> QED BY <2>5, <3>3, <3>4 DEF GoesOn
  <2>6. CASE SubmitsCommand
    <3>1. /\ ui.desired # None /\ ui.specs = None /\ ui.preparing = None
          /\ ui.desired = newest /\ newest' = newest /\ ~stdin.unseen /\ Wanted
      BY <2>1, <2>6 DEF SubmitsCommand, Wanted
    <3>2. driver'.command = newest /\ driver'.ack = "none"
      BY <2>6, <3>1 DEF SubmitsCommand
    <3>3. \A t \in Targets : Begun(t) => t < newest
      BY <2>2, <3>1
    <3>4. /\ ui'.desired = None /\ ui'.preparing = None /\ ui'.specs = None
          /\ ui'.pending \in {None, newest}
      BY <2>6, <3>1 DEF SubmitsCommand, NoFlow
    <3>5. FlowInv'
      BY <1>0, <1>8, <2>0, <2>1, <3>1, <3>2, <3>4 DEF FlowInv, Wanted
    <3>6. TouchInv'
      BY <1>5, <1>8, <2>3, <3>1, <3>2, <3>3, <3>4 DEF TouchInv, Wanted
    <3> QED BY <1>3, <1>6, <1>7, <3>5, <3>6 DEF StreamInv
  <2> QED BY <2>0, <2>4, <2>5, <2>6
<1> QED BY <1>10, <1>11

(* A preparation or a receipt is in, and the next iteration begins: a result  *)
(* is dropped for what came after it or becomes the record wanted, and a      *)
(* record the driver refused is wanted again unless another one is.           *)
Overtaken ==
    /\ ui.preparing # None /\ ui'.preparing = None /\ ui'.specs = ui.specs
    /\ ui'.desired = ui.desired /\ ui'.pending = ui.pending
    /\ ui.specs # None \/ stdin.unseen \/ stdin.closed
Ready ==
    /\ ui.preparing # None /\ ui.specs = None /\ ui'.specs = None /\ ui'.preparing = None
    /\ ui'.desired = ui.preparing /\ ui'.pending = ui.pending
Answered ==
    /\ ui.pending # None /\ driver.ack # "none" /\ ui'.pending = None
    /\ ui'.preparing = ui.preparing /\ ui'.specs = ui.specs
    /\ \/ ui'.desired = ui.desired
       \/ ~Wanted /\ driver.ack # "Applied" /\ ui'.desired = ui.pending
BackAtTop ==
    /\ OnStdin /\ ui.phase = "select" /\ ui.stop = "none" /\ ui'.phase = "top"
    /\ ui' \in Frontends /\ SameReports(ui, ui')
    /\ ui.summary \subseteq ui.stats => ui'.summary \subseteq ui'.stats
    /\ driver' \in Drivers /\ SameCommand(driver, driver')
    /\ UNCHANGED <<setup, shutdown, stdin, recent, status, events, writer, grace, newest, reported>>
    /\ ui'.stop # "none" \/ Overtaken \/ Ready \/ Answered

LEMMA BackAtTopKeeps ==
    ASSUME StreamInv, BackAtTop
    PROVE  StreamInv'
<1>0. OnStdin' = OnStdin /\ ui.phase \notin Settled /\ ui'.phase \notin Settled
  BY DEF BackAtTop, OnStdin, Settled
<1>1. FrontTyped
  BY SameFront DEF BackAtTop, FrontTyped, SameCommand, SameDriver
<1>2. Typed' /\ SummaryBacked'
  <2>1. Typed'
    BY <1>1 DEF StreamInv, Typed, BackAtTop, FrontTyped, Writers
  <2> QED BY <1>0, <2>1 DEF StreamInv, SummaryBacked, BackAtTop
<1>3. OnceStep
  BY <1>1 DEF BackAtTop, FrontTyped, OnceStep, SameReports, Settled
<1>4. OnceInv'
  BY <1>2, <1>3, OnceKept DEF StreamInv
<1>5. EndInv'
  BY <1>1, LoopEnds DEF BackAtTop, SameCommand, SameDriver
<1>6. \A t \in Targets : Begun(t)' <=> Begun(t)
  BY DEF BackAtTop, Begun, Ended, SameReports, SameCommand, SameDriver
<1>7. driver'.command = driver.command /\ driver'.ack = driver.ack
  BY DEF BackAtTop, SameCommand
<1>8. FlowInv' /\ TouchInv'
  <2>1. CASE ui'.stop # "none"
    BY <1>0, <1>6, <1>7, <2>1 DEF StreamInv, FlowInv, TouchInv, BackAtTop
  <2>2. CASE ui'.stop = "none"
    <3>0. stdin' = stdin /\ newest' = newest /\ OnStdin /\ ui.stop = "none"
          /\ ui.phase = "select" /\ ui'.phase = "top"
      BY DEF BackAtTop
    <3>1. /\ stdin.closed <=> stdin.stop # "none"
          /\ driver.ack # "none" => driver.command = None
          /\ newest <= stdin.revision
          /\ stdin.unseen /\ ~stdin.closed => newest < stdin.revision
          /\ ui.specs # None => ui.specs = newest
          /\ ui.preparing # None /\ ui.specs = None => ui.preparing = newest
          /\ ui.desired # None => ui.specs = None /\ ui.preparing = None /\ ui.desired = newest
          /\ driver.command <= newest
          /\ Wanted /\ driver.command # None => driver.command < newest
          /\ ui.pending # None => driver.command \in {None, ui.pending}
          /\ ui.pending # None /\ ~Wanted => ui.pending = newest
      BY <3>0 DEF StreamInv, FlowInv
    <3>2. \A t \in Targets : Begun(t) =>
            /\ driver.command # None => t < driver.command
            /\ t <= newest
            /\ Wanted => t < newest
            /\ ui.pending # None /\ driver.ack # "Applied" => t < ui.pending
      BY <1>0, <3>0 DEF StreamInv, TouchInv
    <3>3. CASE Overtaken
      <4>1. Wanted /\ ui'.desired = None
        BY <3>1, <3>3 DEF Overtaken, Wanted
      <4>2. FlowInv'
        BY <1>0, <1>7, <2>2, <3>0, <3>1, <3>3, <4>1 DEF FlowInv, Overtaken, Wanted
      <4>3. TouchInv'
        BY <1>0, <1>6, <1>7, <2>2, <3>0, <3>2, <3>3, <4>1 DEF TouchInv, Overtaken
      <4> QED BY <4>2, <4>3
    <3>4. CASE Ready
      <4>1. Wanted /\ ui'.desired = newest
        BY <3>1, <3>4 DEF Ready, Wanted
      <4>2. FlowInv'
        BY <1>0, <1>7, <2>2, <3>0, <3>1, <3>4, <4>1 DEF FlowInv, Ready, Wanted
      <4>3. TouchInv'
        BY <1>0, <1>6, <1>7, <2>2, <3>0, <3>2, <3>4, <4>1 DEF TouchInv, Ready
      <4> QED BY <4>2, <4>3
    <3>5. CASE Answered
      <4>1. driver.command = None /\ ui'.pending = None /\ driver.ack # "none"
        BY <3>1, <3>5 DEF Answered
      <4>2. CASE ui'.desired = ui.desired
        <5>1. Wanted' <=> Wanted
          BY <3>5, <4>2 DEF Answered, Wanted
        <5>2. FlowInv'
          BY <1>0, <1>7, <2>2, <3>0, <3>1, <3>5, <4>1, <4>2, <5>1 DEF FlowInv, Answered
        <5>3. TouchInv'
          BY <1>0, <1>6, <1>7, <2>2, <3>0, <3>2, <4>1, <5>1 DEF TouchInv
        <5> QED BY <5>2, <5>3
      <4>3. CASE ui'.desired # ui.desired
        <5>1. ~Wanted /\ driver.ack # "Applied" /\ ui'.desired = newest /\ ui.pending = newest
          BY <3>1, <3>5, <4>3 DEF Answered
        <5>2. ui'.specs = None /\ ui'.preparing = None
          BY <3>5, <5>1 DEF Answered, Wanted
        <5>3. FlowInv'
          BY <1>0, <1>7, <2>2, <3>0, <3>1, <4>1, <5>1, <5>2 DEF FlowInv
        <5>4. \A t \in Targets : Begun(t) => t < newest
          BY <3>2, <3>5, <5>1 DEF Answered
        <5>5. TouchInv'
          BY <1>0, <1>6, <1>7, <2>2, <3>0, <3>2, <4>1, <5>4 DEF TouchInv
        <5> QED BY <5>3, <5>5
      <4> QED BY <4>2, <4>3
    <3> QED BY <2>2, <3>3, <3>4, <3>5 DEF BackAtTop
  <2> QED BY <2>1, <2>2
<1> QED BY <1>2, <1>4, <1>5, <1>8 DEF StreamInv

LEMMA PreparedKeeps ==
    ASSUME StreamInv, NEW ok \in BOOLEAN, Prepared(ok)
    PROVE  StreamInv'
<1> DEFINE done == [ui EXCEPT !.preparing = None, !.phase = "top"]
<1>0. ui \in Frontends /\ driver \in Drivers /\ status.targets \in SUBSET Targets
  BY SameFront
<1>1. /\ ui.phase = "select" /\ ui.preparing # None /\ ui.stop = "none"
      /\ ui' = IF ~UsesResult THEN done
               ELSE IF ok THEN [done EXCEPT !.desired = ui.preparing, !.retry = None]
               ELSE StopFor(done, "Fatal", status.targets)
      /\ driver' = IF UsesResult /\ ~ok THEN Stopped ELSE driver
      /\ UNCHANGED <<setup, shutdown, stdin, recent, status, events, writer, grace, newest, reported>>
  BY DEF Prepared, At
<1>2. OnStdin
  BY <1>1 DEF StreamInv, FlowInv
<1>3. /\ done \in Frontends /\ SameReports(ui, done) /\ SameEnd(ui, done)
      /\ done.phase = "top" /\ done.preparing = None /\ done.specs = ui.specs
      /\ done.desired = ui.desired /\ done.pending = ui.pending
  BY <1>0 DEF Frontends, SameReports, SameEnd, Loop, Revisions
<1> HIDE DEF done
<1>4. driver' \in Drivers /\ SameCommand(driver, driver')
  BY <1>0, <1>1, StoppedFacts DEF StreamInv, SameCommand, SameDriver
<1>5. CASE ~UsesResult
  <2>1. ui' = done /\ (ui.specs # None \/ stdin.unseen \/ stdin.closed)
    BY <1>1, <1>5 DEF UsesResult
  <2>2. Overtaken
    BY <1>1, <1>3, <2>1 DEF Overtaken
  <2> QED BY <1>1, <1>2, <1>3, <1>4, <2>1, <2>2, BackAtTopKeeps DEF BackAtTop, SameEnd
<1>6. CASE UsesResult /\ ok
  <2>1. ui' = [done EXCEPT !.desired = ui.preparing, !.retry = None] /\ ui.specs = None
    BY <1>1, <1>6 DEF UsesResult
  <2>2. ui.preparing \in Revisions /\ None \in Nat
    BY <1>0 DEF Frontends, None
  <2>3. /\ ui' \in Frontends /\ SameReports(done, ui') /\ SameEnd(done, ui')
        /\ ui'.phase = done.phase /\ ui'.preparing = done.preparing /\ ui'.specs = done.specs
        /\ ui'.desired = ui.preparing /\ ui'.pending = done.pending
    BY <1>3, <2>1, <2>2 DEF Frontends, SameReports, SameEnd
  <2>4. Ready
    BY <1>1, <1>3, <2>1, <2>3 DEF Ready
  <2> QED BY <1>1, <1>2, <1>3, <1>4, <2>3, <2>4, BackAtTopKeeps DEF BackAtTop, SameEnd, SameReports
<1>7. CASE UsesResult /\ ~ok
  <2>1. ui' = StopFor(done, "Fatal", status.targets)
    BY <1>1, <1>7
  <2>2. /\ ui' \in Frontends /\ SameReports(done, ui') /\ ui'.stop = "Fatal"
        /\ ui'.phase = "top" /\ ui'.summary \subseteq ui'.stats
    BY <1>0, <1>3, <2>1, StopForFacts
  <2> QED BY <1>1, <1>2, <1>3, <1>4, <2>2, BackAtTopKeeps DEF BackAtTop, SameReports
<1> QED BY <1>5, <1>6, <1>7

LEMMA ReceiptKeeps ==
    ASSUME StreamInv, ReceiptArrives
    PROVE  StreamInv'
<1> DEFINE done == [ui EXCEPT !.pending = None, !.phase = "top"]
           newer == ui.desired # None \/ ui.specs # None \/ ui.preparing # None
<1>0. ui \in Frontends /\ driver \in Drivers /\ status.targets \in SUBSET Targets
  BY SameFront
<1>1. /\ ui.phase = "select" /\ ui.pending # None /\ ui.stop = "none" /\ driver.ack # "none"
      /\ ui' = CASE driver.ack = "Applied" -> [done EXCEPT !.retry = None]
                 [] driver.ack = "LimitExceeded" /\ newer -> [done EXCEPT !.retry = None]
                 [] driver.ack = "LimitExceeded" /\ ~newer -> [done EXCEPT !.desired = ui.pending]
                 [] OTHER -> StopFor(done, "Fatal", status.targets)
      /\ driver' = IF driver.ack = "Stopping" THEN Stopped ELSE driver
      /\ UNCHANGED <<setup, shutdown, stdin, recent, status, events, writer, grace, newest, reported>>
  BY DEF ReceiptArrives, At
<1>2. OnStdin
  BY <1>1 DEF StreamInv, FlowInv
<1>3. /\ done \in Frontends /\ SameReports(ui, done) /\ SameEnd(ui, done)
      /\ done.phase = "top" /\ done.pending = None /\ done.specs = ui.specs
      /\ done.desired = ui.desired /\ done.preparing = ui.preparing
  BY <1>0 DEF Frontends, SameReports, SameEnd, Loop, Revisions
<1>4. newer <=> Wanted
  BY DEF Wanted
<1> HIDE DEF done, newer
<1>5. driver' \in Drivers /\ SameCommand(driver, driver')
  BY <1>0, <1>1, StoppedFacts DEF StreamInv, SameCommand, SameDriver
<1>6. driver.ack \in {"Applied", "LimitExceeded", "Stopping"}
  BY <1>0, <1>1 DEF Drivers
<1>7. CASE driver.ack = "Applied" \/ (driver.ack = "LimitExceeded" /\ newer)
  <2>1. ui' = [done EXCEPT !.retry = None] /\ None \in Nat
    BY <1>1, <1>7 DEF None
  <2>2. /\ ui' \in Frontends /\ SameReports(done, ui') /\ SameEnd(done, ui')
        /\ ui'.phase = done.phase /\ ui'.preparing = done.preparing /\ ui'.specs = done.specs
        /\ ui'.desired = done.desired /\ ui'.pending = done.pending
    BY <1>3, <2>1 DEF Frontends, SameReports, SameEnd
  <2>3. Answered
    BY <1>1, <1>3, <2>2 DEF Answered
  <2> QED BY <1>1, <1>2, <1>3, <1>5, <2>2, <2>3, BackAtTopKeeps DEF BackAtTop, SameEnd, SameReports
<1>8. CASE driver.ack = "LimitExceeded" /\ ~newer
  <2>1. ui' = [done EXCEPT !.desired = ui.pending] /\ ui.pending \in Revisions
    BY <1>0, <1>1, <1>8 DEF Frontends
  <2>2. /\ ui' \in Frontends /\ SameReports(done, ui') /\ SameEnd(done, ui')
        /\ ui'.phase = done.phase /\ ui'.preparing = done.preparing /\ ui'.specs = done.specs
        /\ ui'.desired = ui.pending /\ ui'.pending = done.pending
    BY <1>3, <2>1 DEF Frontends, SameReports, SameEnd
  <2>3. Answered
    BY <1>1, <1>3, <1>4, <1>8, <2>2 DEF Answered
  <2> QED BY <1>1, <1>2, <1>3, <1>5, <2>2, <2>3, BackAtTopKeeps DEF BackAtTop, SameEnd, SameReports
<1>9. CASE driver.ack = "Stopping"
  <2>1. ui' = StopFor(done, "Fatal", status.targets)
    BY <1>1, <1>9
  <2>2. /\ ui' \in Frontends /\ SameReports(done, ui') /\ ui'.stop = "Fatal"
        /\ ui'.phase = "top" /\ ui'.summary \subseteq ui'.stats
    BY <1>0, <1>3, <2>1, StopForFacts
  <2> QED BY <1>1, <1>2, <1>3, <1>5, <2>2, BackAtTopKeeps DEF BackAtTop, SameReports
<1> QED BY <1>6, <1>7, <1>8, <1>9

(* One event is taken from the queue and handled.                             *)
LEMMA EventHandled ==
    ASSUME StreamInv, NEW next \in {"top", "draining"}, NEW kept \in SUBSET Targets,
           OnStdin => ui.summary \subseteq kept, ui.phase \in {"select", "draining"},
           events.queue # <<>>, events' = [events EXCEPT !.queue = Tail(events.queue)],
           Handle(Head(events.queue), next, kept),
           UNCHANGED <<setup, shutdown, stdin, driver, recent, status, writer, grace, newest>>
    PROVE  /\ Typed' /\ FlowInv' /\ TouchInv' /\ OnceInv' /\ SummaryBacked' /\ FrontTyped
           /\ ui'.phase \in {next, "sending"} /\ ui'.after = next /\ ui'.stop = ui.stop
           /\ ui'.failed = ui.failed
<1> DEFINE q == events.queue  e == Head(q)
<1>0. /\ Typed /\ q \in Seq(Happenings) /\ e \in Happenings /\ ui \in Frontends
      /\ Tail(q) \in Seq(Happenings) /\ e = q[1] /\ 1 \in DOMAIN q
  BY SameFront, HeadTailProperties, LenProperties DEF StreamInv
<1>1. /\ ui' \in Frontends /\ ui'.phase \in {next, "sending"} /\ ui'.after = next
      /\ SameFlow(ui, ui') /\ ui'.stop = ui.stop /\ ui'.summary = ui.summary
      /\ ui'.snap = ui.snap /\ ui'.rest = ui.rest /\ ui'.failed = ui.failed
      /\ ui.summary \subseteq ui.stats /\ ui.summary \subseteq kept =>
           ui'.summary \subseteq ui'.stats
      /\ reported' \in [Targets -> Nat]
      /\ NotTold \/ (e.kind = "finished" /\ Told(e.target))
  BY <1>0, HandleFacts
<1>2. /\ events' \in [queue : Seq(Happenings), lagged : BOOLEAN] /\ events'.queue = Tail(q)
      /\ Shifted(q, Tail(q), 1)
  BY <1>0, TailShifts DEF Typed
<1>3. FrontTyped
  BY <1>1, <1>2, SameFront DEF FrontTyped
<1>4. ui.phase \notin Settled /\ ui'.phase \notin Settled /\ ui.phase \notin {"top", "decide"}
      /\ ui'.phase \notin {"report", "summaries"}
  BY <1>1 DEF Settled
<1>5. CASE NotTold
  <2>1. FrontCalm
    BY <1>1, <1>3, <1>4, <1>5 DEF FrontCalm, NotTold
  <2> QED BY <1>1, <1>3, <2>1, FrontCalmKeeps
<1>6. CASE e.kind = "finished" /\ Told(e.target)
  <2> DEFINE y == e.target  s == ui.terminal  r == ui'.terminal
  <2>1. Typed'
    BY <1>1, <1>3 DEF StreamInv, Typed, FrontTyped, Writers
  <2>2. FlowStep
    BY <1>1, <1>4 DEF FlowStep
  <2>3. FlowInv'
    BY <2>1, <2>2, FlowKept DEF StreamInv
  <2>4. OnceInv'
    BY <1>0, <1>2, <1>4, <1>6, <2>1, HeadKeepsOnce DEF StreamInv
  <2>5. SummaryBacked'
    BY <1>1 DEF StreamInv, SummaryBacked, OnStdin
  <2>6. y \in Targets /\ Waits(q, y)
    BY <1>0, <1>6 DEF Happenings, Waits
  <2>7. s \in Seq(Targets) /\ Len(s) <= OutcomeLimit /\ OutcomeLimit \in Nat /\ OutcomeLimit > 0
    BY LimitPositive DEF StreamInv, Typed, Frontends, OnceInv
  <2>8. r = Append(IF Len(s) = OutcomeLimit THEN Tail(s) ELSE s, y)
    BY <1>6 DEF Told, Insert
  <2>9. \A t : Within(r, t) => t = y \/ Within(s, t)
    <3> HIDE DEF r, s, y
    <3>1. r \in Seq(Targets) /\ \E d \in {0, 1} : Slid(s, r, y, d)
      BY <2>6, <2>7, <2>8, Slides
    <3> QED BY <2>6, <2>7, <3>1, SlidFacts
  <2>10. ASSUME NEW t \in Targets, Begun(t)' PROVE Begun(t)
    <3>1. Waits(events'.queue, t) => Waits(q, t)
      BY <1>2, ShiftedWaits
    <3>2. reported'[t] # 0 => t = y \/ reported[t] # 0
      BY <1>6 DEF Told, StreamInv, Typed
    <3> HIDE DEF y, q
    <3> QED BY <2>6, <2>9, <2>10, <3>1, <3>2 DEF Begun, Ended, q
  <2>11. TouchInv'
    BY <1>4, <2>1, <2>2, <2>10, TouchKept DEF StreamInv
  <2> QED BY <1>1, <1>3, <2>1, <2>3, <2>4, <2>5, <2>11
<1> QED BY <1>1, <1>5, <1>6

LEMMA ReceiveEventKeeps ==
    ASSUME StreamInv, ReceiveEvent
    PROVE  StreamInv'
<1> DEFINE kept == IF OnStdin THEN status.targets \cup ui.summary ELSE Targets
           quiet == reported' = reported /\ (ui' = Goto(ui, "top") \/ ui' = LeaveLoop(ui))
           next == events' = [events EXCEPT !.queue = Tail(events.queue)]
<1>0. /\ ui.phase = "select" /\ ui \in Frontends
      /\ UNCHANGED <<setup, shutdown, stdin, driver, recent, status, writer, grace, newest>>
      /\ events \in [queue : Seq(Happenings), lagged : BOOLEAN]
  BY SameFront DEF ReceiveEvent, At
<1>1. \/ quiet /\ events' \in {events, [events EXCEPT !.lagged = FALSE]}
      \/ quiet /\ next /\ events.queue # <<>>
      \/ events.queue # <<>> /\ next /\ Handle(Head(events.queue), "top", kept)
  BY DEF ReceiveEvent
<1>2. CASE /\ quiet
           /\ \/ events' \in {events, [events EXCEPT !.lagged = FALSE]}
              \/ next /\ events.queue # <<>>
  <2>1. /\ ui' \in Frontends /\ ui'.phase \in {"top", "joining"} /\ SameReports(ui, ui')
        /\ SameFlow(ui, ui') \/ NoFlow(ui')
        /\ SameEnd(ui, ui')
    <3>1. CASE ui' = Goto(ui, "top")
      BY <1>0, <3>1, GotoFacts DEF Loop
    <3>2. CASE ui' = LeaveLoop(ui)
      BY <1>0, <3>2, LeaveFacts
    <3> QED BY <1>2, <3>1, <3>2
  <2>2. /\ events' \in [queue : Seq(Happenings), lagged : BOOLEAN]
        /\ \E k \in Nat : Shifted(events.queue, events'.queue, k)
    <3>1. CASE events' \in {events, [events EXCEPT !.lagged = FALSE]}
      <4>1. events' \in [queue : Seq(Happenings), lagged : BOOLEAN] /\ events'.queue = events.queue
        BY <1>0, <3>1
      <4> QED BY <4>1, SameFront
    <3>2. CASE next /\ events.queue # <<>>
      <4>1. Tail(events.queue) \in Seq(Happenings)
        BY <1>0, <3>2, HeadTailProperties
      <4>2. /\ events' \in [queue : Seq(Happenings), lagged : BOOLEAN]
            /\ events'.queue = Tail(events.queue)
        BY <1>0, <3>2, <4>1
      <4> QED BY <1>0, <3>2, <4>2, TailShifts
    <3> QED BY <1>2, <3>1, <3>2
  <2>3. FrontCalm
    BY <1>0, <1>2, <2>1, <2>2, SameFront DEF FrontCalm, FrontTyped, SameReports, SameEnd, Settled
  <2>4. EndInv'
    BY <1>0, <2>1, <2>3, LoopEnds DEF FrontCalm, SameEnd
  <2> QED BY <2>3, <2>4, FrontCalmKeeps DEF StreamInv
<1>3. CASE events.queue # <<>> /\ next /\ Handle(Head(events.queue), "top", kept)
  <2>1. kept \in SUBSET Targets /\ (OnStdin => ui.summary \subseteq kept)
    BY <1>0, SameFront DEF Frontends
  <2> HIDE DEF kept
  <2>2. /\ Typed' /\ FlowInv' /\ TouchInv' /\ OnceInv' /\ SummaryBacked' /\ FrontTyped
        /\ ui'.phase \in {"top", "sending"} /\ ui'.after = "top" /\ ui'.stop = ui.stop
    BY <1>0, <1>3, <2>1, EventHandled
  <2>3. EndInv'
    BY <1>0, <2>2, LoopEnds
  <2> QED BY <2>2, <2>3 DEF StreamInv
<1> QED BY <1>1, <1>2, <1>3

(* The end is on its way: nothing that decides it changes.                    *)
LEMMA EndsStay ==
    ASSUME StreamInv, FrontTyped, driver'.phase = driver.phase, grace' = grace,
           ui'.stop = ui.stop, driver.phase = "ended",
           ui.phase \notin {"returning", "returned"},
           ui'.phase \in {"draining", "report", "sending"}
    PROVE  EndInv'
<1>1. OnStdin' = OnStdin
  BY DEF FrontTyped, OnStdin
<1> QED BY <1>1 DEF StreamInv, EndInv, FrontTyped

LEMMA SendChunkKeeps ==
    ASSUME StreamInv, SendChunk
    PROVE  StreamInv'
<1>0. ui \in Frontends /\ writer \in Writers /\ ui.after \in {"top", "draining"}
  BY SameFront DEF Frontends
<1>1. /\ ui.phase = "sending" /\ ui' = Goto(ui, ui.after)
      /\ writer' = IF shutdown THEN writer ELSE [writer EXCEPT !.queued = writer.queued + 1]
      /\ UNCHANGED <<setup, shutdown, stdin, driver, recent, status, events, grace, newest, reported>>
  BY DEF SendChunk, At, Enqueue
<1>2. /\ ui' \in Frontends /\ ui'.phase = ui.after /\ SameFlow(ui, ui') /\ SameEnd(ui, ui')
      /\ ui'.terminal = ui.terminal
  BY <1>0, <1>1, GotoFacts DEF SameReports, Loop
<1>3. writer' \in Writers
  <2>1. writer.queued + 1 \in Int
    BY <1>0 DEF Writers
  <2> QED BY <1>0, <1>1, <2>1 DEF Writers
<1>4. FrontCalm
  BY <1>0, <1>1, <1>2, <1>3, SameFront DEF FrontCalm, FrontTyped, SameEnd, Settled
<1>5. EndInv'
  <2>1. CASE ui.after = "top"
    BY <1>1, <1>2, <1>4, <2>1, LoopEnds DEF FrontCalm, SameEnd
  <2>2. CASE ui.after = "draining"
    <3>1. driver.phase = "ended"
      BY <1>1, <2>2 DEF StreamInv, EndInv
    <3> QED BY <1>1, <1>2, <1>4, <2>2, <3>1, EndsStay DEF FrontCalm, SameEnd
  <2> QED BY <1>0, <2>1, <2>2
<1> QED BY <1>4, <1>5, FrontCalmKeeps DEF StreamInv

LEMMA JoinKeeps ==
    ASSUME StreamInv, Join
    PROVE  StreamInv'
<1>1. /\ ui.phase = "joining" /\ driver.phase = "ended" /\ ui' = Goto(ui, "draining")
      /\ UNCHANGED <<setup, shutdown, stdin, driver, recent, status, events, writer, grace, newest, reported>>
  BY DEF Join, At
<1>2. /\ ui' \in Frontends /\ ui'.phase = "draining" /\ SameFlow(ui, ui') /\ SameEnd(ui, ui')
      /\ ui'.terminal = ui.terminal
  BY <1>1, SameFront, GotoFacts DEF SameReports
<1>3. FrontCalm
  BY <1>1, <1>2, SameFront DEF FrontCalm, FrontTyped, SameEnd, Settled
<1>4. EndInv'
  BY <1>1, <1>2, <1>3, EndsStay DEF FrontCalm, SameEnd
<1> QED BY <1>3, <1>4, FrontCalmKeeps DEF StreamInv

LEMMA DrainEventKeeps ==
    ASSUME StreamInv, DrainEvent
    PROVE  StreamInv'
<1>0. /\ ui.phase = "draining" /\ ui \in Frontends
      /\ UNCHANGED <<setup, shutdown, stdin, driver, recent, status, writer, grace, newest>>
      /\ events \in [queue : Seq(Happenings), lagged : BOOLEAN]
  BY SameFront DEF DrainEvent, At
<1>1. driver.phase = "ended"
  BY <1>0 DEF StreamInv, EndInv
<1>2. CASE events' = [events EXCEPT !.lagged = FALSE] /\ UNCHANGED <<ui, reported>>
  <2>1. /\ events' \in [queue : Seq(Happenings), lagged : BOOLEAN]
        /\ events'.queue = events.queue
    BY <1>0, <1>2
  <2>2. FrontCalm
    BY <1>0, <1>2, <2>1, SameFront, UiFlowSame DEF FrontCalm, FrontTyped, Settled
  <2>3. EndInv'
    BY <1>0, <1>1, <1>2, <2>2, EndsStay DEF FrontCalm
  <2> QED BY <2>2, <2>3, FrontCalmKeeps DEF StreamInv
<1>3. CASE /\ events.queue # <<>> /\ events' = [events EXCEPT !.queue = Tail(events.queue)]
           /\ Handle(Head(events.queue), "draining", Targets)
  <2>1. Targets \in SUBSET Targets /\ ui.summary \subseteq Targets
    BY <1>0 DEF Frontends
  <2>2. /\ Typed' /\ FlowInv' /\ TouchInv' /\ OnceInv' /\ SummaryBacked' /\ FrontTyped
        /\ ui'.phase \in {"draining", "sending"} /\ ui'.after = "draining" /\ ui'.stop = ui.stop
    BY <1>0, <1>3, <2>1, EventHandled
  <2>3. EndInv'
    BY <1>0, <1>1, <2>2, EndsStay
  <2> QED BY <2>2, <2>3 DEF StreamInv
<1> QED BY <1>2, <1>3 DEF DrainEvent

LEMMA BeginReportKeeps ==
    ASSUME StreamInv, BeginReport
    PROVE  StreamInv'
<1>1. /\ ui.phase = "draining" /\ ui' = [ui EXCEPT !.phase = "report", !.rest = recent]
      /\ UNCHANGED <<setup, shutdown, stdin, driver, recent, status, events, writer, grace, newest, reported>>
      /\ ui \in Frontends /\ recent \in Seq(Targets)
  BY DEF BeginReport, At, StreamInv, Typed
<1>2. /\ ui' \in Frontends /\ ui'.phase = "report" /\ SameFlow(ui, ui') /\ SameEnd(ui, ui')
  BY <1>1 DEF Frontends, SameFlow, SameEnd, Settled
<1>3. FrontTyped /\ FlowStep
  BY <1>1, <1>2, SameFront DEF FrontTyped, FlowStep, SameEnd
<1>4. Typed' /\ SummaryBacked'
  BY <1>1, <1>2 DEF StreamInv, Typed, SummaryBacked, OnStdin, SameEnd
<1>5. FlowInv' /\ OnceInv'
  BY <1>3, <1>4, FlowKept, BeginReportKeepsOnce DEF StreamInv
<1>6. TouchInv'
  BY <1>2 DEF TouchInv, Settled
<1>7. driver.phase = "ended"
  BY <1>1 DEF StreamInv, EndInv
<1>8. EndInv'
  BY <1>1, <1>2, <1>3, <1>7, EndsStay DEF SameEnd
<1> QED BY <1>4, <1>5, <1>6, <1>8 DEF StreamInv

LEMMA ReportOutcomeKeeps ==
    ASSUME StreamInv, ReportOutcome
    PROVE  StreamInv'
<1> DEFINE y == Head(ui.rest)
           list == IF IsReported(y) THEN ui.terminal ELSE Insert(ui.terminal, y)
<1>1. /\ ui.phase = "report" /\ ui.rest # <<>>
      /\ ui' = [ui EXCEPT !.rest = Tail(ui.rest), !.terminal = list]
      /\ reported' = IF IsReported(y) THEN reported ELSE [reported EXCEPT ![y] = reported[y] + 1]
      /\ UNCHANGED <<setup, shutdown, stdin, driver, recent, status, events, writer, grace, newest>>
      /\ ui \in Frontends /\ reported \in [Targets -> Nat]
  BY DEF ReportOutcome, At, StreamInv, Typed
<1>2. y \in Targets /\ Tail(ui.rest) \in Seq(Targets)
  BY <1>1, HeadTailProperties DEF Frontends
<1>3. list \in Seq(Targets)
  BY <1>1, <1>2, InsertTyped DEF StreamInv, Frontends
<1>4. reported' \in [Targets -> Nat]
  <2> HIDE DEF y
  <2> QED BY <1>1, <1>2
<1> HIDE DEF y, list
<1>5. /\ ui' \in Frontends /\ ui'.phase = "report" /\ SameFlow(ui, ui') /\ SameEnd(ui, ui')
  BY <1>1, <1>2, <1>3 DEF Frontends, SameFlow, SameEnd
<1>6. FrontTyped /\ FlowStep
  BY <1>1, <1>5, SameFront DEF FrontTyped, FlowStep, SameEnd
<1>7. Typed' /\ SummaryBacked'
  BY <1>1, <1>4, <1>5 DEF StreamInv, Typed, SummaryBacked, OnStdin, SameEnd
<1>8. FlowInv' /\ OnceInv'
  BY <1>6, <1>7, FlowKept, ReportKeepsOnce DEF StreamInv
<1>9. TouchInv'
  BY <1>5 DEF TouchInv, Settled
<1>10. driver.phase = "ended"
  BY <1>1 DEF StreamInv, EndInv
<1>11. EndInv'
  BY <1>1, <1>5, <1>6, <1>10, EndsStay DEF SameEnd
<1> QED BY <1>7, <1>8, <1>9, <1>11 DEF StreamInv

LEMMA BeginSummariesKeeps ==
    ASSUME StreamInv, BeginSummaries
    PROVE  StreamInv'
<1> DEFINE u == IF OnStdin /\ shutdown THEN StopInterrupted(ui) ELSE ui
           left == IF OnStdin THEN StdinSummaryChunks(u) ELSE FixedSummaryChunks(u)
           failed == IF OnStdin THEN StdinFails(u) ELSE FixedFails(u)
<1>0. ui \in Frontends
  BY SameFront
<1>1. /\ ui.phase = "report" /\ ui.rest = <<>>
      /\ ui' = [u EXCEPT !.phase = "summaries", !.left = left, !.failed = failed]
      /\ UNCHANGED <<setup, shutdown, stdin, driver, recent, status, events, writer, grace, newest, reported>>
  BY DEF BeginSummaries, At
<1>2. /\ u \in Frontends /\ SameReports(ui, u) /\ SameFlow(ui, u)
      /\ u.stop = IF OnStdin /\ shutdown THEN "Interrupted" ELSE ui.stop
      /\ ui.summary \subseteq ui.stats => u.summary \subseteq u.stats
  BY <1>0, InterruptedFacts, UiFlowSame
<1>3. left \in Int
  <2>1. Cardinality(u.summary) \in Nat /\ Cardinality(u.stats) \in Nat
    BY <1>2, TargetsCounted DEF Frontends
  <2> HIDE DEF u
  <2> QED BY <2>1 DEF StdinSummaryChunks, FixedSummaryChunks
<1>4. failed \in BOOLEAN
  BY DEF StdinFails, FixedFails, PeerCloseRunError
<1> HIDE DEF u, left
<1>5. /\ ui' \in Frontends /\ ui'.phase = "summaries" /\ SameFlow(u, ui') /\ SameEnd(u, ui')
      /\ ui'.terminal = u.terminal /\ ui'.failed = failed
  <2> HIDE DEF failed
  <2> QED BY <1>1, <1>2, <1>3, <1>4 DEF Frontends, SameFlow, SameEnd, Settled
<1>6. SameFlow(ui, ui') /\ ui'.stop = u.stop /\ ui'.terminal = ui.terminal
  BY <1>2, <1>5 DEF SameFlow, SameEnd, SameReports
<1>7. FrontTyped /\ FlowStep
  BY <1>1, <1>2, <1>5, <1>6, SameFront DEF FrontTyped, FlowStep, SameEnd
<1>8. Typed' /\ SummaryBacked'
  BY <1>1, <1>2, <1>5 DEF StreamInv, Typed, SummaryBacked, OnStdin, SameEnd
<1>9. FlowInv' /\ OnceInv'
  BY <1>1, <1>5, <1>6, <1>7, <1>8, FlowKept, SummariesKeepOnce DEF StreamInv
<1>10. TouchInv'
  BY <1>5 DEF TouchInv, Settled
<1>11. EndInv'
  <2>0. OnStdin' = OnStdin /\ driver.phase = "ended" /\ (grace # "unset" => shutdown)
    BY <1>1 DEF StreamInv, EndInv, OnStdin
  <2>1. ~OnStdin => u.stop = ui.stop /\ (ui.stop = "Interrupted" => shutdown)
                    /\ recent # <<>> /\ ui.stop # "Fatal"
    BY <1>1, <1>2, <2>0 DEF StreamInv, EndInv, FlowInv
  <2>2. ~failed /\ ~shutdown =>
           /\ u.stop # "Fatal"
           /\ OnStdin \/ (driver.good /\ ~(setup.continuous /\ driver.peerClosed))
    BY <2>1 DEF StdinFails, FixedFails, PeerCloseRunError, Excused
  <2> HIDE DEF failed
  <2> QED BY <1>1, <1>5, <1>6, <2>0, <2>1, <2>2 DEF StreamInv, EndInv
<1> QED BY <1>8, <1>9, <1>10, <1>11 DEF StreamInv

LEMMA ArmFacts ==
    ASSUME StreamInv, Arm
    PROVE  grace' \in {"unset", "armed", "over"} /\ (grace' # "unset" => shutdown)
BY DEF StreamInv, Typed, EndInv, Arm

LEMMA SendSummaryKeeps ==
    ASSUME StreamInv, SendSummary
    PROVE  StreamInv'
<1>0. ui \in Frontends /\ writer \in Writers
  BY SameFront
<1>1. /\ ui.phase = "summaries" /\ ui' \in {ui, [ui EXCEPT !.left = ui.left - 1]}
      /\ writer' \in {writer, [writer EXCEPT !.queued = writer.queued + 1]}
      /\ UNCHANGED <<setup, shutdown, stdin, driver, recent, status, events, newest, reported>>
  BY DEF SendSummary, At, Enqueue
<1>2. grace' \in {"unset", "armed", "over"} /\ (grace' # "unset" => shutdown)
  BY ArmFacts DEF SendSummary
<1>3. ui.left - 1 \in Int /\ writer.queued + 1 \in Int
  BY <1>0 DEF Frontends, Writers
<1>4. /\ ui' \in Frontends /\ ui'.phase = "summaries" /\ SameFlow(ui, ui') /\ SameEnd(ui, ui')
      /\ SameReports(ui, ui')
  BY <1>0, <1>1, <1>3 DEF Frontends, SameFlow, SameEnd, SameReports
<1>5. writer' \in Writers
  BY <1>0, <1>1, <1>3 DEF Writers
<1>6. FrontCalm
  BY <1>1, <1>2, <1>4, <1>5, SameFront
  DEF FrontCalm, FrontTyped, SameEnd, SameReports, Settled
<1>7. EndInv'
  BY <1>1, <1>2, <1>4 DEF StreamInv, EndInv, OnStdin, SameEnd, SameReports
<1> QED BY <1>6, <1>7, FrontCalmKeeps DEF StreamInv

LEMMA EndOutputKeeps ==
    ASSUME StreamInv, EndOutput
    PROVE  StreamInv'
<1>0. ui \in Frontends /\ writer \in Writers
  BY SameFront
<1>1. /\ ui.phase = "summaries" /\ ui' = Goto(ui, "returning")
      /\ writer' = [writer EXCEPT !.closed = TRUE]
      /\ UNCHANGED <<setup, shutdown, stdin, driver, recent, status, events, grace, newest, reported>>
  BY DEF EndOutput, At
<1>2. /\ ui' \in Frontends /\ ui'.phase = "returning" /\ SameFlow(ui, ui') /\ SameEnd(ui, ui')
      /\ SameReports(ui, ui')
  BY <1>0, <1>1, GotoFacts DEF Settled
<1>3. writer' \in Writers
  BY <1>0, <1>1 DEF Writers
<1>4. FrontCalm
  BY <1>1, <1>2, <1>3, SameFront DEF FrontCalm, FrontTyped, SameEnd, SameReports, Settled
<1>5. EndInv'
  BY <1>1, <1>2 DEF StreamInv, EndInv, OnStdin, SameEnd, SameReports
<1> QED BY <1>4, <1>5, FrontCalmKeeps DEF StreamInv

LEMMA ReturnKeeps ==
    ASSUME StreamInv, Return
    PROVE  StreamInv'
<1>0. ui \in Frontends /\ writer \in Writers
  BY SameFront
<1>1. /\ ui.phase = "returning"
      /\ UNCHANGED <<setup, shutdown, stdin, driver, recent, status, events, writer, newest, reported>>
      /\ \/ /\ Completed \/ grace = "over"
            /\ ui' = [ui EXCEPT !.phase = "returned", !.failed = ui.failed \/ writer.phase = "failed"]
         \/ ui' = ui
  BY DEF Return, At
<1>2. grace' \in {"unset", "armed", "over"} /\ (grace' # "unset" => shutdown)
  BY ArmFacts DEF Return
<1>3. (ui.failed \/ writer.phase = "failed") \in BOOLEAN
  OBVIOUS
<1>4. /\ ui' \in Frontends /\ SameFlow(ui, ui') /\ SameEnd(ui, ui') /\ ui'.terminal = ui.terminal
      /\ \/ /\ Completed \/ grace = "over"
            /\ ui'.phase = "returned" /\ ui'.failed = (ui.failed \/ writer.phase = "failed")
         \/ ui' = ui
  BY <1>0, <1>1, <1>3 DEF Frontends, SameFlow, SameEnd, Settled
<1>5. FrontCalm
  BY <1>0, <1>1, <1>2, <1>4, SameFront DEF FrontCalm, FrontTyped, SameEnd, Settled
<1>6. EndInv'
  <2>1. CASE ui' = ui
    BY <1>1, <1>2, <2>1 DEF StreamInv, EndInv, OnStdin
  <2>2. CASE ui' # ui
    <3>1. /\ Completed \/ shutdown
          /\ ui'.phase = "returned" /\ ui'.failed = (ui.failed \/ writer.phase = "failed")
      BY <1>4, <2>2 DEF StreamInv, EndInv
    <3>2. ~ui'.failed /\ ~shutdown => ~ui.failed /\ writer.phase = "done"
      BY <3>1 DEF Completed
    <3> QED BY <1>1, <1>2, <1>4, <3>1, <3>2 DEF StreamInv, EndInv, OnStdin, SameEnd
  <2> QED BY <2>1, <2>2
<1> QED BY <1>5, <1>6, FrontCalmKeeps DEF StreamInv

LEMMA WriterStoppedKeeps ==
    ASSUME StreamInv, WriterStopped
    PROVE  StreamInv'
<1>0. ui \in Frontends /\ driver \in Drivers
  BY SameFront
<1>1. /\ ui.phase \in {"select", "sending", "joining", "summaries"}
      /\ ui' = Goto(LeaveLoop(ui), "dropping") /\ driver' = Stopped
      /\ UNCHANGED <<setup, shutdown, stdin, recent, status, events, writer, grace, newest, reported>>
  BY DEF WriterStopped
<1>2. LeaveLoop(ui) \in Frontends /\ SameReports(ui, LeaveLoop(ui)) /\ NoFlow(LeaveLoop(ui))
      /\ SameEnd(ui, LeaveLoop(ui))
  BY <1>0, LeaveFacts
<1>3. /\ ui' \in Frontends /\ ui'.phase = "dropping" /\ SameFlow(LeaveLoop(ui), ui')
      /\ SameEnd(LeaveLoop(ui), ui') /\ SameReports(LeaveLoop(ui), ui')
  BY <1>1, <1>2, GotoFacts DEF Settled
<1>4. NoFlow(ui') /\ SameEnd(ui, ui') /\ ui'.terminal = ui.terminal
  BY <1>2, <1>3 DEF NoFlow, SameFlow, SameEnd, SameReports
<1>5. driver' \in Drivers /\ SameCommand(driver, driver')
  BY <1>1, StoppedFacts DEF StreamInv
<1>6. FrontCalm
  BY <1>1, <1>3, <1>4, <1>5, SameFront
  DEF FrontCalm, FrontTyped, SameEnd, SameCommand, SameDriver, Settled
<1>7. EndInv'
  BY <1>1, <1>3, <1>4, <1>5, <1>6, LoopEnds DEF FrontCalm, SameEnd, SameCommand, SameDriver
<1> QED BY <1>6, <1>7, FrontCalmKeeps DEF StreamInv

LEMMA DropRunKeeps ==
    ASSUME StreamInv, DropRun
    PROVE  StreamInv'
<1>1. /\ ui.phase = "dropping" /\ driver.phase = "ended"
      /\ ui' = [ui EXCEPT !.phase = "returned", !.failed = TRUE] /\ ui \in Frontends
      /\ UNCHANGED <<setup, shutdown, stdin, driver, recent, status, events, writer, grace, newest, reported>>
  BY SameFront DEF DropRun, At
<1>2. /\ ui' \in Frontends /\ ui'.phase = "returned" /\ SameFlow(ui, ui') /\ SameEnd(ui, ui')
      /\ ui'.terminal = ui.terminal /\ ui'.failed
  BY <1>1 DEF Frontends, SameFlow, SameEnd, Settled
<1>3. FrontCalm
  BY <1>1, <1>2, SameFront DEF FrontCalm, FrontTyped, SameEnd, Settled
<1>4. EndInv'
  BY <1>1, <1>2 DEF StreamInv, EndInv, OnStdin, SameEnd
<1> QED BY <1>3, <1>4, FrontCalmKeeps DEF StreamInv

(***************************************************************************)
(* The theorems                                                             *)
(***************************************************************************)

LEMMA InitHolds ==
    ASSUME Init
    PROVE  StreamInv
<1> DEFINE first == IF OnStdin THEN {} ELSE 1 .. setup.targets
<1>0. /\ setup \in Setups /\ setup.targets \in Nat /\ 1 .. setup.targets \subseteq Targets
      /\ 0 \in 0 .. setup.targets
  BY Constants DEF Init
<1>1. first \in SUBSET Targets
  BY <1>0
<1>2. /\ shutdown = FALSE
      /\ stdin = [revision |-> None, stop |-> "none", unseen |-> FALSE, closed |-> FALSE]
      /\ driver = [phase |-> "idle", live |-> first, over |-> {}, desired |-> first,
                   command |-> None, ack |-> "none", stop |-> FALSE,
                   peerClosed |-> FALSE, good |-> FALSE, chunks |-> 0]
      /\ status = [version |-> 1, targets |-> first, final |-> FALSE, peerClosed |-> FALSE]
      /\ ui = [phase |-> "start", after |-> "top", snap |-> status, specs |-> None,
               preparing |-> None, desired |-> None, pending |-> None, retry |-> None,
               stop |-> "none", stats |-> first, summary |-> {}, terminal |-> <<>>,
               rest |-> <<>>, left |-> 0, failed |-> FALSE]
      /\ recent = <<>> /\ events = [queue |-> <<>>, lagged |-> FALSE]
      /\ writer = [phase |-> "idle", queued |-> 0, closed |-> FALSE]
      /\ grace = "unset" /\ newest = None /\ reported = [t \in Targets |-> 0]
  BY DEF Init
<1> HIDE DEF first
<1>3. None \in Revisions /\ None \in Nat /\ None = 0
  BY DEF Revisions, None
<1>4. status \in Snapshots
  BY <1>1, <1>2 DEF Snapshots
<1>5. driver \in Drivers
  BY <1>1, <1>2, <1>3 DEF Drivers
<1>6. <<>> \in Seq(Targets) /\ <<>> \in Seq(Happenings)
  OBVIOUS
<1>7. ui \in Frontends
  BY <1>1, <1>2, <1>3, <1>4, <1>6 DEF Frontends, Loop
<1>8. stdin \in [revision : 0 .. setup.targets, stop : {"none", "Eof", "Fatal"},
                 unseen : BOOLEAN, closed : BOOLEAN]
  BY <1>0, <1>2, <1>3
<1>9. Typed
  <2>1. events \in [queue : Seq(Happenings), lagged : BOOLEAN]
    BY <1>2, <1>6
  <2>2. /\ writer \in [phase : {"idle", "busy", "failed", "done"}, queued : Int, closed : BOOLEAN]
        /\ reported \in [Targets -> Nat]
    BY <1>2
  <2>3. /\ shutdown \in BOOLEAN /\ recent \in Seq(Targets) /\ newest \in Revisions
        /\ grace \in {"unset", "armed", "over"}
    BY <1>2, <1>3, <1>6
  <2> QED BY <1>0, <1>4, <1>5, <1>7, <1>8, <2>1, <2>2, <2>3 DEF Typed
<1>10. /\ ui.phase = "start" /\ ui.stop = "none" /\ ui.terminal = <<>> /\ ui.summary = {}
       /\ ui.specs = None /\ ui.preparing = None /\ ui.desired = None /\ ui.pending = None
       /\ driver.command = None /\ driver.ack = "none" /\ driver.phase = "idle"
       /\ driver.live = first /\ events.queue = <<>> /\ stdin.revision = 0
       /\ ~stdin.closed /\ ~stdin.unseen /\ stdin.stop = "none"
  BY <1>2, <1>3
<1>11. FlowInv
  BY <1>2, <1>3, <1>10 DEF FlowInv, Wanted
<1>12. \A t : ~Within(<<>>, t) /\ ~Waits(<<>>, t)
  BY DEF Within, Waits
<1>13. \A t \in Targets : ~Ended(t) /\ reported[t] = 0
  BY <1>2, <1>10, <1>12 DEF Ended
<1>14. TouchInv
  <2>1. OnStdin => \A t \in Targets : ~Begun(t)
    BY <1>10, <1>13 DEF Begun, first
  <2> QED BY <2>1 DEF TouchInv
<1>15. OnceInv
  <2>1. ReportedFirst
    BY <1>1, <1>10, <1>12, <1>13 DEF ReportedFirst
  <2>2. Remembered
    BY <1>2, <1>12 DEF Remembered
  <2>3. Len(recent) = 0 /\ Len(ui.terminal) = 0 /\ OutcomeLimit \in Nat
    BY <1>0, <1>2, <1>10, LimitPositive
  <2> QED BY <1>2, <1>10, <1>12, <1>13, <2>1, <2>2, <2>3 DEF OnceInv
<1>16. EndInv
  BY <1>2, <1>10 DEF EndInv, first
<1> QED BY <1>9, <1>10, <1>11, <1>14, <1>15, <1>16 DEF StreamInv, SummaryBacked

LEMMA NextKeeps ==
    ASSUME StreamInv, Next
    PROVE  StreamInv'
<1>1. CASE DriverStep
  BY <1>1, ApplyKeeps, PruneKeeps, ObserveStopKeeps, SealKeeps, FinishKeeps DEF DriverStep
<1>2. CASE Environment
  <2>1. \A t \in Targets : Measures(t) => StreamInv'
    BY MeasuresKeeps
  <2>2. \A t \in driver.desired : \A why : TargetFinishes(t, why) => StreamInv'
    BY FinishKeeps DEF StreamInv, Typed, Drivers
  <2>3. \A stop \in {"none", "Eof", "Fatal"} : ReadTargetSet(stop) => StreamInv'
    BY ReadKeeps
  <2>4. Interrupt => StreamInv'
    BY OthersKeep
  <2> QED BY <1>2, <2>1, <2>2, <2>3, <2>4, Zenon DEF Environment
<1>3. CASE WriterStep \/ GraceExpires
  BY <1>3, OthersKeep
<1>4. CASE UiStep
  <2>1. \A ok \in BOOLEAN : Begin(ok) \/ Prepared(ok) => StreamInv'
    BY BeginKeeps, PreparedKeeps
  <2> QED BY <1>4, <2>1, TakeSnapshotKeeps, DecideStdinKeeps, DecideFixedKeeps, WakesUpKeeps,
             ReceiptKeeps, ReceiveEventKeeps, SendChunkKeeps, JoinKeeps, DrainEventKeeps,
             BeginReportKeeps, ReportOutcomeKeeps, BeginSummariesKeeps, SendSummaryKeeps,
             EndOutputKeeps, ReturnKeeps, WriterStoppedKeeps, DropRunKeeps
          DEF UiStep
<1> QED BY <1>1, <1>2, <1>3, <1>4 DEF Next

LEMMA StutterKeeps ==
    ASSUME StreamInv, UNCHANGED vars
    PROVE  StreamInv'
<1>1. /\ UNCHANGED <<setup, shutdown, stdin, driver, recent, status, events, ui, writer, grace>>
      /\ UNCHANGED <<newest, reported>>
  BY DEF vars
<1>2. FrontCalm
  BY <1>1, SameFront, UiFlowSame DEF FrontCalm, FrontTyped
<1>3. EndInv'
  BY <1>1 DEF StreamInv, EndInv, OnStdin
<1> QED BY <1>2, <1>3, FrontCalmKeeps DEF StreamInv

(* run_stdin_stream and run_stream_output, the reader and the stdout thread   *)
(* and the driver they share keep the inductive invariant: records reach the  *)
(* driver in order, and ends are learnt of in the order of its history.       *)
THEOREM StreamInvariant == Spec => []StreamInv
<1>1. Init => StreamInv
  BY InitHolds
<1>2. StreamInv /\ [Next]_vars => StreamInv'
  BY NextKeeps, StutterKeeps
<1> QED BY <1>1, <1>2, PTL DEF Spec

(* However many events were lost, and however short the histories are: every  *)
(* target of the last summary has its collector, no end is reported twice,    *)
(* each one the history holds is reported, and a run that returns Ok without  *)
(* an interrupt did succeed (run_stdin_stream, run_stream_output, run_stream). *)
THEOREM EndsAlwaysToldOnce == Spec => []EndToldOnce
<1>1. ASSUME StreamInv PROVE EndToldOnce
  <2>1. SummaryBacked
    BY <1>1 DEF StreamInv
  <2>2. ReportedOnce
    <3>1. \A t \in Targets : reported[t] <= 1
      BY <1>1 DEF StreamInv, OnceInv
    <3>2. ASSUME ui.phase = "summaries", NEW t \in ToSet(recent) PROVE reported[t] = 1
      <4>1. PICK i \in DOMAIN recent : recent[i] = t
        BY <3>2 DEF ToSet
      <4>2. t \in Targets /\ Within(recent, t)
        BY <1>1, <4>1, ElementOfSeq, LenProperties DEF StreamInv, Typed, Within
      <4> QED BY <1>1, <3>2, <4>2 DEF StreamInv, OnceInv
    <3> QED BY <3>1, <3>2 DEF ReportedOnce
  <2>3. SuccessTrue
    BY <1>1 DEF StreamInv, EndInv, SuccessTrue
  <2> QED BY <2>1, <2>2, <2>3 DEF EndToldOnce
<1> QED BY <1>1, StreamInvariant, PTL

(* The command a step of the loop queues is the newest record, and no other   *)
(* step queues one.                                                            *)
LEMMA OnlyNewestSubmitted ==
    ASSUME StreamInv, Next, driver'.command \notin {None, driver.command}
    PROVE  driver'.command = newest'
<1>0. driver \in Drivers
  BY SameFront
<1>1. CASE DecideStdin
  <2>1. Decided
    BY <1>1, DecideFacts DEF StreamInv
  <2>2. SubmitsCommand /\ ui.stop = "none"
    BY <2>1 DEF Decided, TakesRecord, GoesOn, SameCommand
  <2>3. ui.specs = None /\ ui.desired = newest
    BY <2>2 DEF SubmitsCommand, StreamInv, FlowInv
  <2> QED BY <2>2, <2>3 DEF SubmitsCommand
<1>2. ASSUME ~DecideStdin PROVE FALSE
  <2>1. Stopped.command = driver.command
    BY StoppedFacts DEF StreamInv, SameCommand
  <2>2. DriverStep => driver'.command \in {None, driver.command}
    BY <1>0 DEF DriverStep, ApplyUpdate, Prune, ObserveStop, Seal, TargetFinishes, Drivers
  <2>3. Environment => driver'.command \in {None, driver.command}
    BY <1>0 DEF Environment, Measures, TargetFinishes, ReadTargetSet, Interrupt, Drivers
  <2>4. WriterStep \/ GraceExpires => driver' = driver
    BY DEF WriterStep, GraceExpires
  <2>5. \A ok \in BOOLEAN : Begin(ok) \/ Prepared(ok) => driver'.command = driver.command
    BY <1>0, <2>1 DEF Begin, ReturnsEarly, Prepared, Drivers
  <2>6. DecideFixed \/ ReceiptArrives \/ WriterStopped => driver'.command = driver.command
    BY <2>1 DEF DecideFixed, ReceiptArrives, WriterStopped
  <2>7. TakeSnapshot \/ WakesUp \/ ReceiveEvent \/ SendChunk \/ Join \/ DrainEvent
        \/ BeginReport \/ ReportOutcome \/ BeginSummaries \/ SendSummary \/ EndOutput
        \/ Return \/ DropRun => driver' = driver
    BY DEF TakeSnapshot, WakesUp, ReceiveEvent, SendChunk, Join, DrainEvent, BeginReport,
           ReportOutcome, BeginSummaries, SendSummary, EndOutput, Return, DropRun
  <2> QED BY <1>2, <2>2, <2>3, <2>4, <2>5, <2>6, <2>7 DEF Next, UiStep
<1> QED BY <1>1, <1>2

(* Neither a preparation that was overtaken nor a set the driver refused      *)
(* comes back over a newer record, whatever the interleaving of the reader,   *)
(* the driver and run_stdin_stream.                                            *)
THEOREM AlwaysSubmitsNewest == Spec => SubmitsNewest
<1>1. StreamInv /\ [Next]_vars =>
        [driver'.command \notin {None, driver.command} => driver'.command = newest']_vars
  BY OnlyNewestSubmitted
<1> QED BY <1>1, StreamInvariant, PTL DEF Spec, SubmitsNewest
=============================================================================
