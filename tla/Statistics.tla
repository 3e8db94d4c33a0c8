------------------------------ MODULE Statistics ------------------------------
(***************************************************************************)
(* The statistics collector of irtt-stats: what StatsCollector::process     *)
(* does with one client event (core.rs, ipdv.rs, rolling.rs,                *)
(* normalization.rs, loss.rs), fed by the events a client session reports.  *)
(*                                                                         *)
(* The collector keeps cumulative counters, the delay-variation tracker     *)
(* that pairs the replies of adjacent probes, and two rolling windows (the  *)
(* last CountLimit events, and the events of the last TimeLimit ticks) whose *)
(* snapshots are replayed from the retained events.                         *)
(*                                                                         *)
(* An absent value (None) is the empty set, Some(x) the singleton {x}.      *)
(* Every event carries two ghosts the code does not have: id, its position  *)
(* in the stream, and truth, the server's receive count before the 32-bit   *)
(* counter wrapped it.                                                      *)
(***************************************************************************)
EXTENDS Integers, FiniteSets, Sequences, SequencesExt, FiniteSetsExt

CONSTANTS MaxProbes,      \* probes the session sends
          MaxEvents,      \* length of the event stream
          SeqSpace,       \* sequence numbers are taken modulo this (2^32)
          FirstSeq,       \* the sequence number of the first probe
          SequenceLimit,  \* CONTINUOUS_SEQUENCE_LIMIT
          CounterRange,   \* the server's count is taken modulo this (2^32)
          CountLimit,     \* rolling_count
          TimeLimit,      \* rolling_time, in ticks
          Backdating,     \* by how many ticks an event may precede the newest
          Delays          \* one-way delays of the samples

ASSUME StatsAssumption ==
    /\ {MaxProbes, MaxEvents, SequenceLimit, CountLimit} \subseteq Nat \ {0}
    /\ SeqSpace \in Nat /\ SeqSpace > 2 * MaxProbes /\ FirstSeq \in 0 .. SeqSpace - 1
    /\ CounterRange \in Nat /\ CounterRange % 2 = 0
    /\ TimeLimit \in Nat /\ Backdating \subseteq Nat /\ Delays \subseteq Nat

VARIABLES config,    \* the StatsConfig the collector was made with
          probes,    \* what the client has reported of each probe
          served,    \* ghost: the unwrapped count of the last counted reply
          history,   \* ghost: every normalized event, in arrival order
          core,      \* the counters of CoreStats
          tracker,   \* IpdvTracker
          pairs,     \* ghost: every IpdvPairUpdate returned so far
          rolling    \* RollingEvents

vars == <<config, probes, served, history, core, tracker, pairs, rolling>>

WireSeq(k) == (FirstSeq + k) % SeqSpace

-----------------------------------------------------------------------------
(* Cumulative counters. *)

NewCore ==
    [sent_events |-> 0, echo_replies |-> 0, late_unique_replies |-> 0,
     duplicate_replies |-> 0, loss_events |-> 0, warning_events |-> 0,
     untracked_late_replies |-> 0, packets_sent |-> 0, packets_received |-> 0,
     unique_replies |-> 0, duplicates |-> 0, late_packets |-> 0,
     server_packets_received |-> {}, measured |-> 0]

Measures(e, mode) == e.kind = "UniqueReply" /\ ~(e.late /\ mode = "CountOnly")

AccountUniqueReply(c, e) ==
    [c EXCEPT !.echo_replies = @ + (IF e.late THEN 0 ELSE 1),
              !.late_unique_replies = @ + (IF e.late THEN 1 ELSE 0),
              !.packets_received = @ + 1,
              !.unique_replies = @ + 1,
              !.late_packets = @ + (IF e.late THEN 1 ELSE 0),
              !.server_packets_received =
                  IF e.count = {} THEN @ ELSE {Max(@ \cup e.count)}]

\* A bug to catch: a duplicate counted as one more unique reply.
DuplicateAsUnique(c) ==
    [c EXCEPT !.duplicate_replies = @ + 1, !.packets_received = @ + 1,
              !.unique_replies = @ + 1]

ApplyDuplicateReply(c) ==
    [c EXCEPT !.duplicate_replies = @ + 1, !.packets_received = @ + 1,
              !.duplicates = @ + 1]

\* CoreStats::apply, without the delay-variation sample.
Apply(c, e, mode) ==
    CASE e.kind = "Sent" ->
           [c EXCEPT !.sent_events = @ + 1, !.packets_sent = @ + 1]
      [] e.kind = "UniqueReply" ->
           [AccountUniqueReply(c, e) EXCEPT
               !.measured = @ + (IF Measures(e, mode) THEN 1 ELSE 0)]
      [] e.kind = "DuplicateReply" -> ApplyDuplicateReply(c)
      [] e.kind = "Loss" -> [c EXCEPT !.loss_events = @ + 1]
      [] e.kind = "Warning" -> [c EXCEPT !.warning_events = @ + 1]
      [] e.kind = "UntrackedLate" ->
           [c EXCEPT !.untracked_late_replies = @ + 1,
                     !.packets_received = @ + 1, !.late_packets = @ + 1]

\* loss_stats: the percentages are quotients of these and are left out.
LossStats(c, server_received) ==
    [lost_packets |-> Max({c.packets_sent - c.unique_replies, 0}),
     upstream |-> {c.packets_sent - n : n \in server_received},
     downstream |-> {n - c.packets_received : n \in server_received}]

-----------------------------------------------------------------------------
(* Delay variation between the replies of adjacent probes.                  *)
(*                                                                         *)
(* A sample has the client's monotonic and wall send and receive times and  *)
(* whatever the server stamped; a midpoint serves as both of its ends.      *)

NewTracker == [samples |-> <<>>, sample_order |-> <<>>, completed_pairs |-> {}]

\* send_ipdv_ns and receive_ipdv_ns: the monotonic clock when both replies
\* have it, otherwise the wall clocks, otherwise nothing.
Variation(previous, current, mono, wall, client_mono, client_wall) ==
    IF previous[mono] # {} /\ current[mono] # {}
    THEN {(c - p) - (current[client_mono] - previous[client_mono]) :
             c \in current[mono], p \in previous[mono]}
    ELSE {(c - p) - (current[client_wall] - previous[client_wall]) :
             c \in current[wall], p \in previous[wall]}

SendIpdv(previous, current) ==
    Variation(previous, current, "server_receive_mono", "server_receive_wall",
              "client_send_mono", "client_send_wall")

\* A bug to catch: the wall clock preferred to the monotonic one.
ReceiveIpdvByWall(previous, current) ==
    {-v : v \in Variation(previous, current, "server_send_wall", "server_send_mono",
                          "client_receive_wall", "client_receive_mono")}

ReceiveIpdv(previous, current) ==
    {-v : v \in Variation(previous, current, "server_send_mono", "server_send_wall",
                          "client_receive_mono", "client_receive_wall")}

CompletedPair(samples, previous, current) ==
    [previous |-> previous, current |-> current,
     rtt_ipdv |-> samples[current].rtt - samples[previous].rtt,
     send_ipdv |-> SendIpdv(samples[previous], samples[current]),
     receive_ipdv |-> ReceiveIpdv(samples[previous], samples[current])]

\* One sample is added at a time, so at most one has to go.
EnforceSequenceLimit(t, limit) ==
    IF Cardinality(DOMAIN t.samples) <= limit THEN t
    ELSE LET seq == Head(t.sample_order)
         IN [samples |-> [s \in DOMAIN t.samples \ {seq} |-> t.samples[s]],
             sample_order |-> Tail(t.sample_order),
             completed_pairs |-> t.completed_pairs \ {seq, (seq + 1) % SeqSpace}]

\* A bug to catch: a reply that was overtaken by its successor's is not
\* paired with it.
PairsWithPredecessor(t, seq) ==
    SelectSeq(<<seq>>,
        LAMBDA s : /\ s \notin t.completed_pairs
                   /\ {s, (s - 1) % SeqSpace} \subseteq DOMAIN t.samples)

\* The pairs try_pair can complete for a sample that has just come in: the
\* one it ends and the one it begins, in that order.
Completable(t, seq) ==
    SelectSeq(<<seq, (seq + 1) % SeqSpace>>,
        LAMBDA s : /\ s \notin t.completed_pairs
                   /\ {s, (s - 1) % SeqSpace} \subseteq DOMAIN t.samples)

\* IpdvTracker::insert: the tracker and the pairs it returns.
InsertSample(t, sample, limits) ==
    LET seq == sample.seq
        known == seq \in DOMAIN t.samples
        samples == [s \in DOMAIN t.samples \cup {seq} |->
                       IF s = seq THEN sample ELSE t.samples[s]]
        added == [t EXCEPT !.samples = samples, !.sample_order = Append(@, seq)]
        kept == IF limits = {} THEN added
                ELSE EnforceSequenceLimit(added, Max(limits))
        done == Completable(kept, seq)
    IN IF known THEN [tracker |-> [t EXCEPT !.samples = samples], pairs |-> <<>>]
       ELSE [tracker |-> [kept EXCEPT !.completed_pairs = @ \cup Range(done)],
             pairs |-> [i \in DOMAIN done |->
                CompletedPair(kept.samples, (done[i] - 1) % SeqSpace, done[i])]]

-----------------------------------------------------------------------------
(* Rolling windows. *)

NewPosition == [packet_events |-> 0, server_received |-> {},
                server_observed_at |-> 0, counter_reset_at |-> 0]

NewRolling == [count_events |-> <<>>, time_events |-> <<>>, time_expiry |-> {},
               time_anchor |-> {}, position |-> NewPosition]

IsPacketEvent(e) == e.kind \notin {"Loss", "Warning"}

AbsDiff(a, b) == IF a > b THEN a - b ELSE b - a

\* A bug to catch: a lower count is always taken for an old reply, so a
\* counter that wrapped is never noticed.
AdvancePastWrap(p, e) ==
    LET here == p.packet_events + 1
        highest == e.count # {} /\ \A c \in e.count, r \in p.server_received : c >= r
    IN IF ~IsPacketEvent(e) THEN p
       ELSE [packet_events |-> here,
             server_received |-> IF highest THEN e.count ELSE p.server_received,
             server_observed_at |-> IF highest THEN here ELSE p.server_observed_at,
             counter_reset_at |-> p.counter_reset_at]

\* DirectionalPosition::advance: a jump of half the counter's range begins a
\* new observation segment.
Advance(p, e) ==
    LET here == p.packet_events + 1
        jumped == \E c \in e.count, r \in p.server_received :
                     AbsDiff(c, r) >= CounterRange \div 2
        received == IF jumped THEN {} ELSE p.server_received
        highest == e.count # {} /\ \A c \in e.count, r \in received : c >= r
    IN IF ~IsPacketEvent(e) THEN p
       ELSE [packet_events |-> here,
             server_received |-> IF highest THEN e.count ELSE received,
             server_observed_at |-> IF highest THEN here ELSE p.server_observed_at,
             counter_reset_at |-> IF jumped THEN here ELSE p.counter_reset_at]

\* CountWindow::push of the measurement-stats crate: the newest n events.
CountPush(window, entry) ==
    LET longer == Append(window, entry)
    IN IF Len(longer) > CountLimit THEN Tail(longer) ELSE longer

\* A bug to catch: arrivals numbered by the events now retained alone.
ArrivalByLength(anchor, length) == <<0, length>>

\* The key under which an accepted event is filed.
ArrivalKey(anchor, length) == <<anchor, length>>

\* The time window after an event: what has fallen behind the cutoff leaves
\* both indexes, and an event already behind it is not filed at all.
TimePush(r, entry) ==
    LET at == entry.event.at
        anchor == Max(r.time_anchor \cup {at})
        cutoff == anchor - TimeLimit
        expired == {x \in r.time_expiry : x[1] < cutoff}
        live == [k \in DOMAIN r.time_events \ {x[2] : x \in expired} |-> r.time_events[k]]
        key == ArrivalKey(anchor, Cardinality(DOMAIN live))
        purged == [r EXCEPT !.time_anchor = {anchor}, !.time_events = live,
                            !.time_expiry = @ \ expired]
    IN IF at < cutoff THEN purged
       ELSE [purged EXCEPT
               !.time_events = [k \in DOMAIN live \cup {key} |->
                                   IF k = key THEN entry ELSE live[k]],
               !.time_expiry = @ \cup {<<at, key>>}]

Push(r, e) ==
    LET entry == [event |-> e, before |-> r.position]
    IN TimePush([r EXCEPT !.position = Advance(r.position, e),
                          !.count_events = CountPush(@, entry)], entry)

Earlier(k, l) == k[1] < l[1] \/ (k[1] = l[1] /\ k[2] < l[2])

\* The retained events in the order a snapshot replays them.
CountEvents == rolling.count_events
TimeEvents ==
    LET keys == DOMAIN rolling.time_events
        Rank(k) == Cardinality({l \in keys : Earlier(l, k)})
    IN [i \in 1 .. Cardinality(keys) |->
           rolling.time_events[CHOOSE k \in keys : Rank(k) = i - 1]]

\* The count from which a window's increase is measured.
Baseline(start) ==
    IF start.packet_events = 0 THEN {0}
    ELSE IF start.server_observed_at = start.packet_events THEN start.server_received
    ELSE {}

\* snapshot_window: replay the events, with the directional loss taken from
\* the increase of the server's count over the window.
ServerDelta(events) ==
    LET packets == SelectSeq(events, LAMBDA x : IsPacketEvent(x.event))
        n == Len(packets)
        After(x) == Advance(x.before, x.event)
        contiguous == \A i \in 1 .. n - 1 :
            After(packets[i]).packet_events = packets[i + 1].before.packet_events
        start == packets[1].before
        end == After(packets[n])
    IN IF n = 0 \/ ~contiguous \/ start.counter_reset_at # end.counter_reset_at
       THEN {}
       ELSE {c - b : c \in end.server_received, b \in Baseline(start)}

SnapshotWindow(events) ==
    LET replay == FoldLeft(LAMBDA c, x : Apply(c, x.event, config.late_replies),
                           NewCore, events)
    IN [core |-> replay, loss |-> LossStats(replay, ServerDelta(events))]

-----------------------------------------------------------------------------
(* The stream of events. *)

\* A lost probe is forgotten, and a replied one evicted, when the client no
\* longer retains it.
ProbeStates == {"unsent", "out", "lost", "forgotten", "replied", "evicted"}

Configs == [late_replies : {"Measure", "CountOnly"},
            limit : {{}, {SequenceLimit}},
            rolling : BOOLEAN,
            stamp : {"Both", "Midpoint", "Send", "Receive"},
            clock : {"Mono", "Wall", "Both"}]

Init ==
    /\ config \in Configs
    /\ probes = [k \in 0 .. MaxProbes - 1 |-> "unsent"]
    /\ served = 0
    /\ history = <<>>
    /\ core = NewCore
    /\ tracker = NewTracker
    /\ pairs = <<>>
    /\ rolling = NewRolling

\* ReplySample::from_reply_parts, with the timing the session machine gives
\* it. Probes leave two ticks apart; the server takes one tick over the odd
\* ones; its clocks are ahead of the client's, and its wall clock is stepped
\* after the first probe.
ReplySample(k, up, down) ==
    LET sent == 2 * k
        got == sent + up
        put == got + (k % 2)
        back == put + down
        wall == IF k = 0 THEN 30 ELSE 37
        End(clock, stamp, time, ahead) ==
            IF config.clock \notin {clock, "Both"} THEN {}
            ELSE IF config.stamp \in {stamp, "Both"} THEN {time + ahead}
            ELSE IF config.stamp = "Midpoint" THEN {(got + put) \div 2 + ahead}
            ELSE {}
    IN [seq |-> WireSeq(k),
        rtt |-> (back - sent) - (IF config.stamp = "Both" THEN put - got ELSE 0),
        client_send_mono |-> sent, client_receive_mono |-> back,
        client_send_wall |-> sent + 50, client_receive_wall |-> back + 50,
        server_receive_mono |-> End("Mono", "Receive", got, 20),
        server_receive_wall |-> End("Wall", "Receive", got, wall),
        server_send_mono |-> End("Mono", "Send", put, 20),
        server_send_wall |-> End("Wall", "Send", put, wall)]

\* StatsCollector::process of one normalized event.
Process(kind, k, late, at, truth, sample) ==
    LET e == [kind |-> kind, probe |-> k, late |-> late, at |-> at,
              id |-> Len(history) + 1,
              count |-> {n % CounterRange : n \in truth}, truth |-> truth]
        inserted == InsertSample(tracker, sample, config.limit)
    IN /\ Len(history) < MaxEvents
       /\ history' = Append(history, e)
       /\ core' = Apply(core, e, config.late_replies)
       /\ IF Measures(e, config.late_replies)
          THEN /\ tracker' = inserted.tracker
               /\ pairs' = pairs \o inserted.pairs
          ELSE UNCHANGED <<tracker, pairs>>
       /\ rolling' = IF config.rolling THEN Push(rolling, e) ELSE rolling
       /\ UNCHANGED config

\* When an event happened: later than every earlier one, or backdated, as a
\* loss found late or an event of a slower queue is.
Newest == Max({0} \cup {history[i].at : i \in DOMAIN history})
Times == {Newest + 1} \cup {t \in {Newest - b : b \in Backdating} : t >= 0}

\* EchoSent
Sent(k, at) ==
    /\ probes[k] = "unsent"
    /\ \A j \in 0 .. k - 1 : probes[j] # "unsent"
    /\ probes' = [probes EXCEPT ![k] = "out"]
    /\ Process("Sent", k, FALSE, at, {}, <<>>)
    /\ UNCHANGED served

\* A bug to catch: only an answer that comes after its probe's loss is late.
NeverOvertaken(k) == FALSE

\* A newer probe than k was answered: k is before highest_received_seq.
Overtaken(k) == \E j \in DOMAIN probes : j > k /\ probes[j] \in {"replied", "evicted"}

\* EchoReply, or LateReply for a probe reported lost or overtaken: the first
\* answer the client matched, possibly with the server's count. Between two
\* counted answers the server counts fewer packets than half the counter's
\* range.
Reply(k, at, up, down, truth) ==
    /\ probes[k] \in {"out", "lost"}
    /\ \A n \in truth : n > 0 /\ AbsDiff(n, served) < CounterRange \div 2
    /\ probes' = [probes EXCEPT ![k] = "replied"]
    /\ served' = IF truth = {} THEN served ELSE Max(truth)
    /\ Process("UniqueReply", k, probes[k] = "lost" \/ Overtaken(k), at, truth,
               ReplySample(k, up, down))

\* DuplicateReply
Duplicate(k, at) ==
    /\ probes[k] = "replied"
    /\ Process("DuplicateReply", k, FALSE, at, {}, <<>>)
    /\ UNCHANGED <<probes, served>>

\* EchoLoss
Loss(k, at) ==
    /\ probes[k] = "out"
    /\ probes' = [probes EXCEPT ![k] = "lost"]
    /\ Process("Loss", k, FALSE, at, {}, <<>>)
    /\ UNCHANGED served

\* LateReply without a send time: an answer, or one more answer, to a probe the
\* client no longer retains. (Unless overtaken it is a Warning.)
UntrackedLate(k, at) ==
    /\ probes[k] \in ProbeStates \ {"unsent", "out"}
    /\ Overtaken(k)
    /\ probes' = [probes EXCEPT ![k] = IF @ \in {"lost", "forgotten"} THEN "forgotten"
                                       ELSE "evicted"]
    /\ Process("UntrackedLate", k, TRUE, at, {}, <<>>)
    /\ UNCHANGED served

Warning(at) ==
    /\ Process("Warning", -1, FALSE, at, {}, <<>>)
    /\ UNCHANGED <<probes, served>>

Counts == {{}} \cup {{n} : n \in 1 .. served + CounterRange}

Next ==
    \E at \in Times :
        \/ \E k \in DOMAIN probes :
             \/ Sent(k, at)
             \/ \E up, down \in Delays, truth \in Counts : Reply(k, at, up, down, truth)
             \/ Duplicate(k, at)
             \/ Loss(k, at)
             \/ UntrackedLate(k, at)
        \/ Warning(at)

Spec == Init /\ [][Next]_vars

-----------------------------------------------------------------------------
(* Properties. *)

\* The counters agree with what happened to the probes: the loss reported is
\* exactly the probes no answer was matched to, the losses not made good by an
\* answer are exactly the probes still given up, the late answers are those that
\* came after their probe's loss or after a newer probe's answer, and every
\* packet received is counted in one class (core.rs apply, loss.rs).
LossAgrees ==
    LET In(states) == Cardinality({k \in DOMAIN probes : probes[k] \in states})
        Is(i, kind, k) == history[i].kind = kind /\ history[i].probe = k
        answers == {i \in DOMAIN history : history[i].kind = "UniqueReply"}
        After(i, kind, k) == \E j \in 1 .. i - 1 : Is(j, kind, k)
        madeGood == {i \in answers : After(i, "Loss", history[i].probe)}
        overtaken == {i \in answers : \E k \in DOMAIN probes :
                         k > history[i].probe /\ After(i, "UniqueReply", k)}
        loss == LossStats(core, core.server_packets_received)
    IN /\ loss.lost_packets = In({"out", "lost", "forgotten"})
       /\ core.loss_events - Cardinality(madeGood) = In({"lost", "forgotten"})
       /\ core.late_unique_replies = Cardinality(madeGood \cup overtaken)
       /\ core.packets_received = core.unique_replies + core.duplicates
                                    + core.untracked_late_replies

\* Every two measured replies of adjacent probes that came within the
\* tracker's limit of each other are paired, once, in sequence order, whatever
\* order they arrived in, and no others are (IpdvTracker::insert).
PairsComplete ==
    LET measured == SelectSeq(history, LAMBDA e : Measures(e, config.late_replies))
        near == {<<i, j>> \in (DOMAIN measured) \X (DOMAIN measured) :
                    /\ i < j
                    /\ \A limit \in config.limit : j - i < limit
                    /\ AbsDiff(measured[i].probe, measured[j].probe) = 1}
        expected == {Min({measured[x[1]].probe, measured[x[2]].probe}) : x \in near}
    IN /\ Len(pairs) = Cardinality(near)
       /\ {<<p.previous, p.current>> : p \in Range(pairs)}
            = {<<WireSeq(k), WireSeq(k + 1)>> : k \in expected}

\* With monotonic server stamps the two directions of a pair add up to its
\* round-trip variation, however the server's wall clock was stepped: each
\* direction compares like with like (send_ipdv_ns, receive_ipdv_ns).
VariationAddsUp ==
    \A i \in DOMAIN pairs :
        config.clock # "Wall" =>
            \A s \in pairs[i].send_ipdv, r \in pairs[i].receive_ipdv :
                s + r = pairs[i].rtt_ipdv

\* The time window replays exactly the events that are not older than its
\* limit, in the order they arrived, and the expiry index names exactly them:
\* no arrival key is ever reused while the event under it is live.
TimeWindowLive ==
    config.rolling =>
        LET newest == Newest
            retained == TimeEvents
        IN /\ [i \in DOMAIN retained |-> retained[i].event]
                = SelectSeq(history, LAMBDA e : e.at >= newest - TimeLimit)
           /\ rolling.time_expiry
                = {<<rolling.time_events[k].event.at, k>> : k \in DOMAIN rolling.time_events}

\* Whatever directional loss a rolling snapshot reports is true of its
\* interval: no packet of the interval is missing from the window, the packet
\* just before it carried the count it starts from, and the reported loss is
\* the packets sent less the packets the server really counted, across wraps of
\* the counter and answers that overtake each other (rolling.rs).
DirectionalLossTrue ==
    \A events \in {CountEvents, TimeEvents} :
        LET packets == SelectSeq(events, LAMBDA x : IsPacketEvent(x.event))
            ids == {packets[i].event.id : i \in DOMAIN packets}
            before == SelectSeq(history, LAMBDA e : IsPacketEvent(e) /\ e.id < Min(ids))
            base == IF before = <<>> THEN {0} ELSE Last(before).truth
            counts == base \cup UNION {packets[i].event.truth : i \in DOMAIN packets}
            snapshot == SnapshotWindow(events)
        IN \A loss \in snapshot.loss.upstream :
             /\ base # {}
             /\ \A i \in Min(ids) .. Max(ids) : IsPacketEvent(history[i]) => i \in ids
             /\ loss = snapshot.core.packets_sent - (Max(counts) - Max(base))

\* The cumulative statistics are true of what happened: the counters, the pairs
\* of adjacent replies, and the two directions of each (core.rs apply, ipdv.rs).
TotalsTrue == LossAgrees /\ PairsComplete /\ VariationAddsUp

\* The rolling windows are true of their interval: the events they hold, and the
\* directional loss computed from them (rolling.rs).
RollingTrue == TimeWindowLive /\ DirectionalLossTrue
===============================================================================
