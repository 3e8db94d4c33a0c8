-------------------------------- MODULE Pacing --------------------------------
(***************************************************************************)
(* When the managed driver sends: each target's probe schedule              *)
(* (managed/schedule.rs), the burst and stagger passes and the stagger gate *)
(* (task/pacing.rs), and the one timer the driver sleeps on (next_deadline  *)
(* and register_timer of task.rs).                                          *)
(*                                                                         *)
(* One poll of the driver is a BeginPoll, a SendStep per target visited and *)
(* an EndPoll; time passes while the driver sleeps, or while a send is in   *)
(* progress. What a session does besides sending is reduced to the          *)
(* deadlines of its unanswered probes. ManagedTargets has the rest.         *)
(*                                                                         *)
(* An absent instant (None) is the empty set, a present one a singleton.    *)
(***************************************************************************)
EXTENDS Integers, FiniteSets, FiniteSetsExt

CONSTANTS Count,         \* the number of targets
          Interval,      \* the negotiated interval of each target
          Duration,      \* the negotiated duration of each, {} for continuous
          ProbeTimeout,  \* how long a probe stays unanswered
          Budgets,       \* TARGET_WORK_BUDGET
          Pacings,       \* the pacing modes explored
          Latencies,     \* how late the driver may wake, in ticks
          MaxSendTime,   \* how long a send call may take
          MaxBlocks,     \* how many sends find the socket full
          MaxTime        \* the horizon

Targets == 0 .. Count - 1

ASSUME PacingAssumption ==
    /\ {Count, ProbeTimeout} \cup Budgets \subseteq Nat \ {0}
    /\ Interval \in [Targets -> Nat \ {0}]
    /\ DOMAIN Duration = Targets
    /\ \A t \in Targets : Duration[t] \subseteq Nat \ {0} /\ Cardinality(Duration[t]) <= 1
    /\ Pacings \subseteq {"Staggered", "Burst"} /\ Latencies \subseteq Nat
    /\ {MaxSendTime, MaxBlocks, MaxTime} \subseteq Nat

VARIABLES mode,       \* the pacing configured, and how late this driver wakes
          now,        \* the clock
          stage,      \* "asleep" or "sending"
          target,     \* each target's schedule and unanswered probes
          gate,       \* send_gate
          last,       \* last_stagger_send
          cursor,     \* send_cursor
          remaining,  \* stagger_remaining or burst_remaining
          work,       \* targets this pass may still visit
          immediate,  \* the poll asks to be polled again at once
          timer,      \* the instant the timer was reset to
          woken,      \* the waker has been called
          lag,        \* ghost: ticks since the driver should have been polled
          blocks,     \* ghost: sends that found the socket full
          sends       \* ghost: when the last two sends were accepted

vars == <<mode, now, stage, target, gate, last, cursor, remaining, work, immediate,
          timer, woken, lag, blocks, sends>>

Earliest(instants) == IF instants = {} THEN {} ELSE {Min(instants)}

-----------------------------------------------------------------------------
(* The schedule of one target. *)

\* ProbeSchedule::new at the instant the session became active.
StartedAt(t, start) ==
    [phase |-> "active", start |-> start, next |-> {start}, end |-> {start + d : d \in Duration[t]},
     waiting |-> FALSE, writable |-> TRUE, pending |-> {}, slot |-> {}]

\* permit_probe_at: the end of a finite schedule finishes it.
PermitAt(s, at) == IF \E end \in s.end : at >= end THEN [s EXCEPT !.next = {}] ELSE s

\* A bug to catch: the cadence starts anew from the late send.
CadenceFromNow(deadline, interval, at) ==
    [scheduled_at |-> deadline, next_send_at |-> Max({deadline, at}) + interval]

\* advance_cadence: the last slot not after `at`, and the one that follows.
AdvanceCadence(deadline, interval, at) ==
    LET elapsed == IF at < deadline THEN 0 ELSE (at - deadline) \div interval
    IN [scheduled_at |-> deadline + interval * elapsed,
        next_send_at |-> deadline + interval * (elapsed + 1)]

\* preflight_managed_commit: no slot is left at or after the end.
Commit(t, s, deadline, at) ==
    LET advanced == AdvanceCadence(deadline, Interval[t], at)
    IN [scheduled_at |-> advanced.scheduled_at,
        next |-> IF \E end \in s.end : advanced.next_send_at >= end THEN {}
                 ELSE {advanced.next_send_at}]

\* skip_missed_slots_at, after a send that ended at `at`.
SkipMissed(t, s, at) ==
    IF \E deadline \in s.next : deadline <= at
    THEN [s EXCEPT !.next = Commit(t, s, Min(s.next), at).next]
    ELSE s

EndDeadline(s) == IF s.next = {} THEN {} ELSE s.end

-----------------------------------------------------------------------------
(* The stagger gate. *)

Active(targets) == {t \in Targets : targets[t].phase = "active"}

StaggerSpacing(interval, active) == Max({interval \div Max({active, 1}), 1})

\* active_stagger_spacing
ActiveSpacing(targets) ==
    {StaggerSpacing(Min({Interval[t] : t \in Active(targets)}), Cardinality(Active(targets))) :
        any \in IF Active(targets) = {} THEN {} ELSE {TRUE}}

StaggerTargetAdded(targets, at) ==
    LET candidates == {c \in {l + spacing : l \in last, spacing \in ActiveSpacing(targets)} : c > at}
    IN IF (\A g \in gate : g <= at) \/ candidates = {} THEN {}
       ELSE {Min(gate \cup candidates)}

StaggerTargetRemoved(at) == {g \in gate : g > at}

\* A bug to catch: a gate that fell behind catches up slot by slot.
GateCatchesUp(spacing, accepted_at) == (IF gate = {} THEN accepted_at ELSE Min(gate)) + spacing

\* next_stagger_gate: the gate keeps its own cadence unless it has fallen a
\* whole slot behind.
NextStaggerGate(spacing, accepted_at) ==
    IF \E g \in gate : g <= accepted_at /\ accepted_at - g < spacing
    THEN Min(gate) + spacing
    ELSE accepted_at + spacing

-----------------------------------------------------------------------------
(* The timer. *)

\* A bug to catch: the end of a finite run is not among the deadlines.
WithoutEnd(t) == target[t].pending

\* What a target needs to be woken for besides sending.
NonSendDeadlines(t) == target[t].pending \cup EndDeadline(target[t])

\* A gate delays a send opportunity and cannot create one.
GatedSendDeadline(cadence) ==
    IF mode.pacing = "Staggered" THEN {Max({c} \cup gate) : c \in cadence} ELSE cadence

NextDeadline ==
    LET active == Active(target)
        cadence == Earliest(UNION {target[t].next : t \in {u \in active : ~target[u].waiting}})
        others == UNION {NonSendDeadlines(t) : t \in active}
    IN Earliest(others \cup GatedSendDeadline(cadence))

-----------------------------------------------------------------------------
(* One poll of the driver. *)

Awake == woken \/ \E deadline \in timer : deadline <= now

\* The timeout and target passes of a poll: unanswered probes expire, finished
\* schedules with nothing unanswered drain, and the targets in `opened` become
\* active. Then a send pass begins, if the gate is open. Every target is visited,
\* and none opens in a poll in which another opens or leaves.
BeginPoll(opened) ==
    LET expired == [t \in Targets |->
            LET s == PermitAt(target[t], now)
                kept == [s EXCEPT !.pending = {d \in @ : d > now}]
            IN IF kept.phase # "active" THEN kept
               ELSE IF kept.next = {} /\ kept.pending = {} THEN [kept EXCEPT !.phase = "gone"]
               ELSE kept]
        started == [t \in Targets |-> IF t \in opened THEN StartedAt(t, now) ELSE expired[t]]
        open == Active(started) # {} /\ (mode.pacing = "Burst" \/ \A g \in gate' : g <= now)
    IN /\ stage = "asleep" /\ (Awake \/ opened # {})
       /\ opened \subseteq {t \in Targets : target[t].phase = "idle"}
       /\ opened # {} => Active(expired) = Active(target)
       /\ target' = started
       /\ gate' = IF opened # {} THEN StaggerTargetAdded(started, now)
                  ELSE IF Active(expired) # Active(target) THEN StaggerTargetRemoved(now)
                  ELSE gate
       /\ remaining' = IF open /\ remaining = 0 THEN Count ELSE remaining
       /\ work' = IF open THEN Min({remaining', mode.budget}) ELSE 0
       /\ stage' = "sending" /\ immediate' = FALSE /\ woken' = FALSE /\ lag' = 0
       /\ UNCHANGED <<mode, now, last, cursor, timer, blocks, sends>>

\* How poll_one_send may end for a target it visits.
NotDue(s) ==
    \/ \E deadline \in s.pending : deadline <= now
    \/ PermitAt(s, now).next = {} /\ s.pending # {}
    \/ PermitAt(s, now).next # {} /\ \A deadline \in s.next : deadline > now

\* The rest of the pass: a staggered pass ends with its first attempt.
Visited(attempted, again) ==
    /\ cursor' = (cursor + 1) % Count
    /\ work' = IF attempted /\ mode.pacing = "Staggered" THEN 0 ELSE work - 1
    /\ remaining' = IF attempted /\ mode.pacing = "Staggered" THEN 0 ELSE remaining - 1
    /\ immediate' = (immediate \/ again)
    /\ UNCHANGED <<mode, stage, timer, woken, lag>>

Visiting(t) == stage = "sending" /\ work > 0 /\ cursor = t

Skip(t) ==
    LET s == target[t]
        late == \E deadline \in s.pending : deadline <= now
    IN
    /\ Visiting(t)
    /\ s.phase # "active" \/ NotDue(s)
    /\ target' = IF s.phase # "active" THEN target
                 ELSE [target EXCEPT ![t] =
                         [(IF late THEN s ELSE PermitAt(s, now)) EXCEPT !.waiting = FALSE]]
    /\ Visited(FALSE, FALSE)
    /\ UNCHANGED <<now, gate, last, blocks, sends>>

Leaves(t) ==
    /\ target' = [target EXCEPT ![t].phase = "gone", ![t].next = {}, ![t].waiting = FALSE]
    /\ gate' = StaggerTargetRemoved(now)
    /\ UNCHANGED <<now, last, blocks, sends>>

\* The schedule is over and nothing is unanswered.
Finish(t) ==
    /\ Visiting(t) /\ target[t].phase = "active"
    /\ PermitAt(target[t], now).next = {} /\ target[t].pending = {}
    /\ Leaves(t)
    /\ Visited(TRUE, TRUE)

Due(t) ==
    /\ Visiting(t) /\ target[t].phase = "active"
    /\ ~NotDue(target[t]) /\ PermitAt(target[t], now).next # {}

\* The socket takes the probe, after `took` ticks. The peer may answer at once,
\* as far as this model can tell, or not before the timeout.
Send(t, took, answered) ==
    LET s == target[t]
        at == now + took
        commit == Commit(t, s, Min(s.next), now)
        sent == [s EXCEPT !.next = commit.next, !.slot = {commit.scheduled_at},
                          !.waiting = FALSE,
                          !.pending = IF answered THEN @ ELSE @ \cup {at + ProbeTimeout}]
    IN /\ Due(t) /\ s.writable /\ at <= MaxTime
       /\ now' = at
       /\ target' = [target EXCEPT ![t] = SkipMissed(t, sent, at)]
       /\ IF mode.pacing = "Staggered"
          THEN /\ last' = {at}
               /\ gate' = {NextStaggerGate(spacing, at) : spacing \in ActiveSpacing(target)}
          ELSE UNCHANGED <<last, gate>>
       /\ sends' = [previous |-> sends.latest, latest |-> {at}]
       /\ Visited(TRUE, TRUE)
       /\ UNCHANGED blocks

\* The socket is full: the target waits for it to become writable.
Block(t) ==
    /\ Due(t) /\ (target[t].writable => blocks < MaxBlocks)
    /\ target' = [target EXCEPT ![t].waiting = TRUE, ![t].writable = FALSE]
    /\ blocks' = IF target[t].writable THEN blocks + 1 ELSE blocks
    /\ Visited(TRUE, FALSE)
    /\ UNCHANGED <<now, gate, last, sends>>

\* The send fails: the target drains and closes.
Fail(t) == Due(t) /\ target[t].writable /\ Leaves(t) /\ Visited(TRUE, TRUE)

\* The poll ends: it asks to be polled again, or sleeps on the timer.
EndPoll ==
    /\ stage = "sending" /\ work = 0
    /\ stage' = "asleep"
    /\ woken' = (immediate \/ remaining > 0)
    /\ timer' = IF woken' THEN timer ELSE NextDeadline
    /\ UNCHANGED <<mode, now, target, gate, last, cursor, remaining, work, immediate,
                   lag, blocks, sends>>

-----------------------------------------------------------------------------
(* The surroundings. *)

\* Time passes; a driver that should be polled is late by at most its latency.
Tick ==
    /\ stage = "asleep" /\ now < MaxTime
    /\ Awake => lag < mode.latency
    /\ now' = now + 1
    /\ lag' = IF Awake THEN lag + 1 ELSE 0
    /\ UNCHANGED <<mode, stage, target, gate, last, cursor, remaining, work, immediate,
                   timer, woken, blocks, sends>>

\* A full socket becomes writable: the waker its send left behind is called.
Drained(t) ==
    /\ stage = "asleep" /\ target[t].waiting /\ ~target[t].writable
    /\ target' = [target EXCEPT ![t].writable = TRUE]
    /\ woken' = TRUE
    /\ UNCHANGED <<mode, now, stage, gate, last, cursor, remaining, work, immediate,
                   timer, lag, blocks, sends>>

Init ==
    /\ mode \in [pacing : Pacings, latency : Latencies, budget : Budgets]
    /\ now = 0 /\ stage = "asleep"
    /\ target = [t \in Targets |-> [StartedAt(t, 0) EXCEPT !.phase = "idle", !.next = {}]]
    /\ gate = {} /\ last = {} /\ cursor = 0 /\ remaining = 0 /\ work = 0
    /\ immediate = FALSE /\ timer = {} /\ woken = FALSE /\ lag = 0 /\ blocks = 0
    /\ sends = [previous |-> {}, latest |-> {}]

Opens == {{}} \cup {{t} : t \in Targets}

Next ==
    \/ \E opened \in Opens : BeginPoll(opened)
    \/ \E t \in Targets :
         \/ Skip(t)
         \/ Finish(t)
         \/ \E took \in 0 .. MaxSendTime, answered \in BOOLEAN : Send(t, took, answered)
         \/ Block(t)
         \/ Fail(t)
         \/ Drained(t)
    \/ EndPoll
    \/ Tick

Spec == Init /\ [][Next]_vars

-----------------------------------------------------------------------------
(* Properties. *)

\* Every probe takes the latest slot of its target's own grid, after every slot
\* taken before, before the end of the run: however late the driver woke and
\* however long sends took, the cadence neither drifts, repeats a slot nor goes
\* back (advance_cadence, skip_missed_slots_at).
SlotsOnGrid ==
    [][\A t \in Targets : target'[t].slot # target[t].slot =>
          \A slot \in target'[t].slot :
             /\ (slot - target[t].start) % Interval[t] = 0
             /\ slot <= now /\ now < slot + Interval[t]
             /\ \A before \in target[t].slot : slot > before
             /\ \A end \in target[t].end : now < end]_vars

\* The closest that staggering ever puts two sends of this group.
LeastSpacing == StaggerSpacing(Min({Interval[t] : t \in Targets}), Count)

\* Staggering never releases a burst: of any three accepted sends the last is at
\* least one spacing after the first, also when the driver fell behind or
\* targets came and went.
NeverBursts ==
    [][(mode.pacing = "Staggered" /\ sends' # sends) =>
          \A first \in sends.previous, third \in sends'.latest :
              third - first >= LeastSpacing]_vars

\* The driver never sleeps through its own work: when neither the timer nor the
\* waker is due, no probe has timed out, no finite run has ended or finished,
\* and no target whose slot has come is free to send.
NeverOversleeps ==
    (stage = "asleep" /\ ~Awake) =>
        \A t \in Active(target) :
            LET s == target[t]
                open == mode.pacing = "Burst" \/ \A g \in gate : g <= now
            IN /\ \A deadline \in s.pending \cup EndDeadline(s) : deadline > now
               /\ s.next # {} \/ s.pending # {}
               /\ (~s.waiting /\ open) => \A deadline \in s.next : deadline > now

\* Sends keep to their schedule: on the target's grid, and spaced across targets
\* (advance_cadence, next_stagger_gate).
SendsPaced == SlotsOnGrid /\ NeverBursts
===============================================================================
