---------------------------- MODULE ManagedTargets ----------------------------
(* The targets of the managed driver (irtt-client: managed/task/target.rs,    *)
(* update.rs, timeouts.rs, the polling loop of task.rs and poll_one_send of   *)
(* pacing.rs): every target is a generation that connects, opens a session,   *)
(* sends, drains, closes and ends, or reconnects, while updates retire and    *)
(* create generations and a stop winds all of them down.                      *)
(*                                                                            *)
(* The driver is one thread; an action is one visit of one target, one        *)
(* timeout or one update.  Deadlines are kept as the ticks left until them,   *)
(* and time passes between polls.  The socket, the open exchange and the      *)
(* schedule are choices: what a poll of them returns.                         *)
EXTENDS Integers, SequencesExt

CONSTANTS
  Ids,             \* target ids
  Configs,         \* the rest of a ManagedTargetConfig
  MaxLive,         \* config.max_live_target_generations
  Configurations,  \* how runs may end and reconnect
  InitialDelay,    \* config.reconnect_initial_delay
  MaxDelay,        \* config.reconnect_max_delay
  FinalDrain,      \* config.final_drain
  ProbeTimeout,    \* config.client.probe_timeout
  TargetBudget,    \* TARGET_WORK_BUDGET
  TimeoutBudget,   \* TIMEOUT_WORK_BUDGET
  ReceiveBudget,   \* POST_DEADLINE_RECEIVE_BUDGET
  MaxGenerations,  \* bound: generations created
  MaxSends         \* bound: probes sent by one generation

ASSUME TargetsAssumption ==
  /\ MaxLive \in Nat \ {0}
  /\ Configurations \subseteq [finishes : BOOLEAN, reconnect : Nat]
  /\ InitialDelay \in Nat \ {0} /\ MaxDelay \in Nat /\ MaxDelay >= 2 * InitialDelay
  /\ FinalDrain \in Nat /\ ProbeTimeout \in Nat \ {0}
  /\ TargetBudget \in Nat \ {0} /\ TimeoutBudget \in Nat \ {0}
  /\ ReceiveBudget \in Nat \ {0}
  /\ MaxGenerations \in Nat /\ MaxSends \in Nat

VARIABLES
  config,          \* the run's configuration
  run,             \* TaskPhase; Finishing is Stopping with no stop observed
  targets,         \* the TargetRuntimes, in order
  nextGeneration,
  outcomes,        \* outcomes recorded for each generation (OutcomeHistory)
  poll,            \* where the current poll is, and what it may still do
  cursors,         \* cursor, scan_remaining and timeout_cursor
  backlog,         \* timeout_backlog
  wanted           \* history: the set last submitted and applied

vars == <<config, run, targets, nextGeneration, outcomes, poll, cursors, backlog, wanted>>

None == -100

Finishes == config.finishes     \* config.completion = FinishWhenQuiescent
Reconnect == config.reconnect   \* config.reconnect_timeout, in ticks; 0 for none
Lesser(a, b) == IF a <= b THEN a ELSE b
Greater(a, b) == IF a >= b THEN a ELSE b
Generations == 1 .. MaxGenerations

(* The elements of s at the indexes I, in their order.                         *)
Selected(s, I) ==
  LET n == Cardinality(I)
      f == CHOOSE f \in [1 .. n -> I] :
             /\ \A i \in I : \E k \in 1 .. n : f[k] = i
             /\ \A j, k \in 1 .. n : j < k => f[j] < f[k]
  IN  [k \in 1 .. n |-> s[f[k]]]

(* Desired target sets: sequences of configurations with distinct ids.        *)
Updates ==
  { s \in SeqOf([id : Ids, config : Configs], MaxLive) :
      \A i, j \in DOMAIN s : s[i].id = s[j].id => i = j }

(***************************************************************************)
(* One target                                                               *)
(***************************************************************************)
(* A new generation.  probes are the unresolved probes of its session, oldest *)
(* first, and while draining also the lost ones whose late reply still counts; *)
(* wire counts the probes it really sent.                                      *)
Created(target, generation) ==
  [id |-> target.id, config |-> target.config, generation |-> generation,
   membership |-> "Desired", phase |-> "Pending", inFlight |-> FALSE,
   deadline |-> None, drained |-> None, receives |-> 0, end |-> "None",
   cleanup |-> FALSE, probes |-> <<>>, finished |-> FALSE, waiting |-> FALSE,
   session |-> 0, before |-> 0, sent |-> 0, wire |-> 0,
   retryDelay |-> InitialDelay, silence |-> None, replied |-> None]

Desired(t) == t.membership = "Desired"
IsStopping == run \in {"Finishing", "Stopping"}
Stopping(t) == IsStopping \/ ~Desired(t)
EndReason(t) == IF Desired(t) THEN "Stopped" ELSE t.membership

(* The oldest probe that is not lost has timed out.                            *)
Due(t) ==
  \E i \in DOMAIN t.probes : /\ ~t.probes[i].lost /\ t.probes[i].left <= 0
                             /\ \A j \in 1 .. i - 1 : t.probes[j].lost

(* sync_packets_sent                                                           *)
Synced(t) == [t EXCEPT !.sent = t.before + t.session]

(* A phase that owns no client.                                                *)
WithoutClient(t) ==
  [t EXCEPT !.inFlight = FALSE, !.deadline = None, !.drained = None, !.receives = 0,
            !.end = "None", !.cleanup = FALSE, !.probes = <<>>, !.finished = FALSE,
            !.waiting = FALSE, !.session = 0, !.silence = None, !.replied = None]

(* Mutant: a retired or stopping target is opened again.                       *)
AlwaysReconnect(t) == Reconnect > 0

CanReconnect(t) == Reconnect > 0 /\ ~IsStopping /\ Desired(t)

(* Mutant: the count starts again with every session.                          *)
ForgetSent(t) == 0

SentBefore(t) == t.sent

NextDelay(delay) == Lesser(2 * delay, MaxDelay)

(* finish_target: the generation retries, or ends; a retry too far away to    *)
(* represent fails.                                                            *)
FinishTarget(t, reason) ==
  LET over(why) == [WithoutClient(t) EXCEPT !.phase = "Terminal", !.end = why]
      retry == [WithoutClient(t) EXCEPT
                  !.phase = "Retrying", !.deadline = t.retryDelay,
                  !.retryDelay = NextDelay(@), !.before = SentBefore(t)]
  IN  IF CanReconnect(t) /\ reason \in {"Failed", "PeerClosed", "TestComplete"}
      THEN {retry, over("Failed")}
      ELSE {over(reason)}

(* begin_close: cleanup is also set when the deadline is not representable.   *)
BeginClose(t, reason, cleanup) ==
  { [t EXCEPT !.phase = "Closing", !.deadline = c[1], !.drained = None, !.receives = 0,
              !.end = reason, !.cleanup = c[2], !.inFlight = FALSE,
              !.finished = FALSE, !.waiting = FALSE, !.silence = None,
              !.replied = None] :
      c \in {<<FinalDrain, cleanup>>, <<0, TRUE>>} }

(* Mutant: the drain ignores the deadlines of the probes.                      *)
DrainFromStart(t, elapsed) == FinalDrain - elapsed

(* drain_deadline, for a drain that started elapsed ticks ago.                *)
DrainDeadline(t, elapsed) ==
  LET latest == IF t.probes = <<>> THEN -elapsed ELSE Last(t.probes).left
  IN  Greater(latest, -elapsed) + FinalDrain

(* begin_drain, or begin_close when the deadline is not representable.        *)
BeginDrain(t, reason) ==
  {[t EXCEPT !.phase = "Draining", !.deadline = DrainDeadline(t, 0), !.drained = 0,
             !.receives = ReceiveBudget, !.end = reason, !.cleanup = FALSE,
             !.inFlight = FALSE, !.finished = FALSE, !.waiting = FALSE,
             !.silence = None, !.replied = None]}
  \cup BeginClose(t, reason, TRUE)

BeginOpenSessionFailure(t, drain) ==
  IF CanReconnect(t) \/ ~drain THEN BeginClose(Synced(t), "Failed", FALSE)
  ELSE BeginDrain(Synced(t), "Failed")

(* The deadline follows what the replies leave to wait for, and only down; an *)
(* unrepresentable one closes the session.                                     *)
Redrain(t) ==
  {[t EXCEPT !.deadline = Lesser(@, DrainDeadline(t, t.drained))]}
  \cup BeginClose(t, t.end, TRUE)

(* poll_recv found a datagram: a reply to a probe, another reply that is      *)
(* reported as one, or neither; a reply of any kind may also close the         *)
(* session.                                                                    *)
Replied(t) ==
  [t EXCEPT !.silence = None, !.retryDelay = InitialDelay,
            !.replied = IF t.phase = "Active" /\ Reconnect > 0 THEN 0 ELSE None]

Datagrams(t) ==
  { [target |-> u, closed |-> c] :
      u \in { Replied([t EXCEPT !.probes = RemoveAt(@, i)]) : i \in DOMAIN t.probes }
            \cup {Replied(t), t},
      c \in BOOLEAN }

(* silence_deadline has passed.                                                *)
Silent(t) == t.silence # None /\ t.silence <= 0 /\ ~t.waiting /\ ~t.finished

(* The end of an active visit: silence, then the end of the schedule, which   *)
(* this visit may be the first to notice.                                      *)
AfterReceive(t) ==
  IF Silent(t) THEN BeginClose(Synced(t), "Failed", FALSE)
  ELSE UNION { IF u.finished /\ u.probes = <<>>
               THEN BeginDrain(Synced(u), "TestComplete") ELSE {u} :
               u \in {t, [t EXCEPT !.finished = TRUE]} }

VisitOpening(t) ==
  IF Stopping(t)
  THEN FinishTarget(Synced(t), EndReason(t))
  ELSE {t, [t EXCEPT !.inFlight = TRUE]}
       \cup {[t EXCEPT !.phase = "Active", !.inFlight = FALSE]}
       \cup BeginOpenSessionFailure(t, FALSE)
       \cup (IF Reconnect = 0 THEN FinishTarget(t, "NoTestComplete") ELSE {})
       \cup FinishTarget(t, "Failed")

VisitActive(t) ==
  IF Stopping(t)
  THEN IF Reconnect > 0 THEN BeginClose(Synced(t), EndReason(t), FALSE)
       ELSE BeginDrain(Synced(t), EndReason(t))
  ELSE IF Due(t) THEN {t}
  ELSE AfterReceive(t)
       \cup (UNION { IF d.closed THEN FinishTarget(Synced(d.target), "PeerClosed")
                     ELSE AfterReceive(d.target) : d \in Datagrams(t) })
       \cup BeginOpenSessionFailure(t, FALSE)

(* Mutant: receiving extends the drain for ever.                               *)
KeepReceives(n) == n

FewerReceives(n) == n - 1

(* Past its deadline, a drain goes on while datagrams and its budget last.    *)
AfterDrain(t, received) ==
  IF t.phase # "Draining" \/ t.deadline > 0 THEN {t}
  ELSE IF received /\ t.receives > 1
  THEN {[t EXCEPT !.receives = FewerReceives(@)]}
  ELSE BeginClose(t, t.end, t.cleanup)

VisitDraining(t) ==
  IF Due(t) THEN {t}
  ELSE AfterDrain(t, FALSE)
       \cup (UNION { IF d.closed THEN FinishTarget(Synced(d.target), "PeerClosed")
                     ELSE UNION { AfterDrain(u, TRUE) : u \in Redrain(d.target) } :
                     d \in Datagrams(t) })
       \cup BeginClose(Synced(t), t.end, TRUE)

(* poll_close is pending, done or failed.                                      *)
VisitClosing(t) ==
  (IF t.deadline > 0 THEN {t} ELSE {})
  \cup FinishTarget(Synced(t), t.end)

(* poll_target: what a visit may leave.                                        *)
PollTarget(t) ==
  CASE t.phase \in {"Retrying", "Pending", "Connecting"} /\ Stopping(t) ->
         FinishTarget(t, EndReason(t))
    [] t.phase = "Retrying" /\ ~Stopping(t) ->
         {IF t.deadline > 0 THEN t
          ELSE [t EXCEPT !.phase = "Pending", !.deadline = None]}
    [] t.phase = "Pending" /\ ~Stopping(t) -> {[t EXCEPT !.phase = "Connecting"]}
    [] t.phase = "Connecting" /\ ~Stopping(t) ->
         {t, [t EXCEPT !.phase = "Opening"]} \cup FinishTarget(t, "Failed")
    [] t.phase = "Opening" -> VisitOpening(t)
    [] t.phase = "Active" -> VisitActive(t)
    [] t.phase = "Draining" -> VisitDraining(t)
    [] t.phase = "Closing" -> VisitClosing(t)
    [] t.phase = "Terminal" -> {t}

(* target_has_due_timeout                                                      *)
TargetHasDueTimeout(t) ==
  Due(t) /\ (t.phase = "Draining" \/ (t.phase = "Active" /\ ~Stopping(t)))

(* poll_target_timeout: the oldest due probe is lost, or the session fails.   *)
PollTargetTimeout(t) ==
  LET i == SelectInSeq(t.probes, LAMBDA p : ~p.lost)
      lose == IF t.phase = "Draining"
              THEN [t EXCEPT !.probes = [@ EXCEPT ![i].lost = TRUE]]
              ELSE [t EXCEPT !.probes = RemoveAt(@, i)]
  IN  IF t.phase = "Draining"
      THEN Redrain(lose) \cup BeginClose(Synced(t), t.end, TRUE)
      ELSE {lose} \cup BeginOpenSessionFailure(t, FALSE)

(* publish_client_events for EchoSent: a probe arms the silence deadline,     *)
(* counted from a recent reply.                                                *)
Armed(t) ==
  IF Reconnect = 0 \/ t.silence # None THEN t
  ELSE [t EXCEPT !.silence = Reconnect - (IF t.replied = None THEN 0 ELSE t.replied)]

(* poll_one_send on an active, desired target.                                *)
PollOneSend(t) ==
  LET idle == [t EXCEPT !.waiting = FALSE]
      finished == [idle EXCEPT !.finished = TRUE]
      accepted == Armed(Synced([idle EXCEPT !.session = @ + 1, !.wire = @ + 1,
                    !.probes = Append(@, [left |-> ProbeTimeout, lost |-> FALSE])]))
      committed == {accepted, [accepted EXCEPT !.finished = TRUE]}
  IN  IF Due(t) THEN {idle}
      ELSE (IF t.probes # <<>> THEN {finished}
            ELSE BeginDrain(Synced(finished), "TestComplete"))
           \cup IF t.finished THEN {}
                ELSE {idle}
                     \cup {[Synced(t) EXCEPT !.waiting = TRUE, !.silence = None,
                                             !.replied = None]}
                     \cup BeginOpenSessionFailure(idle, TRUE)
                     \cup (IF t.wire < MaxSends
                           THEN committed \cup BeginOpenSessionFailure(accepted, TRUE)
                           ELSE {})

(***************************************************************************)
(* The driver                                                               *)
(***************************************************************************)
Init ==
  /\ config \in Configurations
  /\ wanted \in { w \in Updates : Finishes => w # <<>> }
  /\ Len(wanted) <= MaxGenerations
  /\ run = "Running"
  /\ targets = [i \in DOMAIN wanted |-> Created(wanted[i], i)]
  /\ nextGeneration = Len(wanted) + 1
  /\ outcomes = [g \in Generations |-> <<>>]
  /\ poll = [at |-> "commands", visits |-> 0, budget |-> 0]
  /\ cursors = [target |-> 0, scan |-> 0, timeout |-> 0]
  /\ backlog = <<>>

(* The outcome of a generation: of what it says, the probes it counts and     *)
(* those it misses.                                                            *)
Outcome(t) == [sent |-> t.sent, missed |-> t.wire - t.sent]

(* Target i becomes t; a generation that ends leaves its outcome.             *)
Install(i, t) ==
  /\ targets' = [targets EXCEPT ![i] = t]
  /\ outcomes' = IF t.phase = "Terminal" /\ targets[i].phase # "Terminal"
                 THEN [outcomes EXCEPT ![t.generation] = Append(@, Outcome(t))]
                 ELSE outcomes

RebaseTargetCursors(c, n) ==
  [target |-> IF n = 0 THEN 0 ELSE c.target % n, scan |-> Lesser(c.scan, n),
   timeout |-> IF n = 0 THEN 0 ELSE c.timeout % n]

(* observe_stop                                                                *)
ObserveStop ==
  /\ run \in {"Running", "Finishing"} /\ poll.at \in {"commands", "settle"}
  /\ run' = "Stopping"
  /\ cursors' = [cursors EXCEPT !.scan = Len(targets)]
  /\ UNCHANGED <<targets, nextGeneration, outcomes, poll, backlog, wanted>>

RuntimeSatisfiesTarget(t, target) ==
  Desired(t) /\ t.phase # "Terminal" /\ t.id = target.id /\ t.config = target.config

SynchronouslyRetireable(t) ==
  \/ t.phase \in {"Retrying", "Pending", "Connecting", "Terminal"}
  \/ t.phase = "Opening" /\ ~t.inFlight

(* Mutant: an ended generation that is retired ends again.                     *)
RecordsAlways(t) == TRUE

RecordsRetirement(t) == t.phase # "Terminal"

(* plan_targets: generations that do not satisfy the new set are retired, at  *)
(* once where nothing is in flight, and what the set lacks is created.        *)
PlanTargets(incoming) ==
  LET satisfied(target) == \E i \in DOMAIN targets :
                             RuntimeSatisfiesTarget(targets[i], target)
      retired(t) == Desired(t) /\ \A j \in DOMAIN incoming :
                                    ~RuntimeSatisfiesTarget(t, incoming[j])
      synchronous(t) == retired(t) /\ SynchronouslyRetireable(t)
      reason(t) == IF \E j \in DOMAIN incoming : incoming[j].id = t.id
                   THEN "Replaced" ELSE "Removed"
      kept == Selected(targets, { i \in DOMAIN targets : ~synchronous(targets[i]) })
  IN  [retirements |-> { t \in ToSet(targets) : synchronous(t) },
       kept |-> [i \in DOMAIN kept |-> IF retired(kept[i])
                   THEN [kept[i] EXCEPT !.membership = reason(kept[i])] ELSE kept[i]],
       created |-> Selected(incoming,
                            { j \in DOMAIN incoming : ~satisfied(incoming[j]) })]

(* apply_targets; a plan over the limit is rejected and changes nothing.      *)
ApplyTargets(incoming) ==
  LET plan == PlanTargets(incoming)
      after == plan.kept \o [i \in DOMAIN plan.created |->
                               Created(plan.created[i], nextGeneration + i - 1)]
      ends == { t \in plan.retirements : RecordsRetirement(t) }
  IN  /\ run = "Running" /\ poll.at = "commands"
      /\ Len(after) <= MaxLive
      /\ nextGeneration + Len(plan.created) - 1 <= MaxGenerations
      /\ targets' = after
      /\ nextGeneration' = nextGeneration + Len(plan.created)
      /\ outcomes' = [g \in Generations |->
                        outcomes[g] \o SetToSeq({ Outcome(t) : t \in
                                          { e \in ends : e.generation = g } })]
      /\ cursors' = IF plan.retirements # {}
                    THEN RebaseTargetCursors(cursors, Len(plan.kept)) ELSE cursors
      /\ run' = IF Finishes /\ \A i \in DOMAIN after : ~Desired(after[i])
                THEN "Finishing" ELSE run
      /\ wanted' = incoming
      /\ UNCHANGED <<poll, backlog>>

(* The timeout pass starts.                                                    *)
BeginPoll ==
  /\ poll.at = "commands"
  /\ poll' = [at |-> "scan", visits |-> Lesser(Len(targets), TimeoutBudget),
              budget |-> IF targets = <<>> THEN 0 ELSE TimeoutBudget]
  /\ UNCHANGED <<run, targets, nextGeneration, outcomes, cursors, backlog, wanted>>

(* enqueue_timeout_backlog, after target i became t, when more is due.        *)
Enqueue(queue, i, t) ==
  LET entry == [index |-> i, generation |-> t.generation]
  IN  IF ~TargetHasDueTimeout(t) \/ Len(queue) = TimeoutBudget \/ entry \in ToSet(queue)
      THEN queue ELSE Append(queue, entry)

(* Mutant: the cursor stops at the last target.                                *)
LastCursor(c, n) == Lesser(c + 1, n - 1)

NextCursor(c, n) == (c + 1) % n

ScanTimeout ==
  LET i == cursors.timeout + 1
  IN  /\ poll.at = "scan" /\ poll.visits > 0 /\ poll.budget > 0
      /\ cursors' = [cursors EXCEPT !.timeout = NextCursor(@, Len(targets))]
      /\ \/ /\ TargetHasDueTimeout(targets[i])
            /\ \E t \in PollTargetTimeout(targets[i]) :
                 Install(i, t) /\ backlog' = Enqueue(backlog, i, t)
            /\ poll' = [poll EXCEPT !.visits = @ - 1, !.budget = @ - 1]
         \/ /\ ~TargetHasDueTimeout(targets[i])
            /\ poll' = [poll EXCEPT !.visits = @ - 1]
            /\ UNCHANGED <<targets, outcomes, backlog>>
      /\ UNCHANGED <<run, nextGeneration, wanted>>

BacklogTimeout ==
  LET entry == Head(backlog)
      valid == /\ entry.index <= Len(targets)
               /\ targets[entry.index].generation = entry.generation
               /\ TargetHasDueTimeout(targets[entry.index])
  IN  /\ poll.at = "scan" /\ poll.visits = 0 /\ poll.budget > 0 /\ backlog # <<>>
      /\ \/ /\ valid
            /\ \E t \in PollTargetTimeout(targets[entry.index]) :
                 /\ Install(entry.index, t)
                 /\ backlog' = Enqueue(Tail(backlog), entry.index, t)
            /\ poll' = [poll EXCEPT !.budget = @ - 1]
         \/ /\ ~valid
            /\ backlog' = Tail(backlog)
            /\ UNCHANGED <<targets, outcomes, poll>>
      /\ UNCHANGED <<run, nextGeneration, cursors, wanted>>

(* poll_target_pass starts: a scan of all targets goes on, or a new one       *)
(* starts.                                                                     *)
BeginTargets ==
  LET scan == IF cursors.scan = 0 THEN Len(targets) ELSE cursors.scan
      work == Lesser(scan, TargetBudget)
  IN  /\ poll.at = "scan"
      /\ poll.budget = 0 \/ (poll.visits = 0 /\ backlog = <<>>)
      /\ poll' = [at |-> "targets", visits |-> work, budget |-> 0]
      /\ cursors' = [cursors EXCEPT !.scan = scan - work]
      /\ UNCHANGED <<run, targets, nextGeneration, outcomes, backlog, wanted>>

VisitTarget ==
  LET i == (cursors.target % Len(targets)) + 1
  IN  /\ poll.at = "targets" /\ poll.visits > 0
      /\ cursors' = [cursors EXCEPT !.target = (@ + 1) % Len(targets)]
      /\ poll' = [poll EXCEPT !.visits = @ - 1]
      /\ \E t \in PollTarget(targets[i]) : Install(i, t)
      /\ UNCHANGED <<run, nextGeneration, backlog, wanted>>

(* Mutant: targets that ended are dropped from the set, wanted or not.         *)
PruneTerminal(t) == t.phase # "Terminal"

Retained(t) == Desired(t) \/ t.phase # "Terminal"

(* prune_undesired_terminal ends the pass; sends follow in a running driver.  *)
PruneUndesiredTerminal ==
  LET kept == Selected(targets, { i \in DOMAIN targets : Retained(targets[i]) })
  IN  /\ poll.at = "targets" /\ poll.visits = 0
      /\ targets' = kept
      /\ cursors' = IF Len(kept) < Len(targets)
                    THEN RebaseTargetCursors(cursors, Len(kept)) ELSE cursors
      /\ poll' = IF run = "Running"
                 THEN [at |-> "sends", visits |-> Len(kept), budget |-> 0]
                 ELSE [at |-> "settle", visits |-> 0, budget |-> 0]
      /\ UNCHANGED <<run, nextGeneration, outcomes, backlog, wanted>>

(* The send pass: which targets get their turn is the pacer's choice.         *)
SendPass ==
  /\ poll.at = "sends"
  /\ \/ /\ poll.visits > 0
        /\ LET t == targets[poll.visits]
           IN  \E u \in {t} \cup (IF t.phase = "Active" /\ Desired(t) THEN PollOneSend(t)
                                  ELSE {}) :
                 Install(poll.visits, u)
        /\ poll' = [poll EXCEPT !.visits = @ - 1]
     \/ /\ poll.visits = 0
        /\ poll' = [poll EXCEPT !.at = "settle"]
        /\ UNCHANGED <<targets, outcomes>>
  /\ UNCHANGED <<run, nextGeneration, cursors, backlog, wanted>>

AllTerminal == \A i \in DOMAIN targets : targets[i].phase = "Terminal"

(* The end of a poll: seal, or wait for the next one.                         *)
Settle ==
  /\ poll.at = "settle"
  /\ \/ /\ AllTerminal /\ (IsStopping \/ Finishes)
        /\ run' = "Ended"
        /\ poll' = [poll EXCEPT !.at = "ended"]
     \/ /\ ~(AllTerminal /\ (IsStopping \/ Finishes))
        /\ poll' = [poll EXCEPT !.at = "commands"]
        /\ UNCHANGED run
  /\ UNCHANGED <<targets, nextGeneration, outcomes, cursors, backlog, wanted>>

(* A tick between polls.  What lies further back than a drain is long does    *)
(* not matter.                                                                 *)
Passed(n) == Greater(n - 1, -FinalDrain)

Aged(t) ==
  [t EXCEPT
     !.deadline = IF @ = None THEN None ELSE Greater(@ - 1, 0),
     !.drained = IF @ = None THEN None ELSE Lesser(@ + 1, FinalDrain),
     !.probes = [i \in DOMAIN @ |-> [left |-> Passed(@[i].left), lost |-> @[i].lost]],
     !.silence = IF @ = None THEN None ELSE Greater(@ - 1, 0),
     !.replied = IF @ = None \/ @ + 1 >= Reconnect THEN None ELSE @ + 1]

Tick ==
  /\ poll.at = "commands"
  /\ targets' = [i \in DOMAIN targets |-> Aged(targets[i])]
  /\ UNCHANGED <<run, nextGeneration, outcomes, poll, cursors, backlog, wanted>>

DriverStep ==
  \/ BeginPoll \/ ScanTimeout \/ BacklogTimeout \/ BeginTargets \/ VisitTarget
  \/ PruneUndesiredTerminal \/ SendPass \/ Settle

Ended == poll.at = "ended" /\ UNCHANGED vars

Next ==
  /\ \/ DriverStep \/ Tick \/ ObserveStop \/ Ended
     \/ \E incoming \in Updates : ApplyTargets(incoming)
  /\ UNCHANGED config

Spec == Init /\ [][Next]_vars

(* The driver is polled (its timer, or the immediate wake-up of a busy poll), *)
(* and time passes.                                                            *)
FairSpec ==
  /\ Spec
  /\ WF_vars(DriverStep /\ UNCHANGED config) /\ SF_vars(Tick /\ UNCHANGED config)

(***************************************************************************)
(* Properties                                                               *)
(***************************************************************************)
Phases == {"Retrying", "Pending", "Connecting", "Opening", "Active", "Draining",
           "Closing", "Terminal"}
EndReasons == {"Failed", "PeerClosed", "TestComplete", "NoTestComplete", "Stopped",
               "Removed", "Replaced"}

(* The shape of the driver's state: its bounds on generations, backlog, scan  *)
(* and retry delay hold, and a target has the fields of its phase.            *)
TypeOK ==
  /\ run \in {"Running", "Finishing", "Stopping", "Ended"}
  /\ Len(targets) <= MaxLive
  /\ \A i \in DOMAIN targets : LET t == targets[i] IN
       /\ t.phase \in Phases /\ t.membership \in {"Desired", "Removed", "Replaced"}
       /\ t.generation \in 1 .. nextGeneration - 1
       /\ t.retryDelay \in InitialDelay .. MaxDelay
       /\ t.phase \in {"Terminal", "Draining", "Closing"} <=> t.end # "None"
       /\ t.phase \in {"Retrying", "Draining", "Closing"} <=> t.deadline # None
  /\ Len(backlog) <= TimeoutBudget
  /\ cursors.scan <= Len(targets)

(* The desired targets are exactly the set last applied, ended ones included, *)
(* with one generation for each id, however many generations of it are still  *)
(* draining or closing.                                                        *)
DesiredMatches ==
  LET mine == { i \in DOMAIN targets : Desired(targets[i]) }
  IN  /\ Cardinality(mine) = Len(wanted)
      /\ { [id |-> targets[i].id, config |-> targets[i].config] : i \in mine } = ToSet(wanted)

(* Every generation created has exactly one outcome once it ended, whether it *)
(* ended by itself, was retired at once, or was pruned, and none before.      *)
OneOutcomeEach ==
  \A g \in 1 .. nextGeneration - 1 :
    Len(outcomes[g]) = IF \E i \in DOMAIN targets : /\ targets[i].generation = g
                                                     /\ targets[i].phase # "Terminal"
                       THEN 0 ELSE 1

(* An outcome counts every probe its generation sent, over all its sessions.  *)
SentAccounted ==
  \A g \in Generations : \A i \in DOMAIN outcomes[g] :
    outcomes[g][i].missed = 0

(* A generation that is withdrawn, or belongs to a stopping run, never starts *)
(* anything new: it stays where it is or goes on to drain, close and end.     *)
RetiredStaysDown ==
  [][\A i \in DOMAIN targets, j \in DOMAIN targets' :
       targets[i].generation = targets'[j].generation /\ Stopping(targets[i]) =>
         targets'[j].phase \in {targets[i].phase, "Draining", "Closing", "Terminal"}]_vars

(* A drain that ends without a failure has waited for every probe: none is    *)
(* unresolved, and every lost one had final_drain more for its late reply.    *)
DrainWaits ==
  [][\A i \in DOMAIN targets, j \in DOMAIN targets' :
       /\ targets[i].generation = targets'[j].generation
       /\ targets[i].phase = "Draining" /\ targets'[j].phase = "Closing"
       /\ ~targets'[j].cleanup
       => /\ targets[i].drained >= FinalDrain
          /\ \A k \in DOMAIN targets'[j].probes :
               targets'[j].probes[k].lost /\ targets'[j].probes[k].left <= -FinalDrain]_vars

(* A stopping run ends, whatever the peers send and however long sockets      *)
(* stay blocked.                                                               *)
StoppingEnds == []<>(IsStopping => run = "Ended")

(* The bounded timeout pass reaches every target: a due probe does not stay   *)
(* due for ever.                                                               *)
TimeoutsServed ==
  \A g \in Generations :
    LET due == \E i \in DOMAIN targets : /\ targets[i].generation = g
                                         /\ targets[i].phase \in {"Active", "Draining"}
                                         /\ Due(targets[i])
    IN  []<>~due

(* The target table is the one last asked for, within its bounds              *)
(* (apply_targets, prune_undesired_terminal, poll_timeouts).                  *)
TableSound == TypeOK /\ DesiredMatches

(* Every generation leaves one outcome, and it counts all that it sent        *)
(* (finish_target, OutcomeHistory::record).                                   *)
OutcomesTrue == OneOutcomeEach /\ SentAccounted

(* A generation on its way down goes only down, and takes the time its last   *)
(* probes have (begin_drain, poll_draining, finish_target).                   *)
RetirementOrderly == RetiredStaysDown /\ DrainWaits
=============================================================================
