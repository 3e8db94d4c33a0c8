---------------------------- MODULE ManagedControl ----------------------------
(* The control plane of the managed driver (irtt-client: managed/task.rs,     *)
(* task/control.rs and the command loop of task/update.rs): stop() and        *)
(* update_targets() run in any thread while the driver is polled, sealed or   *)
(* dropped in another.  One action is one access to the state they share: the *)
(* admission and stop atomics, the command channel, the stop watch and the    *)
(* published status.  Atomics are sequentially consistent here; the code uses *)
(* acquire and release on each.                                               *)
(*                                                                            *)
(* The targets are reduced to whether one is not yet terminal.  A send on     *)
(* Tokio's bounded channel first takes a permit and then delivers, and        *)
(* closing the receiver lets permits already taken deliver.                   *)
EXTENDS Integers, Sequences, FiniteSets

CONSTANTS
  Stoppers,        \* threads that call ManagedClientHandle::stop, once each
  Updaters,        \* threads that call update_targets, once each
  Capacity,        \* config.command_capacity
  CommandBudget    \* COMMAND_WORK_BUDGET

ASSUME ControlAssumption ==
  /\ IsFiniteSet(Updaters) /\ "None" \notin Updaters
  /\ Capacity \in Nat \ {0}
  /\ CommandBudget \in Nat \ {0}

VARIABLES
  policy,          \* config.completion
  kind,            \* what each updater submits
  requested,       \* StopSignal.requested
  admission,       \* StopSignal.update_admission
  notified,        \* the stop watch changed since the driver last looked
  queue,           \* commands delivered to the channel
  queueOpen,       \* the receiver has not been closed
  status,          \* the published ManagedStatus
  driver,          \* the task: where it is (pc) and its own fields
  busy,            \* some target is not terminal
  woken,           \* the executor owes the task a poll
  stopWaker,       \* the stop watch holds the task's waker
  commandWaker,    \* the command channel holds the task's waker
  stopper,         \* where each stop call is
  updater,         \* where each update call is, or its result
  answer,          \* what each command's receipt resolved to
  history          \* update calls that began after a stop returned (warned);
                   \* commands delivered after the receiver was closed (late)
                   \* and after it was dropped (lost)

setup == <<policy, kind>>
signal == <<requested, admission, notified>>
channel == <<queue, queueOpen>>
wakers == <<woken, stopWaker, commandWaker>>
callers == <<stopper, updater, answer, history>>
vars == <<setup, signal, channel, status, driver, busy, wakers, callers>>

None == "None"
Policies == {"FinishWhenQuiescent", "ExplicitStop"}
Kinds == {"replace", "retire", "invalid"}
Terminal == {"Completed", "Failed", "Abandoned"}
Refusals == {"Stopping", "DriverClosed", "QueueFull", "TooManyTargets"}
Answers == {"Applied", "Rejected", "Stopping", "DriverFailed", "Disconnected"}

Init ==
  /\ policy \in Policies /\ kind \in [Updaters -> Kinds]
  /\ requested = FALSE /\ admission = "Open" /\ notified = FALSE
  /\ queue = <<>> /\ queueOpen = TRUE
  /\ status = [lifecycle |-> "NotStarted", stopRequested |-> FALSE, applied |-> 0]
  /\ driver = [pc |-> "idle", phase |-> "NotStarted", stopObserved |-> FALSE,
               budget |-> CommandBudget, inHand |-> None, again |-> FALSE,
               reason |-> None]
  /\ busy \in BOOLEAN /\ (policy = "FinishWhenQuiescent" => busy)
  /\ woken = TRUE /\ stopWaker = FALSE /\ commandWaker = FALSE
  /\ stopper = [s \in Stoppers |-> "begin"]
  /\ updater = [u \in Updaters |-> "check"]
  /\ answer = [u \in Updaters |-> None]
  /\ history = [warned |-> {}, late |-> {}, lost |-> {}]

(***************************************************************************)
(* StopSignal                                                               *)
(***************************************************************************)
(* Mutant: updates are still admitted.                                         *)
KeepAdmitting(a) == a

(* begin_stopping: the compare-and-swap loop never leaves Closed.             *)
BeginStopping(a) == IF a = "Open" THEN "Stopping" ELSE a

StopBegin(s) ==
  /\ stopper[s] = "begin"
  /\ stopper' = [stopper EXCEPT ![s] = "latch"]
  /\ admission' = BeginStopping(admission)
  /\ UNCHANGED <<setup, requested, notified, channel, status, driver, busy, wakers,
                 updater, answer, history>>

(* Mutant: the driver is not woken.                                            *)
LatchSilently == "returned"

(* Only the call that sets the latch notifies the driver.                     *)
AfterLatch == IF requested THEN "returned" ELSE "notify"

StopLatch(s) ==
  /\ stopper[s] = "latch"
  /\ requested' = TRUE
  /\ stopper' = [stopper EXCEPT ![s] = AfterLatch]
  /\ UNCHANGED <<setup, admission, notified, channel, status, driver, busy, wakers,
                 updater, answer, history>>

StopNotify(s) ==
  /\ stopper[s] = "notify"
  /\ stopper' = [stopper EXCEPT ![s] = "returned"]
  /\ notified' = TRUE
  /\ woken' = (woken \/ stopWaker)
  /\ stopWaker' = FALSE
  /\ UNCHANGED <<setup, requested, admission, channel, status, driver, busy,
                 commandWaker, updater, answer, history>>

(***************************************************************************)
(* update_targets                                                           *)
(***************************************************************************)
Refusal(a, otherwise) ==
  IF a = "Open" THEN otherwise
  ELSE IF a = "Stopping" THEN "Stopping" ELSE "DriverClosed"

(* What one access of an update call leaves alone.                            *)
CallLeaves == UNCHANGED <<setup, signal, status, driver, busy, stopWaker, stopper,
                          queueOpen, answer>>

(* The admission check and, while it is open, the size check.                 *)
UpdateCheck(u) ==
  /\ updater[u] = "check"
  /\ \E next \in {"send", "TooManyTargets"} :
       updater' = [updater EXCEPT ![u] = Refusal(admission, next)]
  /\ history' = IF \E s \in Stoppers : stopper[s] = "returned"
                THEN [history EXCEPT !.warned = @ \cup {u}] ELSE history
  /\ CallLeaves
  /\ UNCHANGED <<queue, woken, commandWaker>>

Permits == Len(queue) + Cardinality({ u \in Updaters : updater[u] = "reserved" })

HasRoom == Permits < Capacity

UpdateReserve(u) ==
  /\ updater[u] = "send"
  /\ updater' = [updater EXCEPT ![u] =
                   IF ~queueOpen THEN "DriverClosed"
                   ELSE IF HasRoom THEN "reserved" ELSE "full"]
  /\ CallLeaves
  /\ UNCHANGED <<queue, woken, commandWaker, history>>

UpdateFull(u) ==
  /\ updater[u] = "full"
  /\ updater' = [updater EXCEPT ![u] = Refusal(admission, "QueueFull")]
  /\ CallLeaves
  /\ UNCHANGED <<queue, woken, commandWaker, history>>

UpdateDeliver(u) ==
  /\ updater[u] = "reserved"
  /\ updater' = [updater EXCEPT ![u] = "accepted"]
  /\ queue' = Append(queue, u)
  /\ woken' = (woken \/ commandWaker)
  /\ commandWaker' = FALSE
  /\ history' = [history EXCEPT
                   !.late = IF queueOpen THEN @ ELSE @ \cup {u},
                   !.lost = IF driver.pc = "gone" THEN @ \cup {u} ELSE @]
  /\ CallLeaves

(***************************************************************************)
(* One poll of the driver                                                   *)
(***************************************************************************)
Poll ==
  /\ driver.pc = "idle" /\ woken
  /\ woken' = FALSE
  /\ driver' = [driver EXCEPT !.pc = IF driver.phase = "NotStarted" THEN "start"
                                     ELSE "observe1"]
  /\ UNCHANGED <<setup, signal, channel, status, busy, stopWaker, commandWaker,
                 callers>>

(* is_requested, then observe_stop on its first success; on to step next with *)
(* end reason why.                                                             *)
ObserveStop(next, why) ==
  IF requested /\ ~driver.stopObserved
  THEN /\ admission' = BeginStopping(admission)
       /\ status' = [status EXCEPT !.lifecycle = "Stopping", !.stopRequested = TRUE]
       /\ driver' = [driver EXCEPT !.pc = next, !.reason = why,
                                   !.stopObserved = TRUE, !.phase = "Stopping"]
  ELSE /\ driver' = [driver EXCEPT !.pc = next, !.reason = why]
       /\ UNCHANGED <<admission, status>>

(* The first poll: a stop already requested, begin_running, or no runtime.    *)
Start ==
  /\ driver.pc = "start"
  /\ \/ /\ requested
        /\ ObserveStop("observe1", None)
     \/ /\ ~requested
        /\ driver' = [driver EXCEPT !.pc = "observe1", !.phase = "Running"]
        /\ status' = [status EXCEPT !.lifecycle = "Running"]
        /\ UNCHANGED admission
     \/ /\ ~requested
        /\ driver' = [driver EXCEPT !.pc = "seal", !.reason = "DriverFailed"]
        /\ UNCHANGED <<admission, status>>
  /\ UNCHANGED <<setup, requested, notified, channel, busy, wakers, callers>>

Observe ==
  /\ \/ driver.pc = "observe1" /\ ObserveStop("commands", None)
     \/ driver.pc = "observe2" /\ ObserveStop("work", None)
     \/ driver.pc = "observe3" /\ ObserveStop("settle", None)
  /\ UNCHANGED <<setup, requested, notified, channel, busy, wakers, callers>>

(* Mutant: an empty channel is left without a waker.                           *)
WaitWithoutWaker == UNCHANGED commandWaker

WaitForCommand == commandWaker' = TRUE

(* process_commands: poll_recv, within the work budget.                       *)
TakeCommand ==
  /\ driver.pc = "commands"
  /\ \/ /\ driver.budget > 0 /\ queue # <<>>
        /\ driver' = [driver EXCEPT !.pc = "decide", !.inHand = Head(queue),
                                    !.budget = @ - 1, !.again = TRUE]
        /\ queue' = Tail(queue)
        /\ UNCHANGED commandWaker
     \/ /\ driver.budget > 0 /\ queue = <<>>
        /\ driver' = [driver EXCEPT !.pc = "observe2", !.budget = CommandBudget]
        /\ WaitForCommand
        /\ UNCHANGED queue
     \/ /\ driver.budget = 0
        /\ driver' = [driver EXCEPT !.pc = "observe2", !.budget = CommandBudget]
        /\ UNCHANGED <<queue, commandWaker>>
  /\ UNCHANGED <<setup, signal, queueOpen, status, busy, woken, stopWaker, callers>>

(* The driver-side admission check, "the application linearization point".    *)
Decide ==
  /\ driver.pc = "decide"
  /\ driver' = [driver EXCEPT
                  !.pc = IF driver.phase = "Running" /\ admission = "Open"
                         THEN "apply" ELSE "refuse"]
  /\ UNCHANGED <<setup, signal, channel, status, busy, wakers, callers>>

Acknowledge(u, result) ==
  /\ answer' = [answer EXCEPT ![u] = result]
  /\ UNCHANGED <<setup, requested, notified, queueOpen, wakers, stopper, updater,
                 history>>

(* Refused for a stop, or rejected by plan_targets: nothing changed.          *)
Refuse ==
  /\ \/ driver.pc = "refuse" /\ Acknowledge(driver.inHand, "Stopping")
     \/ /\ driver.pc = "apply" /\ kind[driver.inHand] = "invalid"
        /\ Acknowledge(driver.inHand, "Rejected")
  /\ driver' = [driver EXCEPT !.pc = "commands", !.inHand = None]
  /\ UNCHANGED <<admission, queue, status, busy>>

(* apply_targets: a non-empty set leaves a live target; an empty one retires  *)
(* them all, at once or in time, and ends a run that finishes when quiescent. *)
Apply ==
  LET change == kind[driver.inHand]
      stopping == change = "retire" /\ policy = "FinishWhenQuiescent"
  IN  /\ driver.pc = "apply" /\ change # "invalid"
      /\ Acknowledge(driver.inHand, "Applied")
      /\ busy' \in IF change = "replace" THEN {TRUE} ELSE {busy, FALSE}
      /\ admission' = IF stopping THEN BeginStopping(admission) ELSE admission
      /\ status' = [status EXCEPT !.applied = @ + 1,
                                  !.lifecycle = IF stopping THEN "Stopping" ELSE @]
      /\ driver' = [driver EXCEPT !.pc = "commands", !.inHand = None,
                                  !.phase = IF stopping THEN "Stopping" ELSE @]
      /\ UNCHANGED queue

(* The timeout, target and send passes.                                        *)
Work ==
  /\ driver.pc = "work"
  /\ busy' \in {busy, FALSE}
  /\ \E more \in {FALSE, busy} :
       driver' = [driver EXCEPT !.pc = "observe3", !.again = @ \/ more]
  /\ UNCHANGED <<setup, signal, channel, status, wakers, callers>>

(* Seal when every target is terminal and the run is stopping, or finishes by *)
(* itself.                                                                     *)
Settle ==
  /\ driver.pc = "settle"
  /\ \/ /\ ~busy /\ driver.phase = "Stopping"
        /\ driver' = [driver EXCEPT !.pc = "seal",
             !.reason = IF driver.stopObserved THEN "StopRequested"
                        ELSE "TargetsComplete"]
        /\ UNCHANGED <<admission, status>>
     \/ /\ ~busy /\ driver.phase = "Running" /\ policy = "FinishWhenQuiescent"
        /\ driver' = [driver EXCEPT !.pc = "seal", !.phase = "Stopping",
                                    !.reason = "TargetsComplete"]
        /\ admission' = BeginStopping(admission)
        /\ status' = [status EXCEPT !.lifecycle = "Stopping"]
     \/ /\ busy \/ (driver.phase = "Running" /\ policy = "ExplicitStop")
        /\ driver' = [driver EXCEPT !.pc = "register"]
        /\ UNCHANGED <<admission, status>>
  /\ UNCHANGED <<setup, requested, notified, channel, busy, wakers, callers>>

(* register_stop_wake and the end of poll: a notification is consumed and     *)
(* re-armed without a waker, so the poll is repeated.                          *)
Register ==
  /\ driver.pc = "register"
  /\ driver' = [driver EXCEPT !.pc = "idle", !.again = FALSE]
  /\ notified' = FALSE
  /\ stopWaker' = ~notified
  /\ woken' = (woken \/ driver.again \/ (notified /\ requested))
  /\ UNCHANGED <<setup, requested, admission, channel, status, busy, commandWaker,
                 callers>>

(* A timer or socket of a live target.                                         *)
TargetsWake ==
  /\ driver.pc = "idle" /\ busy /\ driver.phase \in {"Running", "Stopping"}
  /\ woken' = TRUE
  /\ UNCHANGED <<setup, signal, channel, status, driver, busy, stopWaker,
                 commandWaker, callers>>

(***************************************************************************)
(* Sealing and dropping                                                     *)
(***************************************************************************)
(* Mutant: the reason is kept.                                                 *)
GivenReason == driver.reason

SealedReason ==
  IF (driver.stopObserved \/ requested) /\ driver.reason = "TargetsComplete"
  THEN "StopRequested" ELSE driver.reason

(* seal's final look at the stop latch.                                        *)
Seal ==
  /\ driver.pc = "seal"
  /\ ObserveStop("closeUpdates", SealedReason)
  /\ UNCHANGED <<setup, requested, notified, channel, busy, wakers, callers>>

(* The task is dropped between polls, before it ended.                        *)
Abandon ==
  /\ driver.pc = "idle"
  /\ driver' = [driver EXCEPT !.pc = "closeUpdates", !.phase = "Abandoned"]
  /\ UNCHANGED <<setup, signal, channel, status, busy, wakers, callers>>

CloseUpdates ==
  /\ driver.pc = "closeUpdates"
  /\ admission' = "Closed"
  /\ driver' = [driver EXCEPT !.pc = "closeQueue"]
  /\ UNCHANGED <<setup, requested, notified, channel, status, busy, wakers, callers>>

(* Mutant: the receiver is drained without being closed.                       *)
LeaveOpen == UNCHANGED queueOpen

CloseReceiver == queueOpen' = FALSE

CloseQueue ==
  /\ driver.pc = "closeQueue"
  /\ CloseReceiver
  /\ driver' = [driver EXCEPT !.pc = IF driver.phase = "Abandoned" THEN "publish"
                                     ELSE "drain"]
  /\ UNCHANGED <<setup, signal, queue, status, busy, wakers, callers>>

(* try_recv until it finds nothing delivered.                                  *)
Drain ==
  /\ driver.pc = "drain"
  /\ \/ /\ queue # <<>>
        /\ Acknowledge(Head(queue), IF driver.reason = "DriverFailed"
                                    THEN "DriverFailed" ELSE "Stopping")
        /\ queue' = Tail(queue)
        /\ UNCHANGED <<admission, status, driver, busy>>
     \/ /\ queue = <<>>
        /\ driver' = [driver EXCEPT !.pc = "publish"]
        /\ UNCHANGED <<setup, signal, channel, status, busy, wakers, callers>>

(* The final status; the poll returns the outcome, or drop goes on.           *)
Publish ==
  LET final == IF driver.phase = "Abandoned" THEN "Abandoned"
               ELSE IF driver.reason = "DriverFailed" THEN "Failed" ELSE "Completed"
  IN  /\ driver.pc = "publish"
      /\ driver' = [driver EXCEPT !.pc = "finished", !.phase = final]
      /\ status' = [status EXCEPT !.lifecycle = final,
                                  !.stopRequested = driver.stopObserved]
      /\ UNCHANGED <<setup, signal, channel, busy, wakers, callers>>

(* The task's fields are dropped: the receiver drops what it still holds, and *)
(* with a command its acknowledgement sender.                                 *)
DropReceiver ==
  /\ driver.pc = "finished"
  /\ driver' = [driver EXCEPT !.pc = "gone"]
  /\ queue' = <<>>
  /\ answer' = [u \in Updaters |->
                  IF \E i \in DOMAIN queue : queue[i] = u THEN "Disconnected"
                  ELSE answer[u]]
  /\ UNCHANGED <<setup, signal, queueOpen, status, busy, wakers, stopper, updater,
                 history>>

(* The task and the calls have ended.                                          *)
Ended ==
  /\ driver.pc = "gone"
  /\ \A s \in Stoppers : stopper[s] = "returned"
  /\ \A u \in Updaters : updater[u] \in Refusals \cup {"accepted"}
  /\ UNCHANGED vars

DriverStep ==
  \/ Poll \/ Start \/ Observe \/ TakeCommand \/ Decide \/ Refuse \/ Apply \/ Work
  \/ Settle \/ Register \/ Seal \/ CloseUpdates \/ CloseQueue \/ Drain \/ Publish
  \/ DropReceiver

CallerStep ==
  \/ \E s \in Stoppers : StopBegin(s) \/ StopLatch(s) \/ StopNotify(s)
  \/ \E u \in Updaters : UpdateCheck(u) \/ UpdateReserve(u) \/ UpdateFull(u)
                         \/ UpdateDeliver(u)

Next == DriverStep \/ CallerStep \/ TargetsWake \/ Abandon \/ Ended

Spec == Init /\ [][Next]_vars

(* The executor polls a woken task and lets a poll finish; threads finish     *)
(* calls begun; a live target wakes the driver in time, and in a stopping run *)
(* its drain and close deadlines end it.                                       *)
FairSpec ==
  /\ Spec
  /\ WF_vars(DriverStep)
  /\ WF_vars(TargetsWake)
  /\ SF_vars(Work /\ driver.phase = "Stopping" /\ ~busy')
  /\ \A s \in Stoppers : WF_vars(StopLatch(s) \/ StopNotify(s))
  /\ \A u \in Updaters : WF_vars(UpdateReserve(u) \/ UpdateFull(u) \/ UpdateDeliver(u))

(***************************************************************************)
(* Properties                                                               *)
(***************************************************************************)
DriverSteps ==
  {"idle", "start", "observe1", "commands", "decide", "apply", "refuse", "observe2",
   "work", "observe3", "settle", "register", "seal", "closeUpdates", "closeQueue",
   "drain", "publish", "finished", "gone"}
Phases == {"NotStarted", "Running", "Stopping"} \cup Terminal
Holding == {"decide", "apply", "refuse"}

Status == [lifecycle : Phases, stopRequested : BOOLEAN, applied : Nat]
Driver ==
  [pc : DriverSteps, phase : Phases, stopObserved : BOOLEAN,
   budget : 0 .. CommandBudget, inHand : Updaters \cup {None}, again : BOOLEAN,
   reason : {None, "StopRequested", "TargetsComplete", "DriverFailed"}]
CallStates == {"check", "send", "full", "reserved", "accepted"} \cup Refusals

SharedTyped ==
  /\ policy \in Policies /\ kind \in [Updaters -> Kinds]
  /\ requested \in BOOLEAN /\ admission \in {"Open", "Stopping", "Closed"}
  /\ notified \in BOOLEAN
  /\ queue \in Seq(Updaters) /\ queueOpen \in BOOLEAN
  /\ busy \in BOOLEAN
  /\ woken \in BOOLEAN /\ stopWaker \in BOOLEAN /\ commandWaker \in BOOLEAN

DriverTyped ==
  /\ driver \in Driver
  /\ driver.inHand # None <=> driver.pc \in Holding

CallersTyped ==
  /\ stopper \in [Stoppers -> {"begin", "latch", "notify", "returned"}]
  /\ updater \in [Updaters -> CallStates]
  /\ answer \in [Updaters -> Answers \cup {None}]
  /\ history \in [warned : SUBSET Updaters, late : SUBSET Updaters,
                  lost : SUBSET Updaters]

Typed == SharedTyped /\ status \in Status /\ DriverTyped /\ CallersTyped

(* Every field has its type, the channel never holds more than its capacity   *)
(* (sends that have their permit included), and the driver holds a command    *)
(* exactly between taking and answering it.                                    *)
TypeOK == Typed /\ Permits <= Capacity

(* Admission only moves from Open through Stopping to Closed, whichever of    *)
(* stop(), the driver's own stopping and sealing come in which order: a       *)
(* caller told DriverClosed is never told otherwise later.                    *)
AdmissionNeverReopens ==
  [][/\ admission = "Closed" => admission' = "Closed"
     /\ admission = "Stopping" => admission' # "Open"]_vars

(* An update submitted after a stop call returned is refused, whatever the    *)
(* driver has seen of the stop by then.                                       *)
StopThenRefused ==
  \A u \in history.warned : updater[u] \in {"Stopping", "DriverClosed"}

(* The run has been sealed: its outcome and final status are out.              *)
Sealed == driver.pc \in {"finished", "gone"} /\ driver.phase # "Abandoned"

(* A command that was delivered while the channel was open has a definite     *)
(* answer once the run is sealed. One delivered after the channel was closed, *)
(* but before the task was dropped, is told at least that the task is gone.   *)
CommandsSettled ==
  \A u \in Updaters : updater[u] = "accepted" =>
    /\ Sealed /\ u \notin history.late => answer[u] \notin {None, "Disconnected"}
    /\ driver.pc = "gone" /\ u \notin history.lost => answer[u] # None

(* "Closing admission before closing and draining the receiver makes every    *)
(* accepted command task-owned" (task.rs: seal), and every accepted           *)
(* submission receives a terminal disposition (tests/managed_control.rs:      *)
(* concurrent_submission_and_stop_or_seal_never_lose_an_accepted_receipt):    *)
(* once the run is sealed, every command whose submission succeeded has the   *)
(* driver's own answer. Violated: a send that holds its permit when the       *)
(* receiver is closed delivers after the drain found the channel empty.       *)
AcceptedReceiptsSettled ==
  Sealed => \A u \in Updaters :
              updater[u] = "accepted" => answer[u] \notin {None, "Disconnected"}

(* The outcome and the final status agree on why the run ended: a run that    *)
(* observed a stop never claims that its targets completed, and the sequence  *)
(* number it publishes is the number of updates acknowledged as applied.      *)
EndAgrees ==
  /\ driver.phase = "Completed" =>
       (driver.reason = "StopRequested" <=> status.stopRequested)
  /\ status.applied = Cardinality({ u \in Updaters : answer[u] = "Applied" })

(* No lost wake-up on the command channel: a command delivered to the open    *)
(* channel is answered. Answers are final and callers finitely many, so it is *)
(* enough that again and again no command is waiting.                          *)
CommandsAnswered ==
  []<>(\A u \in Updaters :
         (updater[u] = "accepted" /\ u \notin history.late) => answer[u] # None)

(* No lost wake-up on the stop watch: after a stop call the run comes to an   *)
(* end, so that its receipt resolves and joining the blocking owner returns.  *)
StopEnds ==
  []<>((\E s \in Stoppers : stopper[s] = "returned") => status.lifecycle \in Terminal)

(* Sealing settles every command delivered to the open channel, and the       *)
(* outcome, the status and the acknowledgements say the same (task.rs: seal). *)
(* What was accepted but delivered later is AcceptedReceiptsSettled's.        *)
SettledInAgreement == CommandsSettled /\ EndAgrees
=============================================================================
