------------------------- MODULE ManagedControlProofs -------------------------
(* Proofs about ManagedControl, for every set of calling threads, channel     *)
(* capacity and work budget.                                                   *)
EXTENDS ManagedControl, FiniteSetTheorems, SequenceTheorems, TLAPS

(***************************************************************************)
(* Types                                                                    *)
(***************************************************************************)
LEMMA InitTyped == Init => Typed
<1> SUFFICES ASSUME Init PROVE Typed
  OBVIOUS
<1>1. SharedTyped
  <2>1. queue \in Seq(Updaters)
    BY DEF Init
  <2> QED BY <2>1 DEF Init, SharedTyped
<1>2. status \in Status
  BY DEF Init, Status, Phases
<1>3. DriverTyped
  BY ControlAssumption DEF Init, DriverTyped, Driver, Phases, DriverSteps, Holding
<1>4. CallersTyped
  BY DEF Init, CallersTyped, CallStates
<1> QED BY <1>1, <1>2, <1>3, <1>4 DEF Typed

(* What each step leaves of the shared state is typed.                        *)
LEMMA NextShared ==
  ASSUME Typed, [Next]_vars
  PROVE  SharedTyped'
<1> USE DEF Typed, SharedTyped, setup, signal, channel, wakers, callers
<1>1. ASSUME NEW s \in Stoppers, StopBegin(s) \/ StopLatch(s) \/ StopNotify(s)
      PROVE  SharedTyped'
  BY <1>1 DEF StopBegin, StopLatch, StopNotify, BeginStopping
<1>2. ASSUME NEW u \in Updaters, UpdateCheck(u) \/ UpdateReserve(u) \/ UpdateFull(u)
      PROVE  SharedTyped'
  BY <1>2 DEF UpdateCheck, UpdateReserve, UpdateFull, CallLeaves
<1>3. ASSUME NEW u \in Updaters, UpdateDeliver(u)
      PROVE  SharedTyped'
  <2>1. queue' \in Seq(Updaters)
    BY <1>3 DEF UpdateDeliver
  <2> QED BY <1>3, <2>1 DEF UpdateDeliver, CallLeaves
<1>4. ASSUME NEW next, NEW why, ObserveStop(next, why)
      PROVE  admission' \in {"Open", "Stopping", "Closed"}
  BY <1>4 DEF ObserveStop, BeginStopping
<1>5. queue # <<>> => Tail(queue) \in Seq(Updaters)
  OBVIOUS
<1>6. CASE Poll \/ Decide \/ Work \/ Register \/ CloseUpdates \/ CloseQueue \/ Publish
  BY <1>6 DEF Poll, Decide, Work, Register, CloseUpdates, CloseQueue, CloseReceiver,
     Publish
<1>7. CASE Start \/ Observe \/ Seal
  BY <1>4, <1>7 DEF Start, Observe, Seal
<1>8. CASE TakeCommand
  BY <1>5, <1>8 DEF TakeCommand, WaitForCommand
<1>9. CASE Refuse \/ Apply
  BY <1>9 DEF Refuse, Apply, Acknowledge, BeginStopping
<1>10. CASE Settle
  BY <1>10 DEF Settle, BeginStopping
<1>11. CASE Drain \/ DropReceiver
  <2>1. queue' \in Seq(Updaters)
    <3>1. CASE Drain
      BY <1>5, <3>1 DEF Drain
    <3>2. CASE DropReceiver
      <4>1. queue' = <<>>
        BY <3>2 DEF DropReceiver
      <4> QED BY <4>1
    <3> QED BY <1>11, <3>1, <3>2
  <2> QED BY <1>11, <2>1 DEF Drain, DropReceiver, Acknowledge
<1>12. CASE TargetsWake \/ Abandon \/ Ended \/ UNCHANGED vars
  BY <1>12 DEF TargetsWake, Abandon, Ended, vars
<1> QED BY <1>1, <1>2, <1>3, <1>6, <1>7, <1>8, <1>9, <1>10, <1>11, <1>12
        DEF Next, DriverStep, CallerStep

LEMMA NextStatus ==
  ASSUME Typed, [Next]_vars
  PROVE  status' \in Status
<1> USE DEF Typed, Status, Phases, Terminal
<1>1. ASSUME NEW next, NEW why, ObserveStop(next, why)
      PROVE  status' \in Status
  BY <1>1 DEF ObserveStop
<1>2. CASE Start \/ Observe \/ Seal
  BY <1>1, <1>2 DEF Start, Observe, Seal
<1>3. CASE Apply
  <2>1. status.applied + 1 \in Nat
    OBVIOUS
  <2>2. PICK next \in Phases :
          status' = [status EXCEPT !.applied = status.applied + 1, !.lifecycle = next]
    BY <1>3 DEF Apply
  <2> QED BY <2>1, <2>2
<1>4. CASE Settle
  BY <1>4 DEF Settle
<1>5. CASE Publish
  BY <1>5 DEF Publish, DriverTyped, Driver
<1>6. CASE UNCHANGED status
  BY <1>6
<1>7. ASSUME NEW s \in Stoppers, StopBegin(s) \/ StopLatch(s) \/ StopNotify(s)
      PROVE  UNCHANGED status
  BY <1>7 DEF StopBegin, StopLatch, StopNotify
<1>8. ASSUME NEW u \in Updaters, UpdateCheck(u) \/ UpdateReserve(u) \/ UpdateFull(u)
                                 \/ UpdateDeliver(u)
      PROVE  UNCHANGED status
  BY <1>8 DEF UpdateCheck, UpdateReserve, UpdateFull, UpdateDeliver, CallLeaves
<1>9. CASE Poll \/ TakeCommand \/ Decide \/ Refuse \/ Work \/ Register \/ CloseUpdates
           \/ CloseQueue \/ Drain \/ DropReceiver \/ TargetsWake \/ Abandon \/ Ended
           \/ UNCHANGED vars
  BY <1>9 DEF Poll, TakeCommand, Decide, Refuse, Work, Register, CloseUpdates,
     CloseQueue, Drain, DropReceiver, TargetsWake, Abandon, Ended, vars
<1> QED BY <1>2, <1>3, <1>4, <1>5, <1>6, <1>7, <1>8, <1>9
        DEF Next, DriverStep, CallerStep

LEMMA NextDriver ==
  ASSUME Typed, [Next]_vars
  PROVE  DriverTyped'
<1>0. DriverTyped
  BY DEF Typed
<1>1. ASSUME NEW next \in DriverSteps \ Holding, driver.inHand = None,
             NEW why \in {None, "StopRequested", "TargetsComplete", "DriverFailed"},
             ObserveStop(next, why)
      PROVE  DriverTyped'
  <2>0. driver \in Driver /\ next \in DriverSteps /\ "Stopping" \in Phases
    BY <1>0 DEF DriverTyped, Phases
  <2>1. driver' \in Driver
    <3>1. CASE requested /\ ~driver.stopObserved
      BY <1>1, <2>0, <3>1 DEF ObserveStop, Driver
    <3>2. CASE ~(requested /\ ~driver.stopObserved)
      BY <1>1, <2>0, <3>2 DEF ObserveStop, Driver
    <3> QED BY <3>1, <3>2
  <2>2. driver'.inHand = None /\ driver'.pc = next
    BY <1>1, <2>0 DEF ObserveStop, Driver
  <2> QED BY <2>1, <2>2 DEF DriverTyped
<1> USE DEF DriverTyped, Driver, DriverSteps, Holding, Phases, Terminal
<1>2. CASE Poll
  BY <1>0, <1>2 DEF Poll
<1>3. CASE Start
  <2>1. driver.inHand = None
    BY <1>0, <1>3 DEF Start
  <2>2. CASE ObserveStop("observe1", None)
    BY <1>1, <2>1, <2>2
  <2>3. CASE driver' = [driver EXCEPT !.pc = "observe1", !.phase = "Running"]
    BY <1>0, <2>1, <2>3
  <2>4. CASE driver' = [driver EXCEPT !.pc = "seal", !.reason = "DriverFailed"]
    BY <1>0, <2>1, <2>4
  <2> QED BY <1>3, <2>2, <2>3, <2>4 DEF Start
<1>4. CASE Observe
  <2>1. driver.inHand = None
    BY <1>0, <1>4 DEF Observe
  <2>2. PICK next \in {"commands", "work", "settle"} : ObserveStop(next, None)
    BY <1>4 DEF Observe
  <2> QED BY <1>1, <2>1, <2>2
<1>5. CASE TakeCommand
  <2>0. CommandBudget \in 0 .. CommandBudget
    BY ControlAssumption
  <2>1. queue # <<>> => Head(queue) \in Updaters /\ Head(queue) # None
    BY ControlAssumption DEF Typed, SharedTyped, None
  <2>2. CASE driver' = [driver EXCEPT !.pc = "decide", !.inHand = Head(queue),
                                      !.budget = @ - 1, !.again = TRUE]
    <3>1. queue # <<>> /\ driver.budget > 0
      BY <1>0, <1>5, <2>2 DEF TakeCommand
    <3>2. driver.budget - 1 \in 0 .. CommandBudget
      BY <1>0, <3>1, ControlAssumption
    <3> QED BY <1>0, <2>1, <2>2, <3>1, <3>2
  <2>3. CASE driver' = [driver EXCEPT !.pc = "observe2", !.budget = CommandBudget]
    <3>1. driver.inHand = None
      BY <1>0, <1>5 DEF TakeCommand
    <3> QED BY <1>0, <2>0, <2>3, <3>1
  <2> QED BY <1>5, <2>2, <2>3 DEF TakeCommand
<1>6. CASE Decide
  BY <1>0, <1>6 DEF Decide
<1>7. CASE Refuse
  BY <1>0, <1>7 DEF Refuse
<1>8. CASE Apply
  BY <1>0, <1>8 DEF Apply
<1>9. CASE Work
  BY <1>0, <1>9 DEF Work, Typed, SharedTyped
<1>10. CASE Settle
  BY <1>0, <1>10 DEF Settle
<1>11. CASE Register \/ CloseUpdates
  BY <1>0, <1>11 DEF Register, CloseUpdates
<1>12. CASE Seal
  <2>1. driver.inHand = None
    BY <1>0, <1>12 DEF Seal
  <2>2. SealedReason \in {None, "StopRequested", "TargetsComplete", "DriverFailed"}
    BY <1>0 DEF SealedReason
  <2> QED BY <1>1, <1>12, <2>1, <2>2 DEF Seal
<1>13. CASE CloseQueue
  BY <1>0, <1>13 DEF CloseQueue
<1>14. CASE Drain
  BY <1>0, <1>14 DEF Drain
<1>15. CASE Publish
  BY <1>0, <1>15 DEF Publish
<1>16. CASE DropReceiver \/ Abandon
  BY <1>0, <1>16 DEF DropReceiver, Abandon
<1>17. CASE UNCHANGED driver
  BY <1>0, <1>17
<1>18. CASE CallerStep \/ TargetsWake \/ Ended \/ UNCHANGED vars
  BY <1>17, <1>18 DEF CallerStep, StopBegin, StopLatch, StopNotify, UpdateCheck,
     UpdateReserve, UpdateFull, UpdateDeliver, CallLeaves, TargetsWake, Ended, vars
<1> QED BY <1>2, <1>3, <1>4, <1>5, <1>6, <1>7, <1>8, <1>9, <1>10, <1>11, <1>12,
           <1>13, <1>14, <1>15, <1>16, <1>18 DEF Next, DriverStep

LEMMA NextCallers ==
  ASSUME Typed, [Next]_vars
  PROVE  CallersTyped'
<1> USE DEF CallersTyped, CallStates
<1>0. CallersTyped
  BY DEF Typed
<1>1. ASSUME NEW s \in Stoppers, StopBegin(s) \/ StopLatch(s) \/ StopNotify(s)
      PROVE  CallersTyped'
  BY <1>0, <1>1 DEF StopBegin, StopLatch, StopNotify, AfterLatch
<1>2. ASSUME NEW u \in Updaters, UpdateCheck(u)
      PROVE  CallersTyped'
  <2>1. updater' \in [Updaters -> CallStates]
    BY <1>0, <1>2 DEF UpdateCheck, Refusal, Refusals
  <2>2. history' \in [warned : SUBSET Updaters, late : SUBSET Updaters,
                      lost : SUBSET Updaters]
    BY <1>0, <1>2 DEF UpdateCheck
  <2> QED BY <1>0, <1>2, <2>1, <2>2 DEF UpdateCheck, CallLeaves
<1>3. ASSUME NEW u \in Updaters, UpdateReserve(u) \/ UpdateFull(u)
      PROVE  CallersTyped'
  BY <1>0, <1>3 DEF UpdateReserve, UpdateFull, Refusal, Refusals, CallLeaves
<1>4. ASSUME NEW u \in Updaters, UpdateDeliver(u)
      PROVE  CallersTyped'
  <2>1. history' \in [warned : SUBSET Updaters, late : SUBSET Updaters,
                      lost : SUBSET Updaters]
    BY <1>0, <1>4 DEF UpdateDeliver
  <2> QED BY <1>0, <1>4, <2>1 DEF UpdateDeliver, CallLeaves
<1>5. ASSUME NEW u, NEW result \in Answers, Acknowledge(u, result)
      PROVE  CallersTyped'
  BY <1>0, <1>5 DEF Acknowledge
<1>6. CASE Refuse \/ Apply
  BY <1>5, <1>6 DEF Refuse, Apply, Answers
<1>7. CASE Drain
  BY <1>0, <1>5, <1>7 DEF Drain, Answers, callers
<1>8. CASE DropReceiver
  BY <1>0, <1>8 DEF DropReceiver, Answers
<1>9. CASE UNCHANGED callers
  BY <1>0, <1>9 DEF callers
<1>10. CASE Poll \/ Start \/ Observe \/ TakeCommand \/ Decide \/ Work \/ Settle
            \/ Register \/ Seal \/ CloseUpdates \/ CloseQueue \/ Publish
            \/ TargetsWake \/ Abandon \/ Ended \/ UNCHANGED vars
  BY <1>9, <1>10 DEF Poll, Start, Observe, TakeCommand, Decide, Work, Settle,
     Register, Seal, CloseUpdates, CloseQueue, Publish, TargetsWake, Abandon, Ended,
     vars
<1> QED BY <1>1, <1>2, <1>3, <1>4, <1>6, <1>7, <1>8, <1>10
        DEF Next, DriverStep, CallerStep

LEMMA NextTyped == Typed /\ [Next]_vars => Typed'
BY NextShared, NextStatus, NextDriver, NextCallers DEF Typed

(***************************************************************************)
(* The channel's capacity                                                   *)
(***************************************************************************)
LEMMA FiniteUpdaters ==
  \A S \in SUBSET Updaters : IsFiniteSet(S) /\ Cardinality(S) \in Nat
BY ControlAssumption, FS_Subset, FS_CardinalityType

LEMMA InitPermits == Init => Permits <= Capacity
<1> SUFFICES ASSUME Init PROVE Permits <= Capacity
  OBVIOUS
<1>1. { u \in Updaters : updater[u] = "reserved" } = {}
  BY DEF Init
<1>2. Cardinality({ u \in Updaters : updater[u] = "reserved" }) = 0
  BY <1>1, FS_EmptySet
<1>3. Len(queue) = 0
  BY DEF Init
<1> QED BY <1>2, <1>3, ControlAssumption DEF Permits

(* Taking a permit needs room, delivering keeps the permit in the queue, and  *)
(* only taking a command or dropping the receiver gives permits back.         *)
LEMMA NextPermits ==
  ASSUME Typed, Permits <= Capacity, [Next]_vars
  PROVE  (Permits <= Capacity)'
<1> DEFINE R == { u \in Updaters : updater[u] = "reserved" }
<1>0. /\ queue \in Seq(Updaters) /\ Len(queue) \in Nat
      /\ updater \in [Updaters -> CallStates]
      /\ IsFiniteSet(R) /\ Cardinality(R) \in Nat
      /\ Capacity \in Nat
  BY FiniteUpdaters, ControlAssumption DEF Typed, SharedTyped, CallersTyped
<1>00. Permits = Len(queue) + Cardinality(R) /\ Permits' = Len(queue') + Cardinality(R')
  BY DEF Permits
<1>1. CASE Len(queue') <= Len(queue) /\ Len(queue') \in Nat /\ R' = R
  <2> HIDE DEF R
  <2>1. Cardinality(R') = Cardinality(R)
    BY <1>1
  <2> QED BY <1>0, <1>00, <1>1, <2>1
<1>2. ASSUME NEW s \in Stoppers, StopBegin(s) \/ StopLatch(s) \/ StopNotify(s)
      PROVE  (Permits <= Capacity)'
  <2>1. queue' = queue /\ updater' = updater
    BY <1>2 DEF StopBegin, StopLatch, StopNotify, channel
  <2> QED BY <1>0, <1>1, <2>1
<1>3. ASSUME NEW u \in Updaters, UpdateCheck(u) \/ UpdateFull(u)
      PROVE  (Permits <= Capacity)'
  <2>1. queue' = queue
    BY <1>3 DEF UpdateCheck, UpdateFull
  <2>2. R' = R
    BY <1>0, <1>3 DEF UpdateCheck, UpdateFull, Refusal
  <2> QED BY <1>0, <1>1, <2>1, <2>2
<1>4. ASSUME NEW u \in Updaters, UpdateReserve(u)
      PROVE  (Permits <= Capacity)'
  <2>1. queue' = queue
    BY <1>4 DEF UpdateReserve
  <2>2. CASE R' = R
    BY <1>0, <1>1, <2>1, <2>2
  <2>3. CASE R' # R
    <3>1. R' = R \cup {u} /\ HasRoom
      BY <1>0, <1>4, <2>3 DEF UpdateReserve
    <3>2. u \notin R
      BY <1>4 DEF UpdateReserve
    <3>3. Cardinality(R') = Cardinality(R) + 1
      BY <1>0, <3>1, <3>2, FS_AddElement
    <3> QED BY <1>0, <2>1, <3>1, <3>3 DEF Permits, HasRoom
  <2> QED BY <2>2, <2>3
<1>5. ASSUME NEW u \in Updaters, UpdateDeliver(u)
      PROVE  (Permits <= Capacity)'
  <2>1. Len(queue') = Len(queue) + 1
    BY <1>0, <1>5 DEF UpdateDeliver
  <2>2. R' = R \ {u} /\ u \in R
    BY <1>0, <1>5 DEF UpdateDeliver
  <2>3. Cardinality(R') = Cardinality(R) - 1
    BY <1>0, <2>2, FS_RemoveElement, ZenonT(40)
  <2> QED BY <1>0, <2>1, <2>3 DEF Permits
<1>6. queue # <<>> => Len(Tail(queue)) = Len(queue) - 1 /\ Len(queue) >= 1
  BY <1>0
<1>7. CASE TakeCommand
  <2>1. updater' = updater
    BY <1>7 DEF TakeCommand, callers
  <2>2. queue' = queue \/ (queue # <<>> /\ queue' = Tail(queue))
    BY <1>7 DEF TakeCommand
  <2> QED BY <1>0, <1>1, <1>6, <2>1, <2>2
<1>8. CASE Drain
  <2>1. updater' = updater
    BY <1>8 DEF Drain, Acknowledge, callers
  <2>2. queue' = queue \/ (queue # <<>> /\ queue' = Tail(queue))
    BY <1>8 DEF Drain, channel
  <2> QED BY <1>0, <1>1, <1>6, <2>1, <2>2
<1>9. CASE DropReceiver
  <2>1. updater' = updater /\ queue' = <<>>
    BY <1>9 DEF DropReceiver
  <2>2. Len(queue') = 0
    BY <2>1
  <2> QED BY <1>0, <1>1, <2>1, <2>2
<1>10. CASE Poll \/ Start \/ Observe \/ Decide \/ Refuse \/ Apply \/ Work \/ Settle
            \/ Register \/ Seal \/ CloseUpdates \/ CloseQueue \/ Publish
            \/ TargetsWake \/ Abandon \/ Ended \/ UNCHANGED vars
  <2>1. queue' = queue /\ updater' = updater
    BY <1>10 DEF Poll, Start, Observe, Decide, Refuse, Apply, Acknowledge, Work,
       Settle, Register, Seal, CloseUpdates, CloseQueue, Publish, TargetsWake,
       Abandon, Ended, vars, channel, callers
  <2> QED BY <1>0, <1>1, <2>1
<1> QED BY <1>2, <1>3, <1>4, <1>5, <1>7, <1>8, <1>9, <1>10
        DEF Next, DriverStep, CallerStep

(* Type correctness of the control plane: in particular, the command channel  *)
(* and the sends holding a permit never exceed its capacity.                  *)
THEOREM ControlTypeCorrect == Spec => []TypeOK
<1>1. Init => TypeOK
  BY InitTyped, InitPermits DEF TypeOK
<1>2. TypeOK /\ [Next]_vars => TypeOK'
  BY NextTyped, NextPermits DEF TypeOK
<1> QED BY <1>1, <1>2, PTL DEF Spec

(***************************************************************************)
(* Admission                                                                *)
(***************************************************************************)
(* Admission never reopens: the only writes are begin_stopping, which leaves  *)
(* Stopping and Closed alone, and close_updates.                              *)
LEMMA AdmissionStep ==
  ASSUME Typed, [Next]_vars
  PROVE  admission' \in {admission, BeginStopping(admission), "Closed"}
<1>1. ASSUME NEW next, NEW why, ObserveStop(next, why)
      PROVE  admission' \in {admission, BeginStopping(admission)}
  BY <1>1 DEF ObserveStop
<1>2. CASE Start \/ Observe \/ Seal
  BY <1>1, <1>2 DEF Start, Observe, Seal
<1>3. CASE CallerStep
  BY <1>3 DEF CallerStep, StopBegin, StopLatch, StopNotify, UpdateCheck,
     UpdateReserve, UpdateFull, UpdateDeliver, CallLeaves, signal
<1>4. CASE Apply \/ Settle \/ CloseUpdates
  BY <1>4 DEF Apply, Settle, CloseUpdates
<1>5. CASE Poll \/ TakeCommand \/ Decide \/ Refuse \/ Work \/ Register \/ CloseQueue
           \/ Drain \/ Publish \/ DropReceiver \/ TargetsWake \/ Abandon \/ Ended
           \/ UNCHANGED vars
  BY <1>5 DEF Poll, TakeCommand, Decide, Refuse, Work, Register, CloseQueue, Drain,
     Publish, DropReceiver, TargetsWake, Abandon, Ended, vars, signal
<1> QED BY <1>2, <1>3, <1>4, <1>5 DEF Next, DriverStep

THEOREM AdmissionMonotone == Spec => AdmissionNeverReopens
<1>1. Typed /\ [Next]_vars =>
        [/\ admission = "Closed" => admission' = "Closed"
         /\ admission = "Stopping" => admission' # "Open"]_vars
  BY AdmissionStep DEF BeginStopping
<1>2. Spec => []Typed
  BY InitTyped, NextTyped, PTL DEF Spec
<1> QED BY <1>1, <1>2, PTL DEF Spec, AdmissionNeverReopens

(* A stop call that has begun has ended admission, so a call that starts      *)
(* after it has returned is refused.                                           *)
StopInv ==
  /\ \A s \in Stoppers : stopper[s] # "begin" => admission # "Open"
  /\ StopThenRefused

LEMMA InitStopInv == Init => StopInv
BY DEF Init, StopInv, StopThenRefused

LEMMA NextStopInv ==
  ASSUME Typed, StopInv, [Next]_vars
  PROVE  StopInv'
<1>0. /\ stopper \in [Stoppers -> {"begin", "latch", "notify", "returned"}]
      /\ updater \in [Updaters -> CallStates]
      /\ history \in [warned : SUBSET Updaters, late : SUBSET Updaters,
                      lost : SUBSET Updaters]
      /\ admission \in {"Open", "Stopping", "Closed"}
  BY DEF Typed, SharedTyped, CallersTyped
<1>1. admission # "Open" => admission' # "Open"
  BY <1>0, AdmissionStep DEF BeginStopping
<1>2. ASSUME NEW s \in Stoppers, StopBegin(s) \/ StopLatch(s) \/ StopNotify(s)
      PROVE  StopInv'
  <2>1. updater' = updater /\ history' = history
    BY <1>2 DEF StopBegin, StopLatch, StopNotify
  <2>2. \A x \in Stoppers : stopper'[x] # "begin" => admission' # "Open"
    BY <1>0, <1>1, <1>2 DEF StopInv, StopBegin, StopLatch, StopNotify, BeginStopping
  <2> QED BY <2>1, <2>2 DEF StopInv, StopThenRefused
<1>3. ASSUME NEW u \in Updaters, UpdateCheck(u)
      PROVE  StopInv'
  <2>1. stopper' = stopper /\ admission' = admission
    BY <1>3 DEF UpdateCheck, CallLeaves, signal
  <2>2. CASE \E s \in Stoppers : stopper[s] = "returned"
    <3>1. admission # "Open"
      BY <2>2 DEF StopInv
    <3>2. history'.warned = history.warned \cup {u}
      BY <1>0, <1>3, <2>2 DEF UpdateCheck
    <3>3. updater'[u] \in {"Stopping", "DriverClosed"}
      BY <1>0, <1>3, <3>1 DEF UpdateCheck, Refusal
    <3>4. \A x \in Updaters \ {u} : updater'[x] = updater[x]
      BY <1>0, <1>3 DEF UpdateCheck
    <3> QED BY <1>0, <2>1, <3>2, <3>3, <3>4 DEF StopInv, StopThenRefused
  <2>3. CASE ~\E s \in Stoppers : stopper[s] = "returned"
    <3>1. history' = history
      BY <1>3, <2>3 DEF UpdateCheck
    <3>2. u \notin history.warned
      BY <1>3 DEF UpdateCheck, StopInv, StopThenRefused
    <3>3. \A x \in Updaters \ {u} : updater'[x] = updater[x]
      BY <1>0, <1>3 DEF UpdateCheck
    <3> QED BY <1>0, <2>1, <3>1, <3>2, <3>3 DEF StopInv, StopThenRefused
  <2> QED BY <2>2, <2>3
<1>4. ASSUME NEW u \in Updaters, UpdateReserve(u) \/ UpdateFull(u) \/ UpdateDeliver(u)
      PROVE  StopInv'
  <2>1. stopper' = stopper /\ admission' = admission
    BY <1>4 DEF UpdateReserve, UpdateFull, UpdateDeliver, CallLeaves, signal
  <2>2. history'.warned = history.warned
    BY <1>0, <1>4 DEF UpdateReserve, UpdateFull, UpdateDeliver
  <2>3. u \notin history.warned
    BY <1>4 DEF UpdateReserve, UpdateFull, UpdateDeliver, StopInv, StopThenRefused
  <2>4. \A x \in Updaters \ {u} : updater'[x] = updater[x]
    BY <1>0, <1>4 DEF UpdateReserve, UpdateFull, UpdateDeliver
  <2> QED BY <1>0, <2>1, <2>2, <2>3, <2>4 DEF StopInv, StopThenRefused
<1>5. CASE DriverStep \/ TargetsWake \/ Abandon \/ Ended \/ UNCHANGED vars
  <2>1. stopper' = stopper /\ updater' = updater /\ history' = history
    BY <1>5 DEF DriverStep, Poll, Start, Observe, TakeCommand, Decide, Refuse, Apply,
       Acknowledge, Work, Settle, Register, Seal, CloseUpdates, CloseQueue, Drain,
       Publish, DropReceiver, TargetsWake, Abandon, Ended, vars, callers
  <2> QED BY <1>1, <2>1 DEF StopInv, StopThenRefused
<1> QED BY <1>2, <1>3, <1>4, <1>5 DEF Next, CallerStep

(* An update that starts after a stop call returned is refused, whatever the  *)
(* driver has done by then.                                                    *)
THEOREM StopAlwaysRefuses == Spec => []StopThenRefused
<1>1. Init => Typed /\ StopInv
  BY InitTyped, InitStopInv
<1>2. (Typed /\ StopInv) /\ [Next]_vars => (Typed /\ StopInv)'
  BY NextTyped, NextStopInv
<1>3. StopInv => StopThenRefused
  BY DEF StopInv
<1> QED BY <1>1, <1>2, <1>3, PTL DEF Spec

(***************************************************************************)
(* Every command is somewhere                                               *)
(***************************************************************************)

Waiting(q) == { q[i] : i \in DOMAIN q }
Unique(q) == \A i, j \in DOMAIN q : q[i] = q[j] => i = j

(* Taking the head of a queue without repetitions.                            *)
LEMMA TakeHead ==
  ASSUME NEW S, NEW q \in Seq(S), q # <<>>, Unique(q)
  PROVE  /\ Unique(Tail(q)) /\ Head(q) \in Waiting(q) /\ Head(q) \in S
         /\ Waiting(Tail(q)) = Waiting(q) \ {Head(q)}
<1> DEFINE t == Tail(q)
<1>0. /\ Len(q) \in Nat /\ DOMAIN q = 1 .. Len(q) /\ Len(q) # 0
  BY LenProperties, EmptySeq
<1>1. /\ t \in Seq(S) /\ Len(t) = Len(q) - 1 /\ \A i \in 1 .. Len(t) : t[i] = q[i + 1]
      /\ Head(q) = q[1] /\ Head(q) \in S
  BY HeadTailProperties
<1>2. DOMAIN t = 1 .. Len(q) - 1
  BY <1>0, <1>1, LenProperties
<1> HIDE DEF t
<1>3. ASSUME NEW i \in DOMAIN t PROVE i + 1 \in DOMAIN q /\ i + 1 # 1 /\ t[i] = q[i + 1]
  BY <1>0, <1>1, <1>2
<1>4. Unique(t)
  <2> SUFFICES ASSUME NEW i \in DOMAIN t, NEW j \in DOMAIN t, t[i] = t[j] PROVE i = j
    BY DEF Unique
  <2>1. i + 1 = j + 1
    BY <1>3 DEF Unique
  <2> QED BY <1>2, <2>1
<1>5. 1 \in DOMAIN q
  BY <1>0
<1>6. Waiting(t) \subseteq Waiting(q) \ {Head(q)}
  <2> SUFFICES ASSUME NEW i \in DOMAIN t PROVE t[i] \in Waiting(q) /\ t[i] # Head(q)
    BY DEF Waiting
  <2> QED BY <1>1, <1>3, <1>5 DEF Waiting, Unique
<1>7. Waiting(q) \ {Head(q)} \subseteq Waiting(t)
  <2> SUFFICES ASSUME NEW i \in DOMAIN q, q[i] # Head(q) PROVE q[i] \in Waiting(t)
    BY DEF Waiting
  <2>1. i - 1 \in DOMAIN t /\ i - 1 + 1 = i
    BY <1>0, <1>1, <1>2
  <2>2. t[i - 1] = q[i]
    BY <1>3, <2>1
  <2> QED BY <2>1, <2>2 DEF Waiting
<1> QED BY <1>1, <1>4, <1>5, <1>6, <1>7 DEF Waiting, t

(* Delivering a command that is not in the queue.                             *)
LEMMA AddTail ==
  ASSUME NEW S, NEW q \in Seq(S), NEW e \in S
  PROVE  /\ Waiting(Append(q, e)) = Waiting(q) \cup {e}
         /\ Unique(q) /\ e \notin Waiting(q) => Unique(Append(q, e))
<1> DEFINE a == Append(q, e)
<1>0. Len(q) \in Nat /\ DOMAIN q = 1 .. Len(q)
  BY LenProperties
<1>1. /\ a \in Seq(S) /\ Len(a) = Len(q) + 1
      /\ \A i \in 1 .. Len(q) : a[i] = q[i]
      /\ a[Len(q) + 1] = e
  BY AppendProperties
<1> HIDE DEF a
<1>2. DOMAIN a = 1 .. Len(q) + 1
  BY <1>1, LenProperties
<1>3. Waiting(a) = Waiting(q) \cup {e}
  BY <1>0, <1>1, <1>2 DEF Waiting
<1>4. ASSUME Unique(q), e \notin Waiting(q) PROVE Unique(a)
  BY <1>0, <1>1, <1>2, <1>4 DEF Unique, Waiting
<1> QED BY <1>3, <1>4 DEF a

(* A command is waiting or in the driver's hand exactly from its delivery to  *)
(* its answer.                                                                *)
QueueOK(q, h, upd, ans) ==
  /\ Unique(q) /\ h \notin Waiting(q)
  /\ \A u \in Updaters : ans[u] # None => upd[u] = "accepted"
  /\ \A u \in Updaters :
       (upd[u] = "accepted" /\ ans[u] = None) <=> (u \in Waiting(q) \/ h = u)

QueueInv == QueueOK(queue, driver.inHand, updater, answer)

LEMMA EmptyWaiting == Waiting(<<>>) = {} /\ Unique(<<>>)
BY DEF Waiting, Unique

LEMMA InitQueueInv == Init => QueueInv
BY EmptyWaiting, ControlAssumption DEF Init, QueueInv, QueueOK, None

(* The types the following lemmas use.                                        *)
LEMMA TypedParts ==
  ASSUME Typed
  PROVE  /\ queue \in Seq(Updaters) /\ updater \in [Updaters -> CallStates]
         /\ answer \in [Updaters -> Answers \cup {None}]
         /\ driver \in Driver /\ (driver.inHand # None <=> driver.pc \in Holding)
         /\ history \in [warned : SUBSET Updaters, late : SUBSET Updaters,
                         lost : SUBSET Updaters]
         /\ None \notin Updaters /\ Waiting(queue) \subseteq Updaters
<1>1. queue \in Seq(Updaters) /\ \A i \in DOMAIN queue : queue[i] \in Updaters
  BY ElementOfSeq, LenProperties DEF Typed, SharedTyped
<1> QED BY <1>1, ControlAssumption DEF Typed, CallersTyped, DriverTyped, None, Waiting

(* The driver moves on without touching a command.                            *)
Moves ==
  /\ UNCHANGED <<queue, updater, answer, history>>
  /\ driver'.inHand = driver.inHand

Answering(u, result) == answer' = [answer EXCEPT ![u] = result]

LEMMA DriverMoves ==
  ASSUME Typed,
         \/ Poll \/ Start \/ Observe \/ Decide \/ Work \/ Settle \/ Register \/ Seal
         \/ CloseUpdates \/ CloseQueue \/ Publish \/ TargetsWake \/ Abandon \/ Ended
         \/ UNCHANGED vars
         \/ \E s \in Stoppers : StopBegin(s) \/ StopLatch(s) \/ StopNotify(s)
  PROVE  Moves
<1>0. driver \in Driver
  BY TypedParts
<1>1. ASSUME NEW next, NEW why, ObserveStop(next, why) PROVE driver'.inHand = driver.inHand
  BY <1>0, <1>1 DEF ObserveStop, Driver
<1>2. CASE Start
  BY <1>0, <1>1, <1>2 DEF Start, Moves, Driver, channel, callers
<1>3. CASE Observe \/ Seal
  BY <1>1, <1>3 DEF Observe, Seal, Moves, channel, callers
<1>4. CASE Poll \/ Decide \/ Work \/ Register \/ Abandon
  BY <1>0, <1>4 DEF Poll, Decide, Work, Register, Abandon, Moves, Driver, channel, callers
<1>5. CASE CloseUpdates \/ CloseQueue \/ Publish
  BY <1>0, <1>5 DEF CloseUpdates, CloseQueue, Publish, Moves, Driver, channel, callers
<1>6. CASE Settle
  BY <1>0, <1>6 DEF Settle, Moves, Driver, channel, callers
<1>7. CASE TargetsWake \/ Ended \/ UNCHANGED vars
  BY <1>7 DEF TargetsWake, Ended, vars, Moves, channel, callers
<1>8. CASE \E s \in Stoppers : StopBegin(s) \/ StopLatch(s) \/ StopNotify(s)
  BY <1>8 DEF StopBegin, StopLatch, StopNotify, Moves, channel
<1> QED BY <1>2, <1>3, <1>4, <1>5, <1>6, <1>7, <1>8

LEMMA NextQueueInv ==
  ASSUME Typed, QueueInv, [Next]_vars
  PROVE  QueueInv'
<1>0. /\ queue \in Seq(Updaters) /\ updater \in [Updaters -> CallStates]
      /\ answer \in [Updaters -> Answers \cup {None}]
      /\ driver \in Driver /\ (driver.inHand # None <=> driver.pc \in Holding)
      /\ None \notin Updaters /\ Waiting(queue) \subseteq Updaters
  BY TypedParts
<1>00. QueueOK(queue, driver.inHand, updater, answer)
  BY DEF QueueInv
<1>1. CASE Moves
  BY <1>00, <1>1 DEF Moves, QueueInv
<1>2. ASSUME NEW u \in Updaters, UpdateCheck(u) \/ UpdateReserve(u) \/ UpdateFull(u)
      PROVE  QueueInv'
  <2>1. /\ queue' = queue /\ answer' = answer /\ driver' = driver
        /\ updater[u] # "accepted" /\ updater'[u] # "accepted"
        /\ \A x \in Updaters \ {u} : updater'[x] = updater[x]
    BY <1>0, <1>2 DEF UpdateCheck, UpdateReserve, UpdateFull, CallLeaves, Refusal
  <2> QED BY <1>00, <2>1 DEF QueueInv, QueueOK
<1>3. ASSUME NEW u \in Updaters, UpdateDeliver(u)
      PROVE  QueueInv'
  <2>1. /\ queue' = Append(queue, u) /\ answer' = answer /\ driver' = driver
        /\ updater[u] # "accepted" /\ updater'[u] = "accepted"
        /\ \A x \in Updaters \ {u} : updater'[x] = updater[x]
    BY <1>0, <1>3 DEF UpdateDeliver, CallLeaves
  <2>2. u \notin Waiting(queue) /\ driver.inHand # u /\ answer[u] = None
    BY <1>00, <2>1 DEF QueueOK
  <2>3. Waiting(queue') = Waiting(queue) \cup {u} /\ Unique(queue')
    BY <1>0, <1>00, <2>1, <2>2, AddTail DEF QueueOK
  <2> QED BY <1>00, <2>1, <2>2, <2>3 DEF QueueInv, QueueOK
<1>4. queue # <<>> =>
        /\ Unique(Tail(queue)) /\ Head(queue) \in Waiting(queue)
        /\ Waiting(Tail(queue)) = Waiting(queue) \ {Head(queue)}
  BY <1>0, <1>00, TakeHead DEF QueueOK
<1>5. CASE TakeCommand
  <2>1. answer' = answer /\ updater' = updater /\ driver.inHand = None
    BY <1>0, <1>5 DEF TakeCommand, callers, Holding
  <2>2. CASE queue # <<>> /\ queue' = Tail(queue) /\ driver'.inHand = Head(queue)
    <3>1. /\ Unique(queue') /\ driver'.inHand \in Waiting(queue)
          /\ Waiting(queue') = Waiting(queue) \ {driver'.inHand}
      BY <1>4, <2>2
    <3> QED BY <1>0, <1>00, <2>1, <3>1 DEF QueueInv, QueueOK
  <2>3. CASE queue' = queue /\ driver'.inHand = None
    BY <1>00, <2>1, <2>3 DEF QueueInv, QueueOK
  <2> QED BY <1>0, <1>5, <2>1, <2>2, <2>3 DEF TakeCommand, Driver
<1>6. CASE Refuse \/ Apply
  <2> DEFINE h == driver.inHand
  <2>1. PICK result \in Answers : Answering(h, result)
    BY <1>6 DEF Refuse, Apply, Acknowledge, Answers, Answering
  <2>2. /\ queue' = queue /\ updater' = updater /\ driver'.inHand = None /\ result # None
        /\ h # None /\ h \in Updaters
    BY <1>0, <1>6, <2>1 DEF Refuse, Apply, Acknowledge, Driver, Holding, Answers, None
  <2>3. answer'[h] = result /\ \A x \in Updaters \ {h} : answer'[x] = answer[x]
    BY <1>0, <2>1, <2>2 DEF Answering
  <2>4. h \notin Waiting(queue) /\ updater[h] = "accepted"
    BY <1>00, <2>2 DEF QueueOK
  <2> HIDE DEF h
  <2>5. \A u \in Updaters : answer'[u] # None => updater[u] = "accepted"
    BY <1>00, <2>3, <2>4 DEF QueueOK
  <2>6. \A u \in Updaters :
          (updater[u] = "accepted" /\ answer'[u] = None) <=> (u \in Waiting(queue) \/ None = u)
    BY <1>0, <1>00, <2>2, <2>3, <2>4 DEF QueueOK, h
  <2> QED BY <1>0, <1>00, <2>2, <2>5, <2>6 DEF QueueInv, QueueOK
<1>7. CASE Drain
  <2>0. driver.inHand = None
    BY <1>0, <1>7 DEF Drain, Holding
  <2>1. CASE queue # <<>>
    <3> DEFINE h == Head(queue)
    <3>1. PICK result \in Answers : Answering(h, result)
      BY <1>7, <2>1 DEF Drain, Acknowledge, Answers, Answering
    <3>2. queue' = Tail(queue) /\ updater' = updater /\ driver' = driver /\ result # None
      BY <1>7, <2>1, <3>1 DEF Drain, Acknowledge, Answers, None
    <3>3. Unique(queue') /\ h \in Waiting(queue) /\ Waiting(queue') = Waiting(queue) \ {h}
      BY <1>4, <2>1, <3>2
    <3> HIDE DEF h
    <3>4. answer'[h] = result /\ \A x \in Updaters \ {h} : answer'[x] = answer[x]
      BY <1>0, <3>1, <3>3 DEF Answering
    <3>5. h \in Updaters /\ updater[h] = "accepted"
      BY <1>0, <1>00, <3>3 DEF QueueOK
    <3>6. \A u \in Updaters : answer'[u] # None => updater[u] = "accepted"
      BY <1>00, <3>4, <3>5 DEF QueueOK
    <3>7. \A u \in Updaters :
            (updater[u] = "accepted" /\ answer'[u] = None) <=> (u \in Waiting(queue') \/ None = u)
      BY <1>0, <1>00, <2>0, <3>2, <3>3, <3>4, <3>5 DEF QueueOK
    <3> QED BY <1>0, <1>00, <2>0, <3>2, <3>3, <3>6, <3>7 DEF QueueInv, QueueOK
  <2>2. CASE queue = <<>>
    <3>1. Moves
      BY <1>0, <1>7, <2>2 DEF Drain, Moves, Driver, channel, callers
    <3> QED BY <1>1, <3>1
  <2> QED BY <2>1, <2>2
<1>8. CASE DropReceiver
  <2>1. /\ queue' = <<>> /\ updater' = updater /\ driver.inHand = None /\ driver'.inHand = None
        /\ \A u \in Updaters : answer'[u] = IF u \in Waiting(queue) THEN "Disconnected" ELSE answer[u]
    BY <1>0, <1>8 DEF DropReceiver, Driver, Holding, Waiting
  <2>2. \A u \in Updaters : answer'[u] # None => updater[u] = "accepted"
    BY <1>00, <2>1 DEF QueueOK
  <2>3. \A u \in Updaters : ~(updater[u] = "accepted" /\ answer'[u] = None)
    BY <1>0, <1>00, <2>1 DEF QueueOK, None
  <2> QED BY <1>0, <2>1, <2>2, <2>3, EmptyWaiting DEF QueueInv, QueueOK
<1> QED BY <1>1, <1>2, <1>3, <1>5, <1>6, <1>7, <1>8, DriverMoves
        DEF Next, DriverStep, CallerStep

(***************************************************************************)
(* Sealing                                                                  *)
(***************************************************************************)

(* Where a terminal phase can be seen, and where the receiver is closed.      *)
PhaseInv ==
  /\ driver.phase = "Abandoned" =>
       driver.pc \in {"closeUpdates", "closeQueue", "publish", "finished", "gone"}
  /\ driver.phase \in {"Completed", "Failed"} => driver.pc \in {"finished", "gone"}
  /\ driver.pc \in {"drain", "publish", "finished", "gone"} => ~queueOpen

(* What is still waiting after the final drain came late, and what is waiting *)
(* when the task is gone is lost; only dropping the channel disconnects.      *)
LateInv ==
  /\ driver.pc \in {"publish", "finished"} /\ driver.phase # "Abandoned" =>
       \A u \in Waiting(queue) : u \in history.late
  /\ driver.pc = "gone" =>
       \A u \in Waiting(queue) : u \in history.lost /\ u \in history.late
  /\ \A u \in Updaters : answer[u] = "Disconnected" =>
       driver.pc = "gone" /\ (driver.phase = "Abandoned" \/ u \in history.late)

(* The end reason follows what was observed of a stop.                        *)
ReasonInv ==
  /\ driver.pc = "seal" =>
       /\ driver.reason \in {"StopRequested", "TargetsComplete", "DriverFailed"}
       /\ driver.reason = "StopRequested" => driver.stopObserved
  /\ driver.pc \in {"closeUpdates", "closeQueue", "drain", "publish"}
       /\ driver.phase # "Abandoned" =>
         driver.reason = "DriverFailed"
         \/ (driver.reason = "StopRequested" <=> driver.stopObserved)
  /\ driver.phase = "Completed" =>
       (driver.reason = "StopRequested" <=> status.stopRequested)

CountInv == status.applied = Cardinality({ u \in Updaters : answer[u] = "Applied" })

SettleInv == QueueInv /\ PhaseInv /\ LateInv /\ ReasonInv /\ CountInv

(* The steps the task takes before it is sealed.                              *)
Running ==
  \/ Poll \/ Start \/ Observe \/ TakeCommand \/ Decide \/ Refuse \/ Apply \/ Work
  \/ Settle \/ Register

Before == DriverSteps \ {"closeUpdates", "closeQueue", "drain", "publish", "finished", "gone"}

(* They stay before the sealing steps, in a phase that is not terminal.       *)
LEMMA RunningSteps ==
  ASSUME Typed, PhaseInv, Running
  PROVE  /\ driver.pc \in Before /\ driver'.pc \in Before
         /\ driver'.phase \in {"NotStarted", "Running", "Stopping"}
         /\ driver'.pc = "seal" =>
              /\ driver'.reason \in {"StopRequested", "TargetsComplete", "DriverFailed"}
              /\ driver'.reason = "StopRequested" => driver'.stopObserved
<1>0. driver \in Driver
  BY TypedParts
<1> USE DEF Driver, DriverSteps, Before
<1>1. driver.pc \in Before => driver.phase \in {"NotStarted", "Running", "Stopping"}
  BY <1>0 DEF PhaseInv, Phases, Terminal
<1>2. ASSUME NEW next, NEW why, ObserveStop(next, why), driver.pc \in Before
      PROVE  /\ driver'.pc = next /\ driver'.phase \in {"NotStarted", "Running", "Stopping"}
  BY <1>0, <1>1, <1>2 DEF ObserveStop
<1>3. CASE Start
  <2>1. driver.pc \in Before
    BY <1>3 DEF Start
  <2>2. CASE ObserveStop("observe1", None)
    BY <1>2, <2>1, <2>2
  <2>3. CASE driver' = [driver EXCEPT !.pc = "observe1", !.phase = "Running"]
    BY <1>0, <2>1, <2>3
  <2>4. CASE driver' = [driver EXCEPT !.pc = "seal", !.reason = "DriverFailed"]
    BY <1>0, <1>1, <2>1, <2>4
  <2> QED BY <1>3, <2>2, <2>3, <2>4 DEF Start
<1>4. CASE Observe
  BY <1>2, <1>4 DEF Observe
<1>5. CASE Poll \/ Decide \/ Work \/ Register
  BY <1>0, <1>1, <1>5 DEF Poll, Decide, Work, Register
<1>6. CASE TakeCommand \/ Refuse
  BY <1>0, <1>1, <1>6 DEF TakeCommand, Refuse
<1>7. CASE Apply
  BY <1>0, <1>1, <1>7 DEF Apply
<1>8. CASE Settle
  BY <1>0, <1>1, <1>8 DEF Settle
<1> QED BY <1>3, <1>4, <1>5, <1>6, <1>7, <1>8 DEF Running

(* The callers leave the task, its status and the receiver alone.             *)
LEMMA CallersLeaveDriver ==
  ASSUME CallerStep \/ TargetsWake \/ Ended \/ UNCHANGED vars
  PROVE  UNCHANGED <<driver, status, queueOpen, answer>>
<1>1. CASE CallerStep
  BY <1>1 DEF CallerStep, StopBegin, StopLatch, StopNotify, UpdateCheck,
     UpdateReserve, UpdateFull, UpdateDeliver, CallLeaves, channel
<1>2. CASE TargetsWake \/ Ended \/ UNCHANGED vars
  BY <1>2 DEF TargetsWake, Ended, vars, channel, callers
<1> QED BY <1>1, <1>2

LEMMA NextPhaseInv ==
  ASSUME Typed, PhaseInv, [Next]_vars
  PROVE  PhaseInv'
<1>0. driver \in Driver
  BY TypedParts
<1>1. CASE Running
  BY <1>1, RunningSteps DEF PhaseInv, Before
<1>2. CASE CallerStep \/ TargetsWake \/ Ended \/ UNCHANGED vars
  BY <1>2, CallersLeaveDriver DEF PhaseInv
<1>3. CASE Seal
  <2>1. driver'.pc = "closeUpdates" /\ driver'.phase \in {driver.phase, "Stopping"}
    BY <1>0, <1>3 DEF Seal, ObserveStop, Driver
  <2> QED BY <1>3, <2>1 DEF PhaseInv, Seal
<1>4. CASE Abandon \/ CloseUpdates
  BY <1>0, <1>4 DEF Abandon, CloseUpdates, PhaseInv, Driver
<1>5. CASE CloseQueue
  BY <1>0, <1>5 DEF CloseQueue, CloseReceiver, PhaseInv, Driver
<1>6. CASE Drain
  BY <1>0, <1>6 DEF Drain, Acknowledge, PhaseInv, Driver, channel
<1>7. CASE Publish
  BY <1>0, <1>7 DEF Publish, PhaseInv, Driver, channel
<1>8. CASE DropReceiver
  BY <1>0, <1>8 DEF DropReceiver, PhaseInv, Driver
<1> QED BY <1>1, <1>2, <1>3, <1>4, <1>5, <1>6, <1>7, <1>8
        DEF Next, DriverStep, Running

LEMMA NextReasonInv ==
  ASSUME Typed, PhaseInv, ReasonInv, [Next]_vars
  PROVE  ReasonInv'
<1>0. driver \in Driver /\ requested \in BOOLEAN /\ status \in Status
  BY TypedParts DEF Typed, SharedTyped
<1>1. CASE Running
  BY <1>1, RunningSteps DEF ReasonInv, Before
<1>2. CASE CallerStep \/ TargetsWake \/ Ended \/ UNCHANGED vars
  BY <1>2, CallersLeaveDriver DEF ReasonInv
<1>3. CASE Seal
  <2>0. /\ driver.reason \in {"StopRequested", "TargetsComplete", "DriverFailed"}
        /\ driver.reason = "StopRequested" => driver.stopObserved
        /\ driver.phase \in {"NotStarted", "Running", "Stopping"}
    BY <1>0, <1>3 DEF Seal, ReasonInv, PhaseInv, Driver, Phases, Terminal
  <2>1. /\ driver'.pc = "closeUpdates" /\ driver'.reason = SealedReason
        /\ driver'.phase \in {driver.phase, "Stopping"}
        /\ driver'.stopObserved <=> (driver.stopObserved \/ requested)
    BY <1>0, <1>3 DEF Seal, ObserveStop, Driver
  <2>2. SealedReason = "DriverFailed"
        \/ (SealedReason = "StopRequested" <=> (driver.stopObserved \/ requested))
    BY <2>0 DEF SealedReason
  <2> QED BY <2>0, <2>1, <2>2 DEF ReasonInv
<1>4. CASE Abandon
  BY <1>0, <1>4 DEF Abandon, ReasonInv, PhaseInv, Driver
<1>5. CASE CloseUpdates \/ CloseQueue
  BY <1>0, <1>5 DEF CloseUpdates, CloseQueue, ReasonInv, PhaseInv, Driver
<1>6. CASE Drain
  BY <1>0, <1>6 DEF Drain, Acknowledge, ReasonInv, PhaseInv, Driver
<1>7. CASE Publish
  <2> DEFINE final == IF driver.phase = "Abandoned" THEN "Abandoned"
                      ELSE IF driver.reason = "DriverFailed" THEN "Failed" ELSE "Completed"
  <2>1. /\ driver'.pc = "finished" /\ driver'.phase = final
        /\ driver'.reason = driver.reason
        /\ status'.stopRequested = driver.stopObserved
    BY <1>0, <1>7 DEF Publish, Driver, Status
  <2>2. driver.pc = "publish"
    BY <1>7 DEF Publish
  <2> QED BY <2>1, <2>2 DEF ReasonInv
<1>8. CASE DropReceiver
  BY <1>0, <1>8 DEF DropReceiver, ReasonInv, Driver
<1> QED BY <1>1, <1>2, <1>3, <1>4, <1>5, <1>6, <1>7, <1>8
        DEF Next, DriverStep, Running

(* What a step of the task may do to the answers.                             *)
LEMMA AnswerSteps ==
  ASSUME Typed, QueueInv, PhaseInv, LateInv, [Next]_vars, ~DropReceiver
  PROVE  \/ answer' = answer
         \/ \E u \in Updaters, result \in Answers \ {"Disconnected"} :
              /\ answer[u] = None /\ answer' = [answer EXCEPT ![u] = result]
              /\ driver.pc # "gone" /\ (result = "Applied" <=> Apply)
<1>0. /\ queue \in Seq(Updaters) /\ answer \in [Updaters -> Answers \cup {None}]
      /\ driver \in Driver /\ (driver.inHand # None <=> driver.pc \in Holding)
      /\ None \notin Updaters /\ Waiting(queue) \subseteq Updaters
      /\ QueueOK(queue, driver.inHand, updater, answer)
  BY TypedParts DEF QueueInv
<1>1. CASE Apply
  <2>1. driver.inHand \in Updaters /\ answer[driver.inHand] = None /\ driver.pc # "gone"
    BY <1>0, <1>1 DEF Apply, Holding, Driver, QueueOK
  <2>2. answer' = [answer EXCEPT ![driver.inHand] = "Applied"]
    BY <1>1 DEF Apply, Acknowledge
  <2> QED BY <1>1, <2>1, <2>2 DEF Answers
<1>2. CASE Refuse
  <2>1. /\ driver.inHand \in Updaters /\ answer[driver.inHand] = None /\ driver.pc # "gone"
        /\ ~Apply
    BY <1>0, <1>2 DEF Refuse, Apply, Holding, Driver, QueueOK
  <2>2. PICK result \in {"Stopping", "Rejected"} : answer' = [answer EXCEPT ![driver.inHand] = result]
    BY <1>2 DEF Refuse, Acknowledge
  <2>3. result \in Answers \ {"Disconnected"} /\ result # "Applied"
    BY <2>2 DEF Answers
  <2> QED BY <2>1, <2>2, <2>3
<1>3. CASE Drain
  <2>1. CASE queue = <<>>
    BY <1>3, <2>1 DEF Drain, callers
  <2>2. CASE queue # <<>>
    <3>1. Head(queue) \in Waiting(queue) /\ Head(queue) \in Updaters
      BY <1>0, <2>2, TakeHead DEF QueueOK
    <3>2. answer[Head(queue)] = None /\ driver.pc # "gone" /\ ~Apply
      BY <1>0, <1>3, <3>1 DEF QueueOK, Drain, Apply
    <3>3. PICK result \in {"Stopping", "DriverFailed"} :
            answer' = [answer EXCEPT ![Head(queue)] = result]
      BY <1>3, <2>2 DEF Drain, Acknowledge
    <3>4. result \in Answers \ {"Disconnected"} /\ result # "Applied"
      BY <3>3 DEF Answers
    <3> QED BY <3>1, <3>2, <3>3, <3>4
  <2> QED BY <2>1, <2>2
<1>4. CASE \/ Poll \/ Start \/ Observe \/ Decide \/ Work \/ Settle \/ Register \/ Seal
           \/ CloseUpdates \/ CloseQueue \/ Publish \/ Abandon
  BY <1>4, DriverMoves DEF Moves
<1>5. CASE TakeCommand
  BY <1>5 DEF TakeCommand, callers
<1>6. CASE CallerStep \/ TargetsWake \/ Ended \/ UNCHANGED vars
  BY <1>6, CallersLeaveDriver
<1> QED BY <1>1, <1>2, <1>3, <1>4, <1>5, <1>6 DEF Next, DriverStep

LEMMA NextLateInv ==
  ASSUME Typed, QueueInv, PhaseInv, LateInv, [Next]_vars
  PROVE  LateInv'
<1>0. /\ queue \in Seq(Updaters) /\ answer \in [Updaters -> Answers \cup {None}]
      /\ driver \in Driver /\ Waiting(queue) \subseteq Updaters
      /\ history \in [warned : SUBSET Updaters, late : SUBSET Updaters,
                      lost : SUBSET Updaters]
  BY TypedParts
<1>1. ASSUME ~DropReceiver
      PROVE  \A u \in Updaters : answer'[u] = "Disconnected" => answer[u] = "Disconnected"
  BY <1>0, <1>1, AnswerSteps
<1>2. CASE Running
  <2>1. driver.pc \in Before /\ driver'.pc \in Before
    BY <1>2, RunningSteps
  <2>2. ~DropReceiver
    BY <2>1 DEF DropReceiver, Before
  <2> QED BY <1>1, <2>1, <2>2 DEF LateInv, Before
<1>3. ASSUME NEW u \in Updaters, UpdateDeliver(u)
      PROVE  LateInv'
  <2>1. driver' = driver /\ answer' = answer /\ Waiting(queue') = Waiting(queue) \cup {u}
    BY <1>0, <1>3, AddTail DEF UpdateDeliver, CallLeaves
  <2>2. /\ history'.late = IF queueOpen THEN history.late ELSE history.late \cup {u}
        /\ history'.lost = IF driver.pc = "gone" THEN history.lost \cup {u} ELSE history.lost
    BY <1>0, <1>3 DEF UpdateDeliver
  <2> QED BY <2>1, <2>2 DEF LateInv, PhaseInv
<1>4. CASE UNCHANGED <<queue, answer, driver, history.late, history.lost>>
  BY <1>4 DEF LateInv
<1>5. CASE CallerStep
  <2>1. ASSUME NEW u \in Updaters, UpdateCheck(u) \/ UpdateReserve(u) \/ UpdateFull(u)
        PROVE  LateInv'
    <3>1. UNCHANGED <<queue, answer, driver, history.late, history.lost>>
      BY <1>0, <2>1 DEF UpdateCheck, UpdateReserve, UpdateFull, CallLeaves
    <3> QED BY <1>4, <3>1
  <2>2. ASSUME NEW s \in Stoppers, StopBegin(s) \/ StopLatch(s) \/ StopNotify(s)
        PROVE  LateInv'
    BY <1>4, <2>2 DEF StopBegin, StopLatch, StopNotify, channel
  <2> QED BY <1>3, <1>5, <2>1, <2>2 DEF CallerStep
<1>6. CASE TargetsWake \/ Ended \/ UNCHANGED vars
  BY <1>4, <1>6 DEF TargetsWake, Ended, vars, channel, callers
<1>7. CASE Seal \/ Abandon \/ CloseUpdates
  <2>1. driver'.pc \in {"closeUpdates", "closeQueue"} /\ driver.pc # "gone"
    BY <1>0, <1>7 DEF Seal, ObserveStop, Abandon, CloseUpdates, Driver
  <2>2. answer' = answer
    BY <1>7, DriverMoves DEF Moves
  <2> QED BY <2>1, <2>2 DEF LateInv
<1>8. CASE CloseQueue
  BY <1>0, <1>8 DEF CloseQueue, LateInv, Driver, callers
<1>9. CASE Drain
  <2>1. driver.pc = "drain" /\ ~DropReceiver
    BY <1>9 DEF Drain, DropReceiver
  <2>2. \A u \in Updaters : answer'[u] # "Disconnected"
    BY <1>1, <2>1 DEF LateInv
  <2>3. CASE queue # <<>>
    BY <1>9, <2>1, <2>2, <2>3 DEF Drain, LateInv
  <2>4. CASE queue = <<>>
    <3>1. queue' = <<>> /\ driver'.pc = "publish"
      BY <1>0, <1>9, <2>4 DEF Drain, Driver, channel
    <3> QED BY <2>2, <3>1, EmptyWaiting DEF LateInv
  <2> QED BY <2>3, <2>4
<1>10. CASE Publish
  <2>1. /\ driver.pc = "publish" /\ driver'.pc = "finished"
        /\ (driver'.phase = "Abandoned" <=> driver.phase = "Abandoned")
    BY <1>0, <1>10 DEF Publish, Driver
  <2>2. UNCHANGED <<queue, answer, history>>
    BY <1>10, DriverMoves DEF Moves
  <2> QED BY <2>1, <2>2 DEF LateInv
<1>11. CASE DropReceiver
  <2>1. /\ driver.pc = "finished" /\ driver'.pc = "gone" /\ driver'.phase = driver.phase
        /\ queue' = <<>> /\ history' = history
    BY <1>0, <1>11 DEF DropReceiver, Driver
  <2>2. \A u \in Updaters :
          answer'[u] = IF u \in Waiting(queue) THEN "Disconnected" ELSE answer[u]
    BY <1>11 DEF DropReceiver, Waiting
  <2> QED BY <2>1, <2>2, EmptyWaiting DEF LateInv
<1> QED BY <1>2, <1>5, <1>6, <1>7, <1>8, <1>9, <1>10, <1>11 DEF Next, DriverStep, Running

(* Only Apply advances the published number, and it answers Applied.          *)
LEMMA NextCountInv ==
  ASSUME Typed, QueueInv, PhaseInv, LateInv, CountInv, [Next]_vars
  PROVE  CountInv'
<1> DEFINE A == { u \in Updaters : answer[u] = "Applied" }
<1>0. /\ answer \in [Updaters -> Answers \cup {None}] /\ None \notin Updaters
      /\ status \in Status /\ status.applied = Cardinality(A)
      /\ IsFiniteSet(A) /\ Cardinality(A) \in Nat
      /\ QueueOK(queue, driver.inHand, updater, answer)
  BY TypedParts, FiniteUpdaters DEF Typed, CountInv, QueueInv
<1>1. CASE Apply
  <2>0. ~DropReceiver
    BY <1>1 DEF Apply, DropReceiver
  <2>1. status'.applied = status.applied + 1
    BY <1>0, <1>1 DEF Apply, Status
  <2>2. driver.inHand \in Updaters /\ answer[driver.inHand] = None
    BY <1>0, <1>1, TypedParts DEF Apply, Holding, Driver, QueueOK
  <2>3. answer' = [answer EXCEPT ![driver.inHand] = "Applied"]
    BY <1>1 DEF Apply, Acknowledge
  <2>4. A' = A \cup {driver.inHand} /\ driver.inHand \notin A
    BY <1>0, <2>2, <2>3 DEF None
  <2>5. Cardinality(A') = Cardinality(A) + 1
    BY <1>0, <2>4, FS_AddElement
  <2> QED BY <1>0, <2>1, <2>5 DEF CountInv
<1>2. CASE ~Apply
  <2>1. status'.applied = status.applied
    <3>1. ASSUME NEW next, NEW why, ObserveStop(next, why)
          PROVE  status'.applied = status.applied
      BY <1>0, <3>1 DEF ObserveStop, Status
    <3>2. CASE Start \/ Observe \/ Seal
      BY <1>0, <3>1, <3>2 DEF Start, Observe, Seal, Status
    <3>3. CASE Settle \/ Publish
      BY <1>0, <3>3 DEF Settle, Publish, Status
    <3>4. CASE Poll \/ TakeCommand \/ Decide \/ Refuse \/ Work \/ Register \/ CloseUpdates
               \/ CloseQueue \/ Drain \/ DropReceiver \/ Abandon
      BY <3>4 DEF Poll, TakeCommand, Decide, Refuse, Work, Register, CloseUpdates,
         CloseQueue, Drain, DropReceiver, Abandon
    <3>5. CASE CallerStep \/ TargetsWake \/ Ended \/ UNCHANGED vars
      BY <3>5, CallersLeaveDriver
    <3> QED BY <1>2, <3>2, <3>3, <3>4, <3>5 DEF Next, DriverStep
  <2>2. A' = A
    <3>1. CASE DropReceiver
      <4>1. \A u \in Updaters :
              answer'[u] = IF u \in Waiting(queue) THEN "Disconnected" ELSE answer[u]
        BY <3>1 DEF DropReceiver, Waiting
      <4>2. \A u \in Updaters : u \in Waiting(queue) => answer[u] # "Applied"
        BY <1>0 DEF QueueOK, None
      <4> QED BY <4>1, <4>2
    <3>2. CASE ~DropReceiver
      <4>1. \/ answer' = answer
            \/ \E u \in Updaters, result \in Answers :
                 /\ answer[u] = None /\ answer' = [answer EXCEPT ![u] = result]
                 /\ result # "Applied"
        BY <1>2, <3>2, AnswerSteps
      <4> QED BY <1>0, <4>1 DEF None
    <3> QED BY <3>1, <3>2
  <2> HIDE DEF A
  <2>3. CountInv' <=> status'.applied = Cardinality(A')
    BY DEF CountInv, A
  <2> QED BY <1>0, <2>1, <2>2, <2>3
<1> QED BY <1>1, <1>2

LEMMA InitSettleInv == Init => SettleInv
<1> SUFFICES ASSUME Init PROVE SettleInv
  OBVIOUS
<1>1. CountInv
  <2>1. { u \in Updaters : answer[u] = "Applied" } = {}
    BY DEF Init, None
  <2> QED BY <2>1, FS_EmptySet DEF CountInv, Init
<1>2. PhaseInv /\ ReasonInv
  BY DEF Init, PhaseInv, ReasonInv
<1>3. LateInv
  BY EmptyWaiting DEF Init, LateInv, None
<1> QED BY <1>1, <1>2, <1>3, InitQueueInv DEF SettleInv

(* Every command that reached the channel before it was closed has a definite *)
(* answer when the run is sealed, one that reached it before the task was     *)
(* dropped has some answer, and the outcome, the status and the               *)
(* acknowledgements agree (task.rs: seal, drop; task/update.rs:               *)
(* process_commands). An accepted command that reached the channel later is   *)
(* not covered: it may be lost.                                                *)
THEOREM AlwaysSettledInAgreement == Spec => []SettledInAgreement
<1>1. Init => Typed /\ SettleInv
  BY InitTyped, InitSettleInv
<1>2. (Typed /\ SettleInv) /\ [Next]_vars => (Typed /\ SettleInv)'
  BY NextTyped, NextQueueInv, NextPhaseInv, NextLateInv, NextReasonInv, NextCountInv
     DEF SettleInv
<1>3. Typed /\ SettleInv => SettledInAgreement
  <2> SUFFICES ASSUME Typed, SettleInv PROVE SettledInAgreement
    OBVIOUS
  <2>0. driver.inHand # None <=> driver.pc \in Holding
    BY TypedParts
  <2>1. ASSUME NEW u \in Updaters, updater[u] = "accepted", answer[u] = None,
               driver.pc \in {"finished", "gone"}
        PROVE  u \in Waiting(queue)
    BY <2>0, <2>1, ControlAssumption DEF SettleInv, QueueInv, QueueOK, Holding, None
  <2>2. ASSUME NEW u \in Updaters, updater[u] = "accepted"
        PROVE  /\ Sealed /\ u \notin history.late => answer[u] \notin {None, "Disconnected"}
               /\ driver.pc = "gone" /\ u \notin history.lost => answer[u] # None
    BY <2>1, <2>2 DEF Sealed, SettleInv, LateInv
  <2>3. CommandsSettled
    BY <2>2 DEF CommandsSettled
  <2> QED BY <2>3 DEF SettledInAgreement, EndAgrees, SettleInv, ReasonInv, CountInv
<1> QED BY <1>1, <1>2, <1>3, PTL DEF Spec
=============================================================================
