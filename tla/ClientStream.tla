---------------------------- MODULE ClientStream ----------------------------
(***************************************************************************)
(* The streaming client command (irtt-app cmd/client/run.rs): the frontend   *)
(* loop of a fixed or a stdin-controlled run, the thread that reads target   *)
(* sets from stdin, the thread that owns stdout, and the managed worker      *)
(* between them.                                                             *)
(*                                                                         *)
(* A record of stdin is its revision number, and the target it asks for has  *)
(* the same number; a fixed run has its targets from the start. The driver   *)
(* is what the frontend sees of it: commands and their receipts, the status  *)
(* it publishes, the broadcast of its events, and its end. ManagedControl    *)
(* and ManagedTargets have the rest.                                         *)
(***************************************************************************)
EXTENDS Integers, FiniteSets, Sequences, SequencesExt

CONSTANTS MaxRecords,      \* targets, or target sets written to stdin
          MaxLive,         \* max_live_target_generations: twice the largest set
          EventCapacity,   \* MANAGED_EVENT_CAPACITY
          HistoryLimit,    \* STDIN_OUTCOME_HISTORY_LIMIT
          OutputCapacity,  \* chunks the stdout channel holds
          Setups           \* the runs explored, and how much happens in each

Targets == 1 .. MaxRecords

ASSUME StreamAssumption ==
    /\ {MaxRecords, MaxLive, EventCapacity, HistoryLimit, OutputCapacity} \subseteq Nat \ {0}
    /\ Setups \subseteq [mode : {"stdin", "fixed"}, continuous : BOOLEAN,
                         pipe : {"flows", "stuck", "breaks"},
                         targets : Targets, ends : Nat, chunks : Nat]

VARIABLES setup,     \* the kind of run, and what becomes of its stdout
          shutdown,  \* the interrupt watch
          stdin,     \* the watch the reader thread writes: value, unseen, closed
          driver,    \* the managed driver
          recent,    \* its bounded history of target outcomes
          status,    \* the status it published last
          events,    \* the broadcast receiver: its queue, and whether it lagged
          ui,        \* the locals of the frontend
          writer,    \* the stdout thread and its channel
          grace,     \* grace_deadline: "unset", "armed" or "over"
          newest,    \* ghost: the latest revision the frontend has taken
          reported   \* ghost: how often each target's end was reported

vars == <<setup, shutdown, stdin, driver, recent, status, events, ui, writer, grace,
          newest, reported>>

None == 0
OnStdin == setup.mode = "stdin"

-----------------------------------------------------------------------------
(* The driver, as far as the frontend can tell. *)

\* Events are broadcast to a receiver that loses the oldest when it is slow.
Publish(published) ==
    LET all == events.queue \o published
        lost == Len(all) - EventCapacity
    IN events' = IF lost <= 0 THEN [events EXCEPT !.queue = all]
                 ELSE [queue |-> SubSeq(all, lost + 1, Len(all)), lagged |-> TRUE]

ReplaceStatus(targets, final) ==
    status' = [version |-> status.version + 1, targets |-> targets, final |-> final,
               peerClosed |-> driver'.peerClosed]

Drives == driver.phase \in {"running", "stopping"}

NoSnapshot == [version |-> 0, targets |-> {}, final |-> FALSE, peerClosed |-> FALSE]

Event(kind, t) == [kind |-> kind, target |-> t]

Listed(d) == d.live \cup d.over

\* OutcomeHistory::record
RecordOutcome(t, limit) ==
    Append(IF Len(recent) = limit THEN Tail(recent) ELSE recent, t)

\* A history remembers all targets of a fixed run.
OutcomeLimit == IF OnStdin THEN HistoryLimit ELSE setup.targets

\* plan_targets: the generations there would be, without those that are over.
Fits(r) == Cardinality(driver.live \cup {r}) <= MaxLive

\* apply_targets: the other targets are retired, the one asked for is created.
\* Too many live generations, or a stop, and nothing is changed. A record asks for
\* one target, a fresh one.
ApplyUpdate ==
    LET r == driver.command
    IN /\ driver.command # None /\ Drives
       /\ IF driver.phase = "running" /\ Fits(r)
          THEN /\ driver' = [driver EXCEPT !.command = None, !.ack = "Applied",
                               !.desired = {r}, !.live = @ \cup {r}, !.over = {}]
               /\ ReplaceStatus(Listed(driver'), FALSE)
               /\ Publish(<<Event("state", r)>>)
          ELSE /\ driver' = [driver EXCEPT !.command = None,
                    !.ack = IF driver.phase = "running" THEN "LimitExceeded" ELSE "Stopping"]
               /\ UNCHANGED <<status, events>>
       /\ UNCHANGED <<setup, shutdown, stdin, recent, ui, writer, grace, newest, reported>>

\* A live target measures: something to print.
Measures(t) ==
    /\ Drives /\ t \in driver.live /\ driver.chunks < setup.chunks
    /\ driver' = [driver EXCEPT !.chunks = @ + 1]
    /\ Publish(<<Event("client", t)>>)
    /\ UNCHANGED <<setup, shutdown, stdin, recent, status, ui, writer, grace, newest, reported>>

\* Why a desired target may end of itself. Only a fixed run looks at the tallies
\* of OutcomeHistory, and only a bounded one completes its test.
OwnEnds ==
    {"failed"} \cup (IF OnStdin THEN {} ELSE {"peer"})
               \cup (IF OnStdin \/ setup.continuous THEN {} ELSE {"complete"})

\* finish_target: a retired target is over at last, or a desired one ends. All
\* but a failure count as successful.
TargetFinishes(t, why) ==
    /\ Drives /\ t \in driver.live
    /\ driver' = [driver EXCEPT !.live = @ \ {t}, !.over = @ \cup {t},
                    !.peerClosed = @ \/ why = "peer",
                    !.good = @ \/ (~OnStdin /\ why # "failed")]
    /\ recent' = RecordOutcome(t, OutcomeLimit)
    /\ ReplaceStatus(Listed(driver'), FALSE)
    /\ Publish(<<Event("state", t), Event("finished", t)>>)
    /\ UNCHANGED <<setup, shutdown, stdin, ui, writer, grace, newest, reported>>

\* prune_undesired_terminal
Prune ==
    /\ Drives /\ driver.over \ driver.desired # {}
    /\ driver' = [driver EXCEPT !.over = @ \cap driver.desired]
    /\ ReplaceStatus(Listed(driver'), FALSE)
    /\ UNCHANGED <<setup, shutdown, stdin, recent, events, ui, writer, grace, newest, reported>>

ObserveStop ==
    /\ driver.stop /\ driver.phase = "running"
    /\ driver' = [driver EXCEPT !.phase = "stopping", !.desired = {}]
    /\ ReplaceStatus(Listed(driver'), FALSE)
    /\ Publish(<<Event("other", None)>>)
    /\ UNCHANGED <<setup, shutdown, stdin, recent, ui, writer, grace, newest, reported>>

\* seal, once nothing is live: a fixed run finishes of itself when quiescent.
\* The command still queued is refused.
Seal ==
    /\ driver.phase = "stopping" \/ (driver.phase = "running" /\ ~OnStdin)
    /\ driver.live = {}
    /\ driver' = [driver EXCEPT !.phase = "ended", !.command = None,
                    !.ack = IF driver.command = None THEN @ ELSE "Stopping"]
    /\ ReplaceStatus(Listed(driver'), TRUE)
    /\ Publish(<<Event("other", None)>>)
    /\ UNCHANGED <<setup, shutdown, stdin, recent, ui, writer, grace, newest, reported>>

-----------------------------------------------------------------------------
(* The reader thread. *)

\* A record that parses supersedes the one not yet taken; the end of the input,
\* or a record that cannot be read or parsed, is the last thing said. What comes
\* once the run is stopping is read by nobody.
ReadTargetSet(stop) ==
    /\ OnStdin /\ ~stdin.closed
    /\ ui.phase \in {"top", "decide", "select", "sending"} /\ ui.stop = "none"
    /\ IF stop = "none" THEN stdin.revision < setup.targets ELSE TRUE
    /\ stdin' = IF stop = "none"
                THEN [stdin EXCEPT !.revision = @ + 1, !.unseen = TRUE]
                ELSE [stdin EXCEPT !.stop = stop, !.unseen = TRUE, !.closed = TRUE]
    /\ UNCHANGED <<setup, shutdown, driver, recent, status, events, ui, writer, grace,
                   newest, reported>>

Interrupt ==
    /\ ~shutdown /\ shutdown' = TRUE
    /\ UNCHANGED <<setup, stdin, driver, recent, status, events, ui, writer, grace,
                   newest, reported>>

-----------------------------------------------------------------------------
(* The stdout thread. *)

WriterTakes ==
    /\ writer.phase = "idle" /\ writer.queued > 0
    /\ writer' = [writer EXCEPT !.phase = "busy", !.queued = @ - 1]

\* write_all returns. A pipe nobody reads never lets it.
WriterWrites(ok) ==
    /\ writer.phase = "busy" /\ setup.pipe # "stuck"
    /\ ok \/ setup.pipe = "breaks"
    /\ writer' = [writer EXCEPT !.phase = IF ok THEN "idle" ELSE "failed"]

\* The channel is closed and empty; every chunk ended in a newline, so the
\* flush has nothing left to write.
WriterFinishes ==
    /\ writer.phase = "idle" /\ writer.queued = 0 /\ writer.closed
    /\ writer' = [writer EXCEPT !.phase = "done"]

WriterStep ==
    /\ WriterTakes \/ (\E ok \in BOOLEAN : WriterWrites(ok)) \/ WriterFinishes
    /\ UNCHANGED <<setup, shutdown, stdin, driver, recent, status, events, ui, grace,
                   newest, reported>>

Completed == writer.phase \in {"done", "failed"}
HasCapacity == writer.queued < OutputCapacity

GraceExpires ==
    /\ grace = "armed" /\ grace' = "over"
    /\ UNCHANGED <<setup, shutdown, stdin, driver, recent, status, events, ui, writer,
                   newest, reported>>

-----------------------------------------------------------------------------
(* The frontend: what it does to its own state. *)

At(phase) == ui.phase = phase
Goto(u, phase) == [u EXCEPT !.phase = phase]

\* Out of the loop, and its locals are of no more use.
LeaveLoop(u) ==
    [u EXCEPT !.phase = "joining", !.snap = NoSnapshot, !.specs = None,
              !.preparing = None, !.desired = None, !.pending = None, !.retry = None]

\* handle.stop(), which request_managed_stop_once lets through once.
Stopped == [driver EXCEPT !.stop = TRUE]

\* A bug to catch: collectors go with their targets, the summary's too.
ReconcileToLive(u, targets) == [u EXCEPT !.stats = @ \cap targets]

\* reconcile_stdin_stats
Reconcile(u, targets) == [u EXCEPT !.stats = @ \cap (targets \cup u.summary)]

\* snapshot_stdin_summary_targets: what the last summary will be about.
StopFor(u, reason, targets) ==
    [u EXCEPT !.stop = reason, !.preparing = None, !.summary = targets,
              !.stats = @ \cup targets]

StopInterrupted(u) == [u EXCEPT !.stop = "Interrupted", !.summary = u.stats]

\* A new record, and not the one being prepared or waiting, is now wanted.
Consume(u) ==
    IF ~(stdin.unseen \/ stdin.closed) THEN u
    ELSE IF stdin.stop # "none" THEN StopFor(u, stdin.stop, u.snap.targets)
    ELSE [u EXCEPT !.specs = stdin.revision, !.desired = None, !.retry = None]

StartPreparing(u) ==
    IF u.stop # "none" \/ u.preparing # None THEN u
    ELSE [u EXCEPT !.preparing = u.specs, !.specs = None]

\* A bug to catch: a refused set waits for a status it may have seen already.
SubmitsOnlyWhenNew(u) ==
    u.stop = "none" /\ u.pending = None /\ u.desired # None /\ u.retry = None

\* One command at a time, and none twice under the same status.
Submits(u) ==
    /\ u.stop = "none" /\ u.pending = None /\ u.desired # None
    /\ u.retry # u.snap.version

Submit(u) ==
    IF ~Submits(u) THEN u
    ELSE IF driver.phase # "running" THEN StopFor(u, "Fatal", u.snap.targets)
    ELSE [u EXCEPT !.pending = u.desired, !.desired = None, !.retry = u.snap.version]

\* A bug to catch: the place made is the newest one's.
InsertOverNewest(terminal, t) ==
    Append(IF Len(terminal) = OutcomeLimit THEN Front(terminal) ELSE terminal, t)

\* BoundedTargetSet::insert of a target not in it; a fixed run's set has no limit.
Insert(terminal, t) ==
    Append(IF Len(terminal) = OutcomeLimit THEN Tail(terminal) ELSE terminal, t)

IsReported(t) == t \in ToSet(ui.terminal)

-----------------------------------------------------------------------------
(* The frontend's steps: each ends where it awaits or other threads may act. *)

\* run_stream_output returns before the driver is started.
ReturnsEarly(failed) ==
    /\ ui' = [ui EXCEPT !.phase = "returning", !.failed = failed]
    /\ writer' = [writer EXCEPT !.closed = TRUE]
    /\ driver' = [driver EXCEPT !.phase = "ended"]

\* args.prepare against a shutdown, in a select without a preference, a second
\* look at the shutdown, and the worker's start. The collectors of a fixed run
\* are there from the start.
Begin(ok) ==
    /\ At("start")
    /\ \/ shutdown /\ ReturnsEarly(FALSE)
       \/ ~ok /\ ReturnsEarly(TRUE)
       \/ /\ ok /\ ~shutdown
          /\ ui' = Goto(ui, "top")
          /\ driver' = [driver EXCEPT !.phase = "running"]
          /\ UNCHANGED writer
    /\ UNCHANGED <<setup, shutdown, stdin, recent, status, events, grace, newest, reported>>

TakeSnapshot ==
    /\ At("top")
    /\ ui' = [ui EXCEPT !.phase = "decide", !.snap = status]
    /\ UNCHANGED <<setup, shutdown, stdin, driver, recent, status, events, writer, grace, newest, reported>>

\* One iteration of run_stdin_stream, up to its select.
DecideStdin ==
    LET consumed == Consume(ui)
        asked == Submit(StartPreparing(consumed))
        settled == Reconcile(IF ui.stop = "none" THEN asked ELSE ui, ui.snap.targets)
        submitted == asked.pending # ui.pending
    IN /\ At("decide") /\ OnStdin
       /\ IF shutdown
          THEN /\ ui' = LeaveLoop(StopInterrupted(ui))
               /\ driver' = Stopped
               /\ UNCHANGED <<stdin, newest>>
          ELSE /\ ui' = IF ui.snap.final THEN LeaveLoop(settled) ELSE Goto(settled, "select")
               /\ driver' = IF settled.stop # "none" THEN Stopped
                            ELSE IF submitted
                                 THEN [driver EXCEPT !.command = asked.pending, !.ack = "none"]
                                 ELSE driver
               /\ stdin' = [stdin EXCEPT !.unseen = @ /\ ui.stop # "none"]
               /\ newest' = IF consumed.specs # None THEN consumed.specs ELSE newest
       /\ UNCHANGED <<setup, shutdown, recent, status, events, writer, grace, reported>>

StopsForPeerClose == setup.continuous /\ ui.snap.peerClosed

\* The fixed run stops for an interrupt, and for a closed peer if continuous.
DecideFixed ==
    /\ At("decide") /\ ~OnStdin
    /\ ui' = IF shutdown \/ ui.snap.final
             THEN LeaveLoop([ui EXCEPT !.stop = IF shutdown THEN "Interrupted" ELSE @])
             ELSE Goto(ui, "select")
    /\ driver' = IF shutdown \/ StopsForPeerClose THEN Stopped ELSE driver
    /\ UNCHANGED <<setup, shutdown, stdin, recent, status, events, writer, grace, newest, reported>>

\* The arms of the select that only start the next iteration.
WakesUp ==
    /\ At("select")
    /\ \/ shutdown \/ status # ui.snap
       \/ OnStdin /\ ui.stop = "none" /\ (stdin.unseen \/ stdin.closed)
    /\ ui' = Goto(ui, "top")
    /\ UNCHANGED <<setup, shutdown, stdin, driver, recent, status, events, writer, grace, newest, reported>>

\* A bug to catch: the result is used although something newer is there.
UsesAnyResult == TRUE

\* Whether the prepared set is still the latest word from stdin.
UsesResult == ui.specs = None /\ ~stdin.unseen /\ ~stdin.closed

Prepared(ok) ==
    LET done == [ui EXCEPT !.preparing = None, !.phase = "top"]
    IN /\ At("select") /\ ui.preparing # None /\ ui.stop = "none"
       /\ ui' = IF ~UsesResult THEN done
                ELSE IF ok THEN [done EXCEPT !.desired = ui.preparing, !.retry = None]
                ELSE StopFor(done, "Fatal", status.targets)
       /\ driver' = IF UsesResult /\ ~ok THEN Stopped ELSE driver
       /\ UNCHANGED <<setup, shutdown, stdin, recent, status, events, writer, grace, newest, reported>>

\* The receipt of the pending update: a set refused for the limit is kept, to be
\* submitted again, unless there is a newer one.
ReceiptArrives ==
    LET done == [ui EXCEPT !.pending = None, !.phase = "top"]
        newer == ui.desired # None \/ ui.specs # None \/ ui.preparing # None
    IN /\ At("select") /\ ui.pending # None /\ ui.stop = "none" /\ driver.ack # "none"
       /\ ui' = CASE driver.ack = "Applied" -> [done EXCEPT !.retry = None]
                  [] driver.ack = "LimitExceeded" /\ newer -> [done EXCEPT !.retry = None]
                  [] driver.ack = "LimitExceeded" /\ ~newer -> [done EXCEPT !.desired = ui.pending]
                  [] OTHER -> StopFor(done, "Fatal", status.targets)
       /\ driver' = IF driver.ack = "Stopping" THEN Stopped ELSE driver
       /\ UNCHANGED <<setup, shutdown, stdin, recent, status, events, writer, grace, newest, reported>>

\* process_stdin_event reports the end of a target unless it has.
StdinReports(event) == event.kind = "finished" /\ ~IsReported(event.target)

\* process_event reports what it is told.
FixedReports(event) == event.kind = "finished"

\* One event: a client event leaves a chunk to send, and a target that is heard of
\* has its collector.
Handle(event, next, kept) ==
    LET fresh == IF OnStdin THEN StdinReports(event) ELSE FixedReports(event)
        collected == ui.stats \cup (IF event.kind \in {"state", "client"}
                                    THEN {event.target} ELSE {})
    IN /\ ui' = [ui EXCEPT !.phase = IF event.kind = "client" THEN "sending" ELSE next,
                           !.after = next,
                           !.stats = collected \cap kept,
                           !.terminal = IF fresh THEN Insert(@, event.target) ELSE @]
       /\ reported' = IF fresh THEN [reported EXCEPT ![event.target] = @ + 1] ELSE reported

\* events.recv() returns an event, or that some were lost; with the driver gone
\* and the queue empty it returns Closed. An interrupt discards the event.
ReceiveEvent ==
    /\ At("select")
    /\ \/ /\ events.lagged /\ events' = [events EXCEPT !.lagged = FALSE]
          /\ ui' = Goto(ui, "top") /\ UNCHANGED reported
       \/ /\ ~events.lagged /\ events.queue # <<>>
          /\ events' = [events EXCEPT !.queue = Tail(@)]
          /\ IF shutdown THEN ui' = Goto(ui, "top") /\ UNCHANGED reported
             ELSE Handle(Head(events.queue), "top",
                         IF OnStdin THEN status.targets \cup ui.summary ELSE Targets)
       \/ /\ ~events.lagged /\ events.queue = <<>> /\ driver.phase = "ended"
          /\ ui' = LeaveLoop(ui) /\ UNCHANGED <<events, reported>>
    /\ UNCHANGED <<setup, shutdown, stdin, driver, recent, status, writer, grace, newest>>

\* A bug to catch: an interrupted run still waits for room.
WaitsForRoom == HasCapacity

\* StdoutWriter::send need not wait any more.
Sends == HasCapacity \/ shutdown

Enqueue == [writer EXCEPT !.queued = @ + 1]

\* StdoutWriter::send: the chunk is queued, or dropped for the interrupt.
SendChunk ==
    /\ At("sending") /\ Sends
    /\ ui' = Goto(ui, ui.after)
    /\ writer' = IF shutdown THEN writer ELSE Enqueue
    /\ UNCHANGED <<setup, shutdown, stdin, driver, recent, status, events, grace, newest, reported>>

\* ManagedWorker::join
Join ==
    /\ At("joining") /\ driver.phase = "ended"
    /\ ui' = Goto(ui, "draining")
    /\ UNCHANGED <<setup, shutdown, stdin, driver, recent, status, events, writer, grace, newest, reported>>

\* What is still queued is printed, unless interrupted.
DrainEvent ==
    /\ At("draining") /\ ~shutdown
    /\ \/ /\ events.lagged /\ events' = [events EXCEPT !.lagged = FALSE]
          /\ UNCHANGED <<ui, reported>>
       \/ /\ ~events.lagged /\ events.queue # <<>>
          /\ events' = [events EXCEPT !.queue = Tail(@)]
          /\ Handle(Head(events.queue), "draining", Targets)
    /\ UNCHANGED <<setup, shutdown, stdin, driver, recent, status, writer, grace, newest>>

BeginReport ==
    /\ At("draining")
    /\ shutdown \/ (events.queue = <<>> /\ ~events.lagged)
    /\ ui' = [ui EXCEPT !.phase = "report", !.rest = recent]
    /\ UNCHANGED <<setup, shutdown, stdin, driver, recent, status, events, writer, grace, newest, reported>>

\* Outcomes whose event was lost or discarded are reported from the history.
ReportOutcome ==
    LET t == Head(ui.rest)
    IN /\ At("report") /\ ui.rest # <<>>
       /\ ui' = [ui EXCEPT !.rest = Tail(@),
                           !.terminal = IF IsReported(t) THEN @ ELSE Insert(@, t)]
       /\ reported' = IF IsReported(t) THEN reported ELSE [reported EXCEPT ![t] = @ + 1]
       /\ UNCHANGED <<setup, shutdown, stdin, driver, recent, status, events, writer, grace, newest>>

\* The chunks of a stdin run's last summary. After an error there is none, but the
\* headings that tell several targets apart are printed still.
StdinSummaryChunks(u) ==
    IF u.stop = "Fatal" /\ Cardinality(u.summary) = 1 THEN 0 ELSE Cardinality(u.summary)

Excused(u) == shutdown \/ u.stop = "Interrupted"

\* A continuous fixed run that nobody interrupted has no summary.
FixedSummaryChunks(u) ==
    IF setup.continuous /\ ~Excused(u) THEN 0 ELSE Cardinality(u.stats)

\* The error a stdin run ends with is the one that stopped it.
StdinFails(u) == u.stop = "Fatal"

\* A bug to catch: the closed peer counts as a target that completed.
ClosedPeerCompleted(u) == FALSE

\* peer_close_run_error: a run that was to go on for ever lost a peer.
PeerCloseRunError(u) == setup.continuous /\ ~Excused(u) /\ driver.peerClosed

\* That, or no target completed. An interrupt excuses both.
FixedFails(u) ==
    PeerCloseRunError(u) \/ (~Excused(u) /\ recent # <<>> /\ ~driver.good)

\* An interrupt that came after the loop decides what the summary is about.
BeginSummaries ==
    LET u == IF OnStdin /\ shutdown THEN StopInterrupted(ui) ELSE ui
    IN /\ At("report") /\ ui.rest = <<>>
       /\ ui' = [u EXCEPT !.phase = "summaries",
                    !.left = IF OnStdin THEN StdinSummaryChunks(u) ELSE FixedSummaryChunks(u),
                    !.failed = IF OnStdin THEN StdinFails(u) ELSE FixedFails(u)]
       /\ UNCHANGED <<setup, shutdown, stdin, driver, recent, status, events, writer, grace, newest, reported>>

\* The grace period starts once, when an interrupt is first noticed here.
Arm == grace' = IF shutdown /\ grace = "unset" THEN "armed" ELSE grace

\* StdoutWriter::send_summary: the chunk is queued, dropped when the grace period
\* is over, or left waiting with the period running.
SendSummary ==
    /\ At("summaries") /\ ui.left > 0
    /\ \/ /\ HasCapacity
          /\ writer' = Enqueue /\ ui' = [ui EXCEPT !.left = @ - 1]
       \/ /\ ~HasCapacity /\ grace = "over"
          /\ ui' = [ui EXCEPT !.left = @ - 1] /\ UNCHANGED writer
       \/ ~HasCapacity /\ shutdown /\ grace = "unset" /\ UNCHANGED <<ui, writer>>
    /\ Arm
    /\ UNCHANGED <<setup, shutdown, stdin, driver, recent, status, events, newest, reported>>

\* run_stream_output returns, and its sender is dropped.
EndOutput ==
    /\ At("summaries") /\ ui.left = 0
    /\ ui' = Goto(ui, "returning")
    /\ writer' = [writer EXCEPT !.closed = TRUE]
    /\ UNCHANGED <<setup, shutdown, stdin, driver, recent, status, events, grace, newest, reported>>

\* run_stream waits for the writer, but interrupted only for the grace period.
Return ==
    /\ At("returning")
    /\ \/ /\ Completed \/ grace = "over"
          /\ ui' = [ui EXCEPT !.phase = "returned", !.failed = @ \/ writer.phase = "failed"]
       \/ ~Completed /\ shutdown /\ grace = "unset" /\ UNCHANGED ui
    /\ Arm
    /\ UNCHANGED <<setup, shutdown, stdin, driver, recent, status, events, writer, newest, reported>>

\* The writer is gone while the run goes on: the run's future is dropped, and
\* ManagedWorker::drop stops the driver and joins its thread.
WriterStopped ==
    /\ Completed /\ ui.phase \in {"select", "sending", "joining", "summaries"}
    /\ ui' = Goto(LeaveLoop(ui), "dropping") /\ driver' = Stopped
    /\ UNCHANGED <<setup, shutdown, stdin, recent, status, events, writer, grace, newest, reported>>

DropRun ==
    /\ At("dropping") /\ driver.phase = "ended"
    /\ ui' = [ui EXCEPT !.phase = "returned", !.failed = TRUE]
    /\ UNCHANGED <<setup, shutdown, stdin, driver, recent, status, events, writer, grace, newest, reported>>

-----------------------------------------------------------------------------
Init ==
    /\ setup \in Setups
    /\ shutdown = FALSE
    /\ stdin = [revision |-> None, stop |-> "none", unseen |-> FALSE, closed |-> FALSE]
    /\ LET first == IF OnStdin THEN {} ELSE 1 .. setup.targets
       IN /\ driver = [phase |-> "idle", live |-> first, over |-> {}, desired |-> first,
                       command |-> None, ack |-> "none", stop |-> FALSE,
                       peerClosed |-> FALSE, good |-> FALSE, chunks |-> 0]
          /\ status = [version |-> 1, targets |-> first, final |-> FALSE, peerClosed |-> FALSE]
          /\ ui = [phase |-> "start", after |-> "top", snap |-> status, specs |-> None,
                   preparing |-> None, desired |-> None, pending |-> None, retry |-> None,
                   stop |-> "none", stats |-> first, summary |-> {}, terminal |-> <<>>,
                   rest |-> <<>>, left |-> 0, failed |-> FALSE]
    /\ recent = <<>>
    /\ events = [queue |-> <<>>, lagged |-> FALSE]
    /\ writer = [phase |-> "idle", queued |-> 0, closed |-> FALSE]
    /\ grace = "unset"
    /\ newest = None
    /\ reported = [t \in Targets |-> 0]

\* What the driver does sooner or later: it serves commands and a stop, and ends
\* the targets nobody wants.
DriverStep ==
    \/ ApplyUpdate \/ Prune \/ ObserveStop \/ Seal
    \/ \E t \in Targets \ driver.desired : TargetFinishes(t, "stopped")

\* What the world may or may not do.
Environment ==
    \/ \E t \in Targets : Measures(t)
    \/ \E t \in driver.desired \cap (1 .. setup.ends), why \in OwnEnds : TargetFinishes(t, why)
    \/ \E stop \in {"none", "Eof", "Fatal"} : ReadTargetSet(stop)
    \/ Interrupt

UiStep ==
    \/ \E ok \in BOOLEAN : Begin(ok) \/ Prepared(ok)
    \/ TakeSnapshot \/ DecideStdin \/ DecideFixed \/ WakesUp \/ ReceiptArrives
    \/ ReceiveEvent \/ SendChunk \/ Join \/ DrainEvent \/ BeginReport \/ ReportOutcome
    \/ BeginSummaries \/ SendSummary \/ EndOutput \/ Return \/ WriterStopped \/ DropRun

Next == DriverStep \/ Environment \/ WriterStep \/ GraceExpires \/ UiStep

Spec == Init /\ [][Next]_vars

\* The driver and the frontend are polled, a running thread runs (a write that
\* can return does), and the timer fires. Nobody need type, interrupt or fail.
FairSpec ==
    /\ Spec
    /\ WF_vars(DriverStep) /\ WF_vars(UiStep) /\ WF_vars(WriterStep)
    /\ WF_vars(GraceExpires)

-----------------------------------------------------------------------------
(* What must hold. *)

\* The revision submitted is the newest one taken from stdin: a preparation that
\* was overtaken, or a set the driver refused, never comes back over a newer one
\* (run_stdin_stream's desired, retry_after and the check after a preparation).
SubmitsNewest ==
    [][driver'.command \notin {None, driver.command} => driver'.command = newest']_vars

\* Every target the last summary is about has its collector: neither a target
\* pruned after the stop nor a late event breaks the .expect where the summary is
\* printed.
SummaryBacked == OnStdin => ui.summary \subseteq ui.stats

\* The end of a target is never reported twice, though it is learnt of both from
\* its event and from the history, and both the history and the set of those
\* reported are bounded; once the report is over, every outcome in the history
\* was reported, its event lost or not.
ReportedOnce ==
    /\ \A t \in Targets : reported[t] <= 1
    /\ ui.phase = "summaries" => \A t \in ToSet(recent) : reported[t] = 1

\* The latest target set of stdin becomes the driver's, unless the run is being
\* stopped: also when the driver refused it for the live limit and the retry
\* must not be lost between two statuses.
LatestApplied ==
    OnStdin /\ setup.pipe = "flows" =>
        []<>(\/ stdin.revision = None \/ driver.desired = {stdin.revision}
             \/ shutdown \/ stdin.closed \/ ui.stop # "none" \/ ui.phase = "returned")

\* The command returns: after an interrupt whatever becomes of stdout, and while
\* stdout is read also at the end of stdin, and when the peer of a continuous run
\* closes.
RunReturns ==
    []<>(\/ ui.phase = "returned"
         \/ /\ ~shutdown
            /\ \/ setup.pipe # "flows"
               \/ /\ ~stdin.closed
                  /\ ~(~OnStdin /\ setup.continuous /\ driver.peerClosed))

\* A run nobody interrupted that returns Ok wrote everything it had to say, had no
\* error on stdin, and, if its targets were fixed, completed one of them and lost
\* no peer while it was to go on for ever (the end of run_stream_output and of
\* run_stdin_stream, and run_stream).
SuccessTrue ==
    ui.phase = "returned" /\ ~ui.failed /\ ~shutdown =>
        /\ writer.phase = "done" /\ ui.stop # "Fatal"
        /\ OnStdin \/ (driver.good /\ ~(setup.continuous /\ driver.peerClosed))

\* What the command says at its end is complete, true and said once: the summaries
\* of the targets there were, the outcome of each, and whether the run succeeded
\* (run_stdin_stream, run_stream_output).
EndToldOnce == SummaryBacked /\ ReportedOnce /\ SuccessTrue
===============================================================================
