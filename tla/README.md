# A TLA+ model of irtt-rs

irtt-rs measures round-trip time, loss and jitter: a client sends numbered
probes over UDP, a server echoes them, and the client turns replies, timeouts
and kernel timestamps into a stream of events. This directory models the parts
of it that keep state or negotiate, model-checks them with TLC and proves the
central invariants with TLAPS. Paths below are relative to `src/crates/`.

## Inventory

| Component | Where | State | Operations |
|---|---|---|---|
| Client session machine | `irtt-client/src/session/machine.rs`, `probe.rs` | phase, next and highest sequence number, pending list, timed-out list, completed set, kernel-timestamp correlation | open acceptance, prepare / preflight / commit a probe, process a reply, poll timeouts, record a kernel stamp, close |
| Async client | `async_client.rs` | the machine, socket, open transaction, retained prepared probe | `poll_open`, `cancel_open`, `poll_send_probe`, `poll_recv`, `poll_close` |
| Blocking client | `client.rs` | the machine, socket with its read timeout | `open`, `send_probe`, `recv_once`, `close` |
| Client negotiation | `session/negotiation.rs`, `config.rs` | none (pure) | strict and loose acceptance of negotiated parameters |
| Socket plumbing | `receive*.rs`, `socket*.rs`, `send.rs` | sockets | datagrams, ancillary data, the error queue |
| Managed driver | `managed/task.rs`, `task/control.rs`, `task/update.rs`, `blocking.rs`, `model.rs` | run phase, stop signal, bounded command queue, target list | start, poll, stop, `update_targets`, seal, drop |
| Managed targets | `managed/task/target.rs`, `task/timeouts.rs` | per-target phase, backoff, drain deadline, timeout backlog | connect, open, retry, drain, close, retire, timeout passes |
| Pacing and schedule | `managed/task/pacing.rs`, `schedule.rs` | cadence, stagger gate, cursor, timer | next slot, skip missed slots, gate, sleep |
| Server core | `irtt-server/src/core.rs`, `token.rs` | session table | open, no-test open, echo, close, sweep |
| Server session state | `session.rs` | reply allowance, received window, lifetime | charge, accept, refresh |
| Server negotiation | `negotiate.rs`, `fill.rs`, `config.rs` | none (pure) | restrict a request to what the server offers |
| Server runtime | `runtime.rs`, `socket_io*.rs`, `socket_options.rs` | socket, current traffic class | receive-process-send loop, maintenance timer, shutdown |
| Server set | `set.rs` | listeners | bind all, run all, stop all on the first failure |
| Statistics | `irtt-stats/src/` | counters, inter-packet pairs, rolling windows | ingest an event, snapshot |
| Wire codec | `irtt-proto/src/` | none (pure) | encode and decode |
| Streaming client command | `irtt-app/src/cmd/client/run.rs`, `shared/client/worker.rs`, `session.rs`, `prepare.rs` | frontend loop, stdin and stdout threads, reported ends | submit target sets, print, interrupt, grace period, summary, exit status |
| Server command | `irtt-app/src/cmd/server/run.rs` | none of its own | default binds, fallback, signal |
| Command line, TUI | the rest of `irtt-app/src/` | presentation | arguments, output, drawing |

Components interact by calls and datagrams. The async or blocking client owns
one machine and one socket; the managed driver owns many async clients and is
polled as one future while handles in other threads stop it and update its
targets; the streaming command owns a managed driver, a thread that reads stdin
and a thread that owns stdout; the server runtime owns one core and calls it
once per datagram and once per maintenance tick; a server set owns several
runtimes. Nothing is persisted, so there is no crash recovery.

What is hard: replies lost, duplicated, delayed and reordered, against sequence
numbers that wrap and stores that evict; timeouts racing late replies; kernel
timestamps that arrive by another counter and another queue; a prepared probe
that survives pending polls; socket options changed for one attempt and
restored on every way out of it; lazily expired server sessions; whole-interval
rate accounting with carried remainders; retried opens that orphan server
sessions; two implementations of negotiation that must agree; in the managed
driver, stop and update requests racing the poll loop; and in the command, an
interrupt racing ends, receipts, a full stdout and the next line of stdin.
`PROJECT.json` lists these as hazards, each with the properties that would
catch it.

## Modules and the code they model

**`ProbeSession`** — one client session. `pending` and `timedOut` are the
intrusive lists of `probe.rs` as sequences in list order, `completed` the FIFO
of answered numbers. `SendProbe` is `poll_send_probe` from preflight to commit:
`PreflightInsert`, the socket send, `FinalizeProbeCommit` (kernel numbering and
stamp correlation), and `CommitProbeSent` with `CommitInsert` (recycling of the
number's previous use, insertion). `SendFails` is its error path, which ends
kernel-timestamp correlation. `PrepareProbe` is its first half, whose result is
retained when the socket is not ready; the blocking `send_probe` is the same
send without a retained probe. `Receive` is `poll_recv` with
`process_echo_reply`, split as the code splits it into replies to pending,
completed, timed-out and untracked numbers. `PollTimeouts` is
`poll_timeouts_bounded_at`. Each of these drains any set of kernel stamps first,
where the code does. The network is the choice of `Receive`: any probe still
within `ReplyAge`, any number of times. Payloads, timestamps and DSCP are left
out here and are in `SessionExchange`.

**`ProbeVerdicts`** — what the event stream promises about a probe: at most one
answer, at most one loss, no loss after an answer. `irtt-stats` adds events up
without remembering probes and relies on this. `ProbeSession` refines it.

**`OpenPeer`, `AsyncOpen`, `BlockingOpen`, `OpenExchange`** — opening, using and
closing a session with either adapter. `OpenPeer` has what they share: the
machine's lifecycle, the socket's traffic class and read timeout, and a peer
that creates sessions, answers, answers again and closes, behind a network in
which what was sent may be read any number of times, at any time, or never.
`AsyncOpen` is `poll_open` with its attempt deadlines and retries, the cleanup
close of a session opened too late or under unacceptable terms, `cancel_open`
(also by dropping the future between any two polls) and `poll_close`.
`BlockingOpen` is `open`, `recv_once` and `close`, where each attempt sets the
socket's read timeout, every interrupted or stray read rearms what is left of
it, and every way out restores it. Socket calls fail out of a shared budget of
faults, and the socket may be flooded with strays for ever. `OpenExchange` is
the two with the peer.

**`Wire`, `Negotiation`, `EchoTiming`, `SessionExchange`** — one session from
the request to the first measurement. `Wire` is the codec: variable-length
integers with narrow limbs (3 bits of a 7-bit integer instead of 7 of 64, so
that overflow is reached), the tagged parameters with presence, zero as default
and last-value-wins, packet layouts in words of four bytes, sealing with a
symbolic code over flags and body, and the two forms of a midpoint echo.
A decoder gives an option: a set of at most one. `Negotiation` is both sides'
judgement: `validate_request` and the parameters sent, the server's
restrictions and fill, the two admissibility tests, and the client's verdict.
`EchoTiming` is the timestamps: the server's order-keeping, the preferred kernel
times, and the client's round-trip and one-way delays. `SessionExchange` runs
them in order, each message encoded and decoded. The other end may be foreign:
a client whose open carries any tags and values in any order, or upstream irtt
0.9.1, which sends both midpoints when one clock was negotiated. In one case,
which the comment at `irtt-proto/src/echo.rs:222` describes, no length tells the two forms
apart: `Ambiguous` names it, and the properties exempt exactly it. Saturation of
64-bit time differences is left out.

**`Statistics`** — `StatsCollector::process`: the counters, the loss totals from
the server's wrapping receive count, the tracker that pairs the replies of
adjacent probes, and the rolling windows by count and by time, whose snapshots
replay what they retain. The events are those the session machine can emit: the
first reply of a probe is late after its loss, or when a newer probe was
answered before it (`machine.rs:711`), so that a late reply need not have been
a loss; a reply that finds no entry, its own evicted, is an untracked late one.
Each event carries two ghosts, its position and the unwrapped receive count,
against which the properties compare. Means and variances, which are floating
point, are left out.

**`ServerSession`** — the server's per-session state as operators: negotiated
interval, reply allowance (`RateState`), received window (`ReceiveState`) and
lifetime.

**`ServerCore`** — `ServerCore::process` and `maintain`. One action per kind of
datagram, each beginning with the sweep of expired sessions as the code does;
`encodes` is the choice whether the reply encodes, and an echo whose reply does
not encode commits nothing. Token draws are nondeterministic, with a bounded
number of redraws.

**`ServerPromise`** — the same server without tables: a session is gone the
instant its idle deadline passes, replies come out of a fluid token bucket, and
the first reply owed after the end of the test carries Close and is the last.
`ServerCore` refines it (`KeepsPromise`); the sweep and the whole-interval
arithmetic are what the refinement is about.

**`ReceiveWindow`** — the received window alone, against a history of the true
positions of the requests, with loss, duplication, reordering and a wrap.

**`ServerHost`** — the process around the core: the command's default binds and
its fallback to the family that exists, the set that binds all or none, runs
its listeners and drains them, and each listener's loop (receive, drop what it
cannot identify, ask the core, set the mark and source of the reply, send or
wait until the socket is writable, with shutdown between). The core is reduced
to fail, stay silent or reply under some class; the maintenance branch of the
loop touches only the core and is `ServerCore`'s `Maintain`. The host's sockets
are external: which binds collide, which options it refuses, whether it is
Linux. On Linux a mapped bind marks with the IPv4 option; elsewhere it keeps the
IPv6 option, which marks nothing it sends (`socket_options.rs:26`).
`RepliesAsPromised` names the two losses of a class there are, that one and an
IPv4 peer of a dual-stack socket (`Ipv4Unmarked`).

**`ManagedControl`** — the managed driver's control plane. Stop calls, update
calls and the driver are separate actors, and an action is one access to what
they share: the admission and stop atomics, the command channel, the stop watch,
the status watch. `driver.pc` follows `ManagedClientTask::poll`, `seal` and
`drop` in source order. The targets are one flag (`busy`: some target is not
terminal) that `Work` may clear. Two abstractions deserve a word:

- Tokio's bounded channel is external. `try_send` takes a permit, then writes;
  `Receiver::close` stops new permits while those already taken still deliver.
  The model therefore has `UpdateReserve` and `UpdateDeliver`. A send caught
  between permit and write may land after the drain: its receipt then resolves
  as disconnected when the task is dropped, or, landing later still, with the
  channel itself. That contradicts the comment in `seal` and is the finding
  below (`AcceptedReceiptsSettled`). `history.late` and `history.lost` record
  exactly these sends; `SettledInAgreement` and `CommandsAnswered` claim only
  what was delivered to the open channel.
- Every atomic is sequentially consistent; the code uses acquire and release.

**`ManagedTargets`** — what the control plane drives. `targets` is the list of
`TargetRuntime`s; `PollTarget`, `PollTargetTimeout` and `PollOneSend` give, for a
target, the set of targets that a visit, a timeout or a send may leave, one
operator per phase and per helper of `target.rs` (`FinishTarget`, `BeginDrain`,
`BeginClose`, ...). What a connection attempt, an open, a receive, a send or a
close returns is a choice, and so is whether an `Instant` addition overflows. A
poll is the sequence of `task.rs`: commands (`ApplyTargets`), the timeout scan
and its backlog, the target pass, pruning, sends, and `Settle`; `poll` says how
far it is and what budget is left. A deadline is the number of ticks until it; a
poll takes no time and `Tick` happens between polls. The schedule decides when a
target sends, is blocked or has finished, and is a choice here. `run` is
"Finishing" when an update withdrew the last target of a run that finishes by
itself and no stop has been observed.

**`Pacing`** — the schedule that `ManagedTargets` leaves open: each target's
cadence and end (`schedule.rs`), burst and staggered sending with the gate, the
visiting order and its work budget (`task/pacing.rs`), and the instant the
driver sleeps to. The driver may wake late, a send may take time, and a socket
may be full. A target that waits for its socket contributes no send deadline:
its waker is what brings the driver back.

**`ClientStream`** — the streaming command. The frontend loop (`run.rs`) of a
fixed and of a stdin-controlled run takes one ready branch at a time: an event
or status of the managed worker, a receipt, a record of stdin, an interrupt, the
end of the grace period. The stdin thread reads records and may meet the end or
an error; the stdout thread owns a bounded channel and may flow, break or be
stuck. The driver is what the frontend sees of it. Printed text is one chunk per
report; the exit status is part of the state.

Each `MC*` module instantiates its component for TLC, and each `*Proofs` module
holds the theorems about it.

Three behaviours met while modelling, which no comment or test of the repository
contradicts:

- a stdin-controlled run that ends on a fatal stop with two or more targets
  prints their headings without a summary under them;
- an input error followed by an interrupt, before the run has ended, returns
  success: the interrupt is the reason that counts;
- under staggering, a target that waits for its socket is left out of the send
  deadline, so that its slot passes without a wake-up of its own.

## Runs

| Run | Question | Bounds |
|---|---|---|
| `probe_session` | Do the stores stay apart and the deadline queries exact, does a reply or stamp always meet its own probe across a wrap, is a reply late exactly when overtaken, does the event stream refine `ProbeVerdicts`, does every probe get a verdict? | 4 numbers, 5 sends (every number that matters is reused), 3 pending (a reply can unlink the middle of the list), 1 failed send, time 2, 181k states |
| `server_sessions` | Does every datagram get the promised reply, are silent sessions reclaimed? | 2 endpoints, 2 tokens, 2 sessions, idle timeout 2, time 5: token reuse after expiry and theft by the other endpoint occur, 76k states |
| `server_rate` | Is the allowance a fluid bucket, is a paced client never limited? Does the window report only, and until a reset all, recent receipts? | burst 2, minimum interval 5 above the idle cap 2, duration 4 + 1 grace, time 18: the bucket empties, refills and the test ends; 8 numbers, window and displacement 4, 12 positions: a wrap and every displacement occur. `MCServerRate` explores the window beside an idle table and the table beside an empty window, since they share nothing, 755k states |
| `managed_control` | Is a command delivered to the open channel ever left unanswered, an update admitted after a stop, an outcome at odds with the status, a wake-up missed? | 1 stop, 2 updates on a channel of capacity 1 with a budget of 1: the channel fills and the budget runs out |
| `managed_seal` | Is every accepted command answered by the driver, as `seal` says? Violated: see Finding | 1 stop, 1 update |
| `managed_targets` | Do updates, retirement and reconnection leave exactly the desired set, one true outcome per generation and all sends counted; does a drain wait for every probe, is every due timeout reached, does a stopping run end? | 1 id with 2 interchangeable configurations, 2 generations (an old one closes beside its replacement), 1 send each, with and without reconnection, backoff 1 to 2, timeout budget 1 below the number of targets, 2 receives past a drain deadline, 1.36M states |
| `open_exchange` | Are socket settings always restored, is a session whose token was learnt held or closed, does every call return? | 2 attempts of 1 tick, 2 calls of open, 2 sessions, 2 failing socket calls, receives of 2 ticks, 470k states |
| `session_exchange` | Do the two negotiations come to the same terms, can every reply be read, does a measured delay contradict the order of events? | 3-bit limbs of 7-bit integers, packets to 45 words, fill descriptors to 5 letters; each group of parameters (times, layout, fill, clocks, foreign opens of up to 3 tags, then nothing or one of 5 malformed ends) is varied while the others keep a default, 673k states |
| `statistics` | Do totals, pairs and windows equal what the events say? | 3 probes whose numbers wrap (6, 7, 0 of 8), 6 events in any order, server counts that wrap at 6, pairs remembered for 2 numbers, windows of 3 events and of 1 tick, 1.1M states |
| `server_host` | Does a reply ever leave under a wrong mark, does the set start whole and end together? | 7 lists of binds (a same-port pair in both orders, explicit, mapped, colliding) on 4 hosts (Linux and not, with and without IPv6, dual-stack sockets and destination reporting), one traffic class, 68k states |
| `pacing` | Do sends stay on their grid and apart, is the driver ever asleep past what is due? | intervals 4 and 5, one target of duration 9, work budgets 1 and 2, latency 1, sends of up to 1 tick, 1 full socket, time 10: slots of both targets cross and the finite one ends, 4.8M states |
| `client_stream` | Is the newest target set applied, every end reported once, the exit status true, does the command return? | 3 records, 2 live targets, event queue 2, history 2, stdout queue 1; 7 setups of fixed and stdin runs on a stdout that flows, breaks or is stuck, 1.14M states |

Each property has a mutant in `PROJECT.json`: a plausible bug in one definition
under which TLC finds the property violated; a property made of several parts
has one per part. The alternatives are defined next to what they replace.
Deadlock is not checked in `probe_session`, `open_exchange`, `session_exchange`,
`statistics`, `server_host`, `pacing` and `client_stream`, where the session or
the command ends, or the bound does; elsewhere it is.

What the properties do not claim. `NeverOversleeps` exempts a target that waits
for its socket. `SetStandsTogether` says that a set reports a failure some
listener had, not that it is the first. `NoSessionForgotten` takes a cancelled
open for given up, whether or not its close was sent. `CallsReturn` is about a
configured `recv_timeout`; the default, none, blocks until a datagram comes
(`client.rs:114`). `RunReturns` is about an interrupt, the end of stdin and a peer
that closes; that a finite fixed run returns, or one whose pipe broke, is not
claimed. `StoresApart` and
`ListsAccount` do not depend on which retained entry an eviction takes.

Fairness. `ProbeSession`: time passes and timeouts are polled (the driver
registers the next deadline and polls again). `ServerCore`: time passes and
`maintain` runs (the runtime's one-second interval, `runtime.rs:27`; that traffic
does not starve that branch is the fairness of Tokio's unbiased `select!`, which
is assumed and not shown).
`OpenExchange`: a call that was made is driven on and time passes; nothing is
asked of the peer or the network. `ServerHost`: binding goes on, and a listener's
loop polls a ready shutdown, which its `select!` guarantees; not that a datagram arrives or a socket becomes writable.
`ManagedControl`: a woken task is polled and a poll finishes; calls that have
begun finish; a live target wakes the driver; and, strongly, a stopping run
eventually finds its targets terminal. The last stands for the drain and close
deadlines of `target.rs`; `ManagedTargets` shows it as `StoppingEnds`, assuming
only that the driver is polled and that time passes. `ClientStream`: the driver
and the frontend are polled, a preparation (name resolution) ends, the stdout
thread runs, and the grace timer fires;
nobody need type, interrupt, read stdout or fail. Nothing is assumed about
replies, callers starting calls, or targets finishing in a run that is not
stopping.

## Proofs

All are safety properties of `Spec` or step simulations, for every value of the
constants that satisfies the named assumptions: any number of probes, callers,
targets, listeners, endpoints and sessions, any interval, timeout and budget.

- `ProbeSessionProofs` (`ConstantsAssumption`). Five invariants, each resting on
  the ones before.
  `StoreInv` is `TypeOK`, `StoresApart` and `PreparedIsNext` together. None is
  inductive alone: that a number enters `pending` once needs the preflight to
  have compared it with the number prepared, and moving an entry to `timedOut`
  needs `pending` to hold it once.
  `OriginInv` says what a number refers to: every entry is the newest use of its
  number (fewer than `SeqSpace` sends ago) and, while kernel numbering is
  trusted, its submission is its own. It gives `AnswersBelong`; without the
  distance to the latest send, a late reply could meet a later use of its number.
  `OrderInv`: both lists are sorted by deadline and whatever timed out was due
  before whatever is pending, so that reading the ends is exact
  (`DeadlinesAtEnds`). `VerdictInv`: a probe is pending exactly while it has no
  verdict, and what timed out has had its loss and nothing else. With
  `OrderInv` this gives `ListsAccount`, and `VerdictsRefine`: every step is one
  step of `ProbeVerdicts` or a stutter. `HighestInv` ties the highest number
  received to the newest probe answered, which makes `LateIffOvertaken` a matter
  of comparing two numbers less than half a cycle apart.
- `ServerCoreProofs` (`SessionAssumption`, `CoreAssumption`). `CoreInv` (clock,
  typed table, finite and bounded table) gives `TypeOK` and `TableBounded`.
  `PacedNeverLimited` needs `PaceInv`: the refill instant is not after the last
  activity, the refill interval is not above the one granted, and a session
  never charged has its whole burst; one interval since the last activity then
  always buys a reply.
  `ServerKeepsPromise` is the simulation of `ServerPromise`. Under the mapping a
  session is what its owner may count on: the level of a fluid bucket, the time
  left before it is idle, its age. Two lemmas carry it. Refilling in whole
  replies and carrying the remainder leaves the fluid level unchanged
  (`ReplenishLevel`), and a reply is charged exactly if the fluid bucket holds
  one, and takes exactly one out of it (`ChargeLevel`). A sweep removes only what
  the mapping no longer shows (`SweptLive`), so when sweeps happen is invisible;
  the remaining lemmas match the steps one by one.
  Its last part is about `ReceiveWindow` (`WindowAssumption`, no displacement
  beyond a cycle less the window). `WindowInv` is the type and both window properties. The key
  lemma, `WireDistance`, says that the distance of two positions less than a
  cycle apart is recovered from their wire numbers.
- `ManagedControlProofs` (`ControlAssumption`). Types, with the channel's
  capacity by counting permits (`NextPermits`); that admission is only ever
  written by `begin_stopping` and `close_updates` (`AdmissionStep`), from which
  `AdmissionNeverReopens` follows; and `StopInv`, which strengthens
  `StopThenRefused` with "a stop call past its first write has ended admission".
  `SettledInAgreement` needs `SettleInv`: a command is waiting or in hand exactly
  from its delivery to its answer (`QueueInv`), what waits after the final drain
  came late (`LateInv`), the end reason follows the stop observed (`ReasonInv`),
  and the status counts the answers given (`CountInv`). What is delivered after
  the close is outside the claim.
- `OpenExchangeProofs` (`OpenAssumption`). `OpenInv` adds to the properties what
  each adapter relies on: no transaction runs while a session is held; the
  blocking adapter keeps no close packet over a return; the async one never has
  a class on the socket of an open that failed; the kernel's wait and the time
  already waited never exceed the user's timeout together. It gives
  `SocketContract` and `NoSessionForgotten`.
- `ServerHostProofs` (`HostAssumption`). `HostInv`: a socket carries a class only
  in the option its listener marks with, on that host, and `socket_is_marked` says whether it does, a
  reply in hand waits under its own class (`MarkInv`); listeners are a prefix of
  the list, each with the option the whole list calls for (`BoundInv`); only the
  implicit pair is ever shortened (`RequestInv`); a failure is kept exactly if
  some joined listener did not end cleanly (`JoinInv`). It gives
  `RepliesAsPromised` and all three parts of `SetStandsTogether`.
- `PacingProofs` (`PacingAssumption`). `PaceInv`: the next slot lies on the
  target's grid after every slot taken (`GridInv`); the gate lies after the last
  send and a spacing after the one before, or that time has passed (`GateInv`);
  a sleeping driver that was not woken has its timer at the least deadline, and
  a target with nothing left to do is noticed in a poll that was asked for
  (`SleepInv`). It gives `SendsPaced` and `NeverOversleeps`. Advancing over missed
  slots is a fact about division (`DivFacts`); the least deadline exists because
  the naturals are well founded (`NatMinimum`).
- `ManagedTargetsProofs` (`TargetsAssumption`). `TargetsInv` has four parts.
  `TableInv`: every target is `Sound`, and no two are the same generation. A
  target is sound if it has an end and a deadline in the phases that need them,
  if what it counted is what it sent (`CountSound`: until it ends, the sum of its
  earlier sessions and this one, which is what makes the count of the outcome
  right although each session counts from zero), if its probes are in the order
  of their deadlines, and if a drain ends no earlier than `final_drain` after it
  started and after each probe's deadline (`DrainSound`).
  `WantedInv`: desired targets have an id each and are those the last update asked
  for. `OutcomeInv`: one outcome for each generation that is not live any more,
  none for the others. `CursorInv`: cursors, budgets and the visits left in a
  poll stay within the table.
  Each operation on a target is shown to make of it a sound later state of the
  same generation (`Goes`: `PollTargetGoes`, `PollTargetTimeoutGoes`,
  `PollOneSendGoes`, `AgedGoes`); installing it, ageing the table, pruning it and
  applying an update keep the table (`InstallKeeps`, `TickKeeps`, `PruneKeeps`,
  `JoinedTable`, `UpdateOutcomes`). A generation withdrawn by an update gets an
  outcome exactly if it had not ended before, and the targets that stay together
  with those created are again exactly those asked for. This gives `TableSound`,
  `OutcomesTrue` and, through `FollowsAll` (every target after a step is new or
  follows from the target of its generation before), `RetirementOrderly`. The
  oldest probe that is not lost tells whether any is due because deadlines are
  ordered (`NoneDue`), without which a drain could close over a probe still
  waiting.
- `ClientStreamProofs` (`StreamAssumption`). `StreamInv` has three arguments.
  `FlowInv` and `TouchInv`: what lies between stdin and the driver is ordered by
  revision, the newest of it is the record taken last, and no target the driver
  ever had is newer than what is still to come to it. A result dropped for a
  newer record leaves nothing wanted until that record is taken, which only the
  two phases before the next decision may see. This gives `SubmitsNewest`, and
  that no target is begun twice. `OnceInv`: ends are learnt of in the order of
  the driver's history, first those reported, then those queued
  (`ReportedFirst`), so the bounded set of those reported forgets one only after
  the history has (`Remembered`, `DropsOldest`), and going through the history
  repeats none. `EndInv`: the driver has ended before anything is drained, a
  fixed run whose driver ended has an outcome, and the grace period runs only
  after an interrupt. With `SummaryBacked` they give `EndToldOnce`.

The type invariants, `PreparedIsNext`, `TableBounded` and
`AdmissionNeverReopens` are proved and are in no run.

Only model-checked, and why:

- the liveness properties (`ProbesResolved`, `IdleReclaimed`,
  `CommandsAnswered`, `StopEnds`, `StoppingEnds`, `TimeoutsServed`,
  `CallsReturn`, `ServiceEnds`, `LatestApplied`,
  `RunReturns`), which are beyond this prover;
- the invariants of `SessionExchange`: a message is encoded by flattening its
  fields and decoded by folding over its entries, and what those compute for
  every message needs induction over data;
- the invariants of `Statistics`: `TotalsTrue` compares the tracker's pairs with
  the history filtered by `SelectSeq`, `RollingTrue` a window with the replay of
  its events by a fold, both again inductions over data.

## Finding

`seal` (`managed/task.rs:419`) says that "closing admission before closing and
draining the receiver makes every accepted command task-owned", and the test
`concurrent_submission_and_stop_or_seal_never_lose_an_accepted_receipt`
(`tests/managed_control.rs:154`) expects a receipt accepted while the run stops
to resolve to `Stopping`. The run `managed_seal` violates
`AcceptedReceiptsSettled`, the same statement: `update_targets` reads that
updates are open and `try_send` takes its permit; the driver observes the stop,
ends admission, closes the channel, finds it empty and is sealed; then the send
writes and `update_targets` returns `Ok`. Nobody answers the receipt, which
resolves to `Disconnected` once the task is dropped. It rests on Tokio's channel
letting a permit outlive `Receiver::close`, and the window is a few instructions
wide, which is why the test hardly meets it.

## Not modelled

The terminal interface, output formatting and the parsing of arguments and
target lists, which are sequential text handling with unit tests of their own;
the bytes of control messages and socket creation; means and variances in
floating point; failures of the managed driver other than a missing runtime;
the initial targets of a stdin-controlled run. Completion by explicit stop is a
policy of `ManagedControl` and is not explored in the `managed_targets` run.

Within what is modelled: `Pacing` has no poll in which a target opens while
another opens or leaves, visits all targets in one pass whatever the budget, and
lets a target leave only by finishing or failing; updates and retirement are
`ManagedTargets`'. In the `managed_targets` run a generation sends once, so the
timeout scan never leaves a backlog within one target. `BlockingOpen` receives
only under a configured timeout. In `Wire` a character has one byte. In
`ClientStream` every record of stdin asks for one fresh target; empty,
overlapping and repeated sets are `ManagedTargets`'.

## Plan

The components that keep state are modelled, and nine of them proved about.
What would tell most next:

1. `VariationAddsUp`, the part of `TotalsTrue` that is about single pairs and
   needs no filtered history.
2. The first half of `TimingCausal`, about the stamps of a reply as the server
   meant them, the one property of `SessionExchange` that is about instants and
   not about encodings.
