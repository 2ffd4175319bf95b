# A TLA+ model of the assistant daemon's conversation core

The repository is a personal assistant: a daemon (`assistant/`) that keeps
conversations, runs an LLM agent loop for each turn, works off background jobs
and talks to clients over HTTP; a gateway process, a CLI, clients and a
credential process stand around it. The daemon is one JavaScript thread with
many promise chains, beside worker processes that share its SQLite databases.
Its hard bugs are therefore of two kinds: state read before an `await` and used
after it, and two processes writing to one row. This directory models the parts
where that decides whether a message is answered, a turn runs alone, or a
background job is done.

## Inventory

| Component | State | Operations | What is hard | What makes it correct |
|---|---|---|---|---|
| Processing claim (`daemon/conversation.ts`) | `_processing`, claim number, `processing_started_at` column, idle waiters, abort controller | `acquireProcessing`, the marker fence, `releaseProcessing`, `setProcessing`, `waitForIdle`, `abortConversation`, the monitor's sweep | column writes that lose to SQLITE_BUSY and are retried detached, holders that outlive their claim, Stop, restart | one loop at a time; a working turn's marker is in the column; a held flag has a holder; no waiter misses a release |
| Message queue and drain (`daemon/conversation-process.ts`, `conversation-queue-manager.ts`) | queue and byte count, repair flags, per-chain batch and turn, finalization barrier | send route, `enqueueMessage`, `drainQueue`, batch persist, requeue/restore/retry, Stop, steer, delete, teardown | several drains and sends interleave; messages are popped before the step that may throw | an accepted message is never lost, duplicated, reordered, or stranded behind an idle conversation; clients' rows match |
| Memory job queue (`persistence/jobs-store.ts`, `plugins/defaults/memory/`) | `memory_jobs` rows, PID file, worker processes | coalescing enqueue, claim by lane, complete/fail/defer/reschedule, stall watchdog, start-up reset, PID guard, signals | crashes mid-job, overlapping workers, late returns | a job ends; a claim is exclusive; a terminal row stays; a page's last write is embedded |
| Qdrant circuit breaker (`persistence/embeddings/qdrant-circuit-breaker.ts`) | state, failure count, cooldown, probe flag | admit, record success, record failure | results recorded in a later state than the call was admitted in | a half-open circuit has its probe; it never refuses for good |
| Interrupting send (`daemon/conversation-interrupt.ts`, send route) | abort and handover of one turn to the next | abort, wait for idle and for finalization, durable repair, claim or queue | two deadlines, a competing claim, a repair that fails, a full queue | the message starts or is queued, once; what was queued keeps its place |
| Event stream (`runtime/assistant-stream-state.ts`, `daemon/conversation-agent-loop-handlers.ts`) | sequence counter with a reservation file, replay ring, anchor `conversations.seq`, partial message rows | stamp, reserve, replay, flush, finalize, hand off, start up | a crash inside a reserved block, content written after the event went out, failing writes of file, column and rows | covered numbers never repeat; the anchor claims only what the rows hold; a served replay has no hole |
| Scheduler (`schedule/`) | `cron_jobs` and `cron_runs` rows, worker processes, drain lease | claim due, run in five modes, retry with backoff, defer, run now, edit, recover | the worker is another process than the one that edits and recovers; overlapping and orphaned workers; two-write retries | a firing is claimed once; an ended one-shot stays ended; a one-shot ends |
| Inbound delivery (`persistence/delivery-*.ts`, `runtime/channel-retry-sweep.ts`, `runtime/routes/inbound-*`) | `channel_inbound_events` rows, admission line, sweep | record, admit, run, bookkeep, post, retry, dead-letter, replay, recover | repeated platform events, lost answers, a crash between any two writes, a sweep beside live dispatches | a reply is posted once, a message marked delivered was answered, every row settles |
| Pending interactions, host proxies | open requests, timers | ask, answer, time out, abort | the answer races the timeout | each request resolves once |
| Approval grants, billing breaker, heartbeat, watchers, telemetry outbox, workflows, subagents, calls, agent loop, providers, gateway, CLI, clients, tools | see `PROJECT.json` | | | |

How they meet: the send route, the drain, wakes and the retry and summarize
routes all take the processing flag. Whoever holds it decides whether a send
starts a turn or is queued; the release and the `finally` of a turn kick the
drain; Stop, steer and the interrupting send signal the controller of the
holder. Turns enqueue memory jobs; the embed lane of the job worker goes through
the breakers. A turn's events are stamped and buffered by the stream state while
its rows are written behind them. Schedules, wakes and channel messages start
turns of their own; a channel message that finds the flag taken waits in the
admission line or is left to the sweep.

## Modules

`ProcessingClaim` - the flag of one Conversation. An action is the code between
two awaits. `pc[p]` is where a holder stands: `fencing` is the await of
`ensureProcessingMarker`, `persisting` the insert, `running` the agent loop, a
summary or a wake. Claim numbers also serve as the timestamps in the column,
so they survive `Crash`, as the wall clock does. `MirrorCleared` and
`AcquireProcessing` contain the first attempt of the column write, which runs in
the caller's step; `ClearRetry` and `MarkerRetry` are the detached ones.
The four kinds of holder differ in how they take the flag, whether they install
a controller, and whether their release names their claim, exactly as the code
does. Left out: what a holder does with the flag held; the clients' sync events.

`ConversationQueue` - the queue of one Conversation. A chain is one promise
chain. The flag is taken and released whole. `batch` is what a chain has popped
and not dealt with, `turn` what it has persisted. Slash resolution awaits
microtasks only, so while a chain is `resolving` other chains may claim but no
request or timer runs (`Microtasks`, `Tasks`). `view` is what the sender's client
shows, driven by the four queue events. Payload, trust, interface and surfaces
of a message are abstracted to its `Sender` (one batch key) and its size. The
interrupting send aborts the turn, waits for idle and for the finalization
barrier, writes the durable repair and claims the flag or falls back to the
queue, each an action; whatever throws after its answer gives the flag back and
queues the message too (`HandoverFails`). `stalled` is what a drain gave up on
after its retry and none has taken since. `InterruptOnSend`, `DrainsThrow` and `SendsFail` switch
groups of actions per instance. Left out: `processMessage` of the channels and
the per-turn context that the drain applies.

`MessageLifecycle` - what a sender is promised, without queue, chains or flag: a
message is accepted, has one end and keeps it, and one turn runs at a time, of
waiting messages of one sender. `ConversationQueue` implements it under
`life <- outcome`, `turn <- UNION {turn[c] : c \in Chains}` (`KeepsPromises`).

`MemoryJobs` - the rows and the worker processes. A store call is one step, as
a synchronous SQLite call is, except that a claim selects and then updates row
by row and another process may come in between. The coalescing enqueue is one
step; across processes the code allows a duplicate pair, which it documents as
harmless. `due` and `aged` abstract the clock. `carries` and `outdated` are
history variables: which row owes the last write of a page and which executions
began before it. A worker process is spawned once; a restart is another worker.
Left out: the handlers, memory switched off, the killing of orphans.

`QdrantBreaker` - all calls of the breaker. The failure counter is capped at the
threshold, which is all the code compares it with.

`StreamState` - the daemon's half of one conversation's event stream. Every event
ever stamped is an entry of `log`, so two events may carry one seq. The
reservation file, the anchor and the message rows survive a restart; the counter,
the ring and the loop's mirror do not. A tool result is in `arriving` while its
on-arrival write is awaited. `LlmCallStarted` and `RowReserved` are the two
halves of `handleLlmCallStarted` around its await, for the next call of a turn
and for one issued again after a failure: a row that still awaits finalization
is deleted, with what was flushed to it. `FailTurn` is the provider-error end.
`unsaved`, `discarded` and `faults` are history: which content was lost with its
write or process, which with an abandoned call, which safeguards have failed. The
ring is bounded by count only. Left out: subscribers, the web client's cursor and
the synthetic row of a provider error.

`Scheduler` - the rows and the processes that write to them. A claim reads and
then updates row by row, as the code does; every awaited write of the worker, of
the recovery and of a manual run is a step. A worker may die, outlive its daemon
(`orphan`) or be replaced before it is gone (`overlap`). `ver` stands for the
time a recurring row was claimed for. A schedule's kind says whether it recurs
and its mode; `legacy` is a `run_task:` message, whose run is closed with an error
and nothing more, `incomplete` a script or workflow schedule with nothing to run,
which a tick passes over (`Skip`). A task remembers whether the rest of its
bookkeeping is inside the mode's try block (`inTry`): what fails there is handled
as a failed run, what fails outside ends the tick. `charges`, `taken`, `deferred`,
`stranded` and `userOff` are history. Left out: the length of backoffs, what a run
does, the gate for rows of a plugin that is gone, failing writes of a manual run.

`ChannelDelivery` - the inbound events of one conversation. A live dispatch is
the process of its event, the sweep is one more. `Section` holds the steps that
follow one another without an await: only a crash or the monitor, which is
another process, comes between them. A failed row is due at any time; the
attempt counters are kept as what is left of them. A repeat under the same
external id changes nothing; one under another id is an event of its own with
the same message. An event leaves the ingress refused, dispatched, or answered by
the ingress itself (`Intercept`: bootstrap links, guardian replies, approvals,
stale buttons, whose rows stay pending). A loop that ends (`LoopEnds`), throws or
is cut off by a crash may have any part of the reply in its row (`Streamed`,
`size`); one that ends is on record as `silent` or `ended`, and its reply id is
known only if `message_complete` named it (`known`). A segment takes three steps:
`Post`, `Acknowledge` (the platform's answer, after which two retried writes are
awaited) and `SegmentDelivered` (the count). `acked`, `taken`, `torn` and `holes`
are history: segments the platform acknowledged, replies one event took over from
another, acknowledged segments whose count a crash kept from the row, events whose
row no query takes up. Left out: the live Slack stream, the text of notices,
writes of the event rows that fail.

`MC*` give the constants their values; `*Proofs` hold the theorems. Variants
named in comments are the definitions used to test that each property can fail.

## Runs

| Run | Instance | Shows |
|---|---|---|
| `claim_users` | 2 turns (or retries), 1 fenced holder, 1 summarize, 3 claims, 1 retry | exclusion, markers, holders under Stop, BUSY, crash and sweep; a Stop that signals ends the claim |
| `claim_wakes` | 2 turns, 2 wakes, 3 claims | markers and waiters with wakes competing for each release |
| `claim_wake_stop` | 1 turn, 1 wake | violation: Stop during a wake lets a second loop start |
| `queue_batch` | 4 messages of 2 senders, one hidden, 2 chains, 5 of 7 bytes | nothing lost, held once and in order through batches, duplicates, failing persists, throwing dispatches and a full queue; implements `MessageLifecycle` |
| `queue_interrupt` | 3 messages that do not coalesce, one slash, one hidden, fair | clients' rows, bytes, no message behind an idle conversation, `MessageLifecycle` and an end for every message under interrupting sends, Stop, teardown, steer and delete, with dispatches, durable repairs and hand-overs that fail |
| `jobs_workers` | 3 workers, 1 row, racing launches and signals, fair | claims, terminal rows, superseded workers, ends |
| `jobs_writes` | 2 workers one after the other, 2 rows of a page and 1 other | no write of a page is lost through retries, stalls and crashes |
| `breaker_calls` | 4 calls, threshold 3, fair | the half-open circuit and its probe |
| `stream_seq` | 4 events of 5 kinds, blocks of 2, a ring of 2, 2 boots, four kinds of failing writes | numbers, anchors, replay windows |
| `schedule_workers` | 1 schedule of any of 14 kinds, 2 workers, a restart, orphaned and overlapping workers | claims, budgets, ended one-shots |
| `schedule_batch` | 2 schedules in one tick (4 pairs, two with a row that has nothing to run or is refused), a user action, drain or failing write, a restart, dying workers, fair | deferred occurrences come back, one-shots end or are left firing for a known reason |
| `delivery_replies` | 2 events: one Slack message twice (1 segment and 2 incidents, or 2 segments and 1 incident), or Slack and Telegram (1 incident); 2 attempts; an incident is a crash, a failing turn or post, or a turn of others; fair | segments posted once, delivered means answered, every row settles |

Bounds. Three claims are enough for a claim, a stale operation of it and the
claim that is hurt by it, with one more in between. Two chains give every pair
of a drain, a send and a kick; three or four messages give a batch with a tail
that fails behind a tail that runs, and something queued behind it. Two worker
processes overlap, and a third supersedes or resets them. `MaxRetries`,
`MaxAttempts` and `MaxDeferrals` are small versions of the code's limits; one
retry is enough for a retry to come late, and the proofs hold for every value.
The clear slots and the number of chains bound concurrency, not behaviour.
Two boots and blocks of two give a counter that dies inside, at and just past a
reserved block, and a ring of two drops events in mid-turn. One crash cuts off a
dispatch or a sweep at every write, two cut off its retry or its recovery as well
(with a reply of one segment, which keeps the run short enough), and two events
give every order of an event and its repeat.
Runs of `ConversationQueue`, `MemoryJobs`, `Scheduler` and `ChannelDelivery` switch
the deadlock check off: all messages may be answered, all bounded workers dead,
all schedules ended.

Switches separate what holds from what does not (see below): `queue_batch` has no
Stop, because Stop in a batch loses messages; `queue_interrupt` has no failing
sends, and room in the queue for an interrupted message; `NothingStranded` and
`EveryMessageEnds` excuse what a drain gave up on, which `kickQueueDrain` leaves
queued after one retry until something else kicks a drain; `jobs_writes` runs its
workers one after the other; `ClaimedOnce` excuses rows that a recovery took,
`EveryOneShotEnds` those in `stranded` (left firing by a tick or a recovery that
died or threw, or with nothing to run, and not recovered since),
`PostedOnce` replies that were taken over and segments in `torn`,
`DeliveredMeansAnswered` messages with a row that names the reply of an earlier
attempt, `EveryEventSettles` the events in `holes` (those the ingress answered
itself and those `Unrecoverable` names), `AnchorHonest` and `StampsAboveAnchors` a counter that lost both its file
and the anchors. `AnchorHonest` also excuses `discarded`, and says that it holds
streamed text only.

## Fairness

`ProcessingClaim`: retry timers fire, awaited promises resume, a persist ends,
and a loop whose controller was signalled unwinds (the agent loop's abort
watchdog). A turn that nobody stops may run for ever.
`ConversationQueue`: what a chain awaits settles and a turn ends (provider and
tool calls have timeouts); an outstanding commit settles. Nothing is assumed of
users. `MemoryJobs`: timers of the loop and of the guard fire, the supervisor
respawns, a handler returns, time passes. The tick with a full budget is
strongly fair: a quiesce lease expires and a breaker's cooldown ends, so such
ticks come again, though not every tick is one. No fairness of crashes or
signals is assumed, and their number is bounded by the workers. `Scheduler`: a
time comes due, a worker's writes and runs end (every mode has a timeout), a
worker is spawned when none lives and the daemon is up, the daemon's start-up goes
on, a drain lease expires. Deaths and restarts are not fair.
`ChannelDelivery`: what a dispatch, a turn or the sweep awaits settles (callbacks
and turns have timeouts), the sweep's timer fires, and the monitor runs its
recovery after a restart; time passing is part of the sweep's. `StreamState`
states no liveness. `QdrantBreaker`:
time passes, a call is made that finds the circuit ready for a probe, a call to
Qdrant settles (its client has a timeout).

## Theorems

`ProcessingClaimProofs` proves, for any number of holders, retries and claims,
`TypeOK`, `LiveClaimMarked`, `WaitersNeverMissRelease` and the action property
`MarkerNamesLiveClaim`. `LiveClaimMarked` alone is not inductive: a holder that
passes the fence needs its marker in the column already (`LandedIsWritten`),
which rests on claim numbers being fresh (`ClaimsNumbered`) and on the live claim
being newer than the boot (`FlagIsOwned`), without which the sweep could clear
it. The proof has one lemma per operation of the flag, as the code has one
method, and `NextKeepsIInv` cites them action by action. `TurnExclusion` and
`HeldFlagHasHolder` are false when Stop meets a wake (`claim_wake_stop`), and
`ClaimExclusion` and `ClaimHasHolder` prove that this is the only way: they hold
where there are no wakes or nobody presses Stop. Their invariant (`Sole`) says
that whoever is on the way to a loop has the live claim and, unless it is a wake,
its controller installed, so that Stop signals it and does not clear its flag.

`MemoryJobsProofs` proves `TerminalStays`, `ClaimIsExclusive`,
`NamedWorkerKeepsItsRows` and `TypeOK` for any number of rows and processes. The
first two follow from one lemma: every step moves each row along one edge of its
life (inserted, claimed, ended) or leaves it alone (`RowMoves`), given that only a
running row is claimed (`RowInv`). The types need that a row that has not ended
has budget left (`BudgetLeft`); the PID file's protection needs that only a
process past its start has claims (`ClaimsFollowStart`). `JobsKeepWrites` proves
`WriteNotLost` where launches do not race and no process works on after SIGTERM,
the hypotheses of `jobs_writes`, without which it is false: then one process lives
at a time (`OneWorker`), so that no row is reset under an execution, and an
execution older than the last write is never that of the row that owes it
(`WriteInv`).

`QdrantBreakerProofs` proves `HalfOpenHasProbe` for any set of calls and any
threshold.

`ConversationQueueProofs` proves, for any messages, chains, sizes and budgets,
`HeldOnce`, `ClientRowsMatch`, the refinement `KeepsPromises`, and what is left of
`NothingLost`. The argument separates messages from chains. Nine moves say all
that a step may do to the messages (one is brought, queued, refused, taken,
returned, ended, deleted, the queue is reordered, or nothing happens); each move
keeps `MsgInv`, and each action is shown to be a move (`NextMoves`). `HeldOnce`
alone is not inductive: a message in hand may only be ended or returned by the
chain that holds it (`Hands`), a hidden or dequeued message shows no row while in
hand (`RowsInHand`), and one turn runs, of one sender (`OneTurn`, `OneSender`),
which are also what the abstract specification asks for. `LeastElement` gives the
index that `CHOOSE` finds from the well-foundedness of `<`, not from induction.
`NothingLost` is false in general: `OnlyAStoppedTurnDrops` proves that a step that
loses a message starts after an abort of the running turn, and
`QueueLosesNothing` that nothing is lost where nothing aborts a turn, or where no
two messages share a sender, so that no batch has a tail. The two hypotheses are
those of the runs `queue_batch` and `queue_interrupt`.

`QueueOrderProofs` goes on from there, with the order of the queue, its byte count
and who drains it. Each action is shown to do one of a few things to the queue and
to the line a chain has taken out of it (`LineMove`): push, take a run off the
head, put it back in front, clear, remove one, steer. `QueueBytes` proves
`BytesMatchQueue` from these; it needs the bytes of a concatenation, a fact about
all sequences, which is proved by a least counterexample rather than by
induction. `StartsInOrder` needs that queue and line are in order and the line
comes before the queue, and that one chain at most has a line to put back
(`InLine`), since a drain takes only when no other dispatch is on its way and the
flag is free. It is false under a steer, which moves a message to the head and
leaves its rank: `OnlyASteerReorders` proves it for every behaviour without one,
`QueueStartsInOrder` for every instance without `Interrupts`, as in `queue_batch`.
`NothingStranded` needs that the holder of the flag is at work and an interrupt
waits only for a held flag (`FlagInv`), so that a drain that finds the flag held may
give up. It has two exceptions, both met by TLC and listed below:
`OnlyTheseStrand` proves that there is no third, and `QueueStrandsNothing` that
nothing is stranded where a send's own persist neither fails nor is a repeat, and
interrupt-on-send is off or the budget refuses nothing; `queue_interrupt` is such
an instance. What a failing hand-over queues was never queued before (`Unqueued`). `QueueTypes` proves `TypeOK` for any finite set of messages (a rank is
bounded by their number).

`StreamStateProofs` proves all five properties of the event stream for every
block, ring, number of events and boots. The seq invariant relates the counter,
the ceiling in memory and the one on disk to every entry of `log`; the anchor
needs that each piece of content is in the rows, unsaved, discarded, or on its way
in exactly the stage its writer is in, and that a row awaiting finalization holds
mirrored text only, so that deleting it takes nothing else; the replay needs that the ring is the
unbroken end of this boot's part of `log`.

`SchedulerProofs` proves `TypeOK`, `EndedStaysEnded`, `DeferredComesBack`,
`GivenUpWhenSpent` and `ClaimedOnce`. Every write to a row is one of a few kinds
(`Writes`), and each theorem goes through them. Giving up is inductive only
with what a process read before: the count in its snapshot is no more than what
was charged (`ReadCounts`, `ChargedBefore`). Claims need an order of the steps of
a tick (`TickOrder`), and that a firing one-shot has one holder (`OneHolder`) and
an occurrence one version (`OneOccurrence`).

`ChannelDeliveryProofs` proves `PostedOnce` and `DeliveredMeansAnswered` for any
number of events, repeated webhooks, segments, attempts and crashes. Neither is
inductive. Both need where the work is: one worker to a row, the row's status that
of the worker's stage, and the sweep's selection still as it was read (`WorkInv`);
and what rows and workers refer to: an ingress key has one turn, and a linked
event's turn is that of its message (`RefInv`). `PostedOnce` then follows from
one event having a claim to the reply of a turn that nobody took over and that has
something to post (`OneStake`) and every acknowledged segment that is not torn
being counted on some row or about to be (`AckedCounted`, `CountedOn`), so that
whoever posts next starts behind it. `DeliveredMeansAnswered` follows because an
event settled without a post is answered or leaves a sibling that owes the answer
(`SiblingAnswers`, `Resolved`), and a turn cut off before it said anything leaves an
event that runs it again (`CutShort`). A row that names another turn's reply than
its own (not `Plain`) is a stake in both turns and counts as still owing. A step changes one process and one row; `Frame` carries the
invariant over the rest, `EndsKeep` and `AdvanceKeeps` treat the steps that end
work and those that settle nothing, and each action cites them.

The assumptions are those named in the modules (`ClaimAssumption`,
`JobsAssumption`, `BreakerAssumption`, `QueueAssumption`, `StreamAssumption`,
`SchedulerAssumption`, `DeliveryAssumption`): disjoint kinds of holders (an event is
neither the sweep nor another holder of the flag), types of the constants and
positive limits. Every invariant and action property of the passing runs is
stated by a theorem, some under the hypotheses given above. Only model-checked, and
out of the prover's reach, is liveness under fairness: `StopReleasesClaim`,
`EveryMessageEnds`, `JobEnds`, `SupersededWorkerEnds`, `NeverStuck`,
`EveryOneShotEnds` and `EveryEventSettles`.

## What the models show about the code

A disagreement that a run demonstrates: a wake has no abort controller, so Stop
takes it for a latched flag and frees it under a running loop
(`claim_wake_stop`). The wake's unconditional `setProcessing(false)` then ends the
next turn's claim.

Met while modelling, by variants of the instances above that are not kept as
runs. Paths are under `assistant/src`.

Queue:
- Stop between two persists of a batch drops the tails already popped
  (`daemon/conversation-process.ts:1632`), which the comment at
  `daemon/conversation-lifecycle.ts:213` does not expect.
- A direct send that is a duplicate or fails does not kick the drain, and what
  queued behind it waits for an unrelated turn
  (`runtime/routes/conversation-routes.ts:3010`).
- An interrupting send that falls back to a full queue is refused, and a message
  queued earlier is left behind the idle conversation
  (`conversation-routes.ts:2386`).
- `currentTurnSourceActorPrincipalId` is stamped before the flag is taken
  (`conversation-routes.ts:2646`). A `/compact` taken from the queue runs without
  the flag, beside a turn.

Memory jobs:
- `completeMemoryJob` is guarded on `running`, which a re-claimed row is: a late
  return completes its successor's claim (`persistence/jobs-store.ts:802`; the
  comment at 797 says it cannot). A worker stopped by SIGTERM goes on executing
  while its successor resets its rows.

Breaker: a success from before the circuit opened closes it without a probe.

Event stream:
- `handleListMessages` reads the rows before an await and the seq after it
  (`conversation-routes.ts:999`, `:1384`), against
  `runtime/assistant-stream-state.ts:41`.
- An empty ring answers a replay as complete. With no reservation on disk a seq
  can be issued again, against the comment at `assistant-stream-state.ts:31`.
- A tool start moves the anchor even if the finalize before it failed
  (`daemon/conversation-agent-loop-handlers.ts:1851`), and the next flush moves it
  past a tool result whose write is pending.
- A call that died mid-generation is issued again and its row deleted
  (`agent/loop.ts:3216`, `conversation-agent-loop-handlers.ts:1602`), though the
  anchor already covers what was flushed to it; a flush that fires while the next
  row is awaited raises the anchor for the deleted row (`:1612`). The comment at
  `:1291` says that the seq never claims content that is not durable.

Scheduler:
- Recovery at the daemon's start takes the rows of an orphaned, living worker for
  stale and they run twice; a worker that dies alone leaves its one-shots firing
  until the next start of the daemon; rows claimed and never started are charged.
- A claimed one-shot without a script or a workflow name, or with a `run_task:`
  message, is passed over and stays firing (`schedule/scheduler.ts:763`, `:918`,
  `:987`): only restarts of the daemon, each charging it a retry, end it.
- Deleting a schedule whose run is about to be recorded makes the tick throw and
  drop the rest of its batch. `deferClaimedSchedule` switches on what the user
  switched off. A failing run-now charges the retry budget.
- The last occurrence of a recurrence that fails gets a retry time but stays off;
  a failing write after a success counts as a failure and runs it again.

Inbound delivery:
- A crash between `recordInbound` and `storePayload` loses the event: its row has
  nothing to replay, and the platform's repeat finds a duplicate. The exits of the
  ingress that answer an event themselves leave its row `pending` for good
  (`runtime/routes/inbound-message-handler.ts:1170`, `:1195`, `:1272`, `:1333`).
- A crash between the platform's answer and the count of a segment posts that
  segment again: two retried writes are awaited in between
  (`runtime/channel-reply-delivery.ts:262`).
- A turn that a crash or Stop cut off in the middle of its reply is answered with
  what there was of it: the lookup of the reply takes any row with text
  (`channel-reply-delivery.ts:412`), and the sweep does not run the turn again.
- A replay whose turn ends without naming its reply leaves the reply id of an
  earlier attempt on the row, and a retried delivery goes on in that other reply, if
  it has text, from the segment counted for this one (`runtime/channel-retry-sweep.ts:747`).
- The sweep marks a replay processed before it stores the reply id, which
  `background-dispatch.ts:301` warns of; a deduplicated delivery, or a turn without `message_complete`, stores none. A
  crash there leaves the row for good (`Unrecoverable`).
- A pending sibling is taken for dead (`background-dispatch.ts:371`), but the sweep
  runs outside the admission line: an event put off, or recovered, while its
  repeat is being posted posts the reply a second time, without a crash. The flag
  is free from the end of the loop to the end of the turn-boundary commit, and in
  that time the running event is not even linked.
- Messages without an ingress key (all but Slack's) run their turn again when a
  crash falls between the turn and `markProcessed`.

## Plan

Done: the flag, the queue with the interrupting send and its abstract
specification, memory jobs, the Qdrant breaker, the event stream, schedules and
inbound delivery, and the proofs of their invariants. Next, in this order: the web
client's cursor against `StreamState`; pending interactions with the host proxies;
the billing breaker beside `QdrantBreaker`; the worker slot that memory jobs and
schedules share.

## Not modelled

What an agent loop computes, the LLM providers, tools and skills, prompts,
clients, the gateway, the CLI and the credential process: input and output, or
external services, without a protocol that the modelled parts depend on.
`PROJECT.json` lists every component with the reason. Media-driven parts (calls,
live voice) depend on the timing of external streams.
