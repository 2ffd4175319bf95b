---------------------------- MODULE StreamState ----------------------------
(***************************************************************************)
(* The daemon's half of the event stream of one conversation: the global   *)
(* seq counter with its reservation file, the replay ring, the agent loop's *)
(* content writes, and the snapshot anchor conversations.seq that /messages *)
(* returns beside the rows (assistant-stream-state.ts,                     *)
(* conversation-agent-loop-handlers.ts, conversation-crud.ts).              *)
(*                                                                         *)
(* Every event ever stamped is an entry of log, so an event is named by     *)
(* its index and two events may carry one seq.  The file on disk, the rows  *)
(* and the anchor survive a crash; everything else is the process's.        *)
(***************************************************************************)
EXTENDS Naturals, Sequences, FiniteSets

CONSTANTS
  Block,      \* SEQ_RESERVATION_BLOCK: seqs reserved per write of the file
  RingCount,  \* SSE_REPLAY_RING_COUNT_LIMIT
  Emits,      \* kinds of events this instance emits
  Faults,     \* what may go wrong in this instance
  MaxEvents,  \* bound: events stamped in a behaviour
  MaxBoots    \* bound: daemon processes in a behaviour

ASSUME StreamAssumption ==
  /\ Block \in Nat \ {0}
  /\ RingCount \in Nat \ {0}
  /\ Emits \subseteq {"echo", "delta", "tool", "result", "other"}
  /\ Faults \subseteq {"reservation", "floor", "contention", "content"}
  /\ MaxEvents \in Nat
  /\ MaxBoots \in Nat \ {0}

VARIABLES
  log,        \* history: every event stamped, [seq, kind, boot, covered]
  nextSeq,    \* state.nextSeq
  ceiling,    \* state.reservedSeqCeiling
  first,      \* state.firstStampedSeq, 0 before the first stamp
  ringLo,     \* the ring holds the events ringLo..Len(log)
  boot,       \* history: number of this process
  disk,       \* reservedSeqCeiling in data/stream-seq.json, 0 when absent
  anchor,     \* conversations.seq, 0 for NULL
  rows,       \* events whose content the message rows (or delta file) hold
  turn,       \* the agent loop: idle, streaming, running tools or reserving
  awaiting,   \* state.assistantRowAwaitingFinalization
  row,        \* finalized events of the row lastAssistantMessageId names
  mirror,     \* events in state.currentMessageContent
  streamed,   \* state.lastStreamedContentSeq, 0 for undefined
  flushed,    \* state.flushedContentSeq of the turn
  batch,      \* events in state.pendingToolResults
  arriving,   \* tool results whose on-arrival write is being awaited
  unsaved,    \* history: content whose write failed, or died with its process
  discarded,  \* history: content of a call that was abandoned with its row
  faults      \* history: which safeguards of the counter have failed

processVars == <<nextSeq, ceiling, first, ringLo, boot>>
callVars == <<awaiting, row>>
turnVars == <<turn, callVars, mirror, streamed, flushed, batch, arriving>>
vars == <<log, processVars, disk, anchor, rows, turnVars, unsaved, discarded,
          faults>>

Turns == {"idle", "streaming", "tools", "unfinalized", "reserving"}
\* Whether a write or read of this kind succeeds.
Outcomes(fault) == IF fault \in Faults THEN BOOLEAN ELSE {TRUE}
Max2(a, b) == IF a >= b THEN a ELSE b
Events == 1..Len(log)

\* Events of the conversation whose content the rows are to hold.
Content == {i \in Events : log[i].kind # "other"}

-----------------------------------------------------------------------------
(* The counter: loadSeqReservation, reserveSeqCapacity, stampAndBuffer.     *)

\* Variant: the resume point is the persisted ceiling itself.
LoadedNextSlip(c) == IF c >= 1 THEN c ELSE 1
\* loadSeqReservation in a new process, whose counter starts at 1.
LoadedNext(c) == IF c >= 1 THEN c + 1 ELSE 1

\* reserveSeqCapacity: the counter jumps over a ceiling found on disk.
ReservedNext(next, c, onDisk) ==
  IF next <= c THEN next ELSE Max2(next, onDisk + 1)

\* evict(): the count bound.
EvictedByCount(lo, n) == Max2(lo, IF n > RingCount THEN n - RingCount + 1 ELSE 1)

\* stampAndBuffer of an event of a conversation.  ok is whether the write of
\* the reservation file, when this stamp makes one, succeeds; a failed write
\* still advances the ceiling in memory.
Stamp(kind, ok) ==
  LET reserves == nextSeq > ceiling
      seq == ReservedNext(nextSeq, ceiling, disk)
      top == seq + Block - 1
  IN /\ Len(log) < MaxEvents
     /\ kind \in Emits
     /\ reserves \/ ok
     /\ disk' = IF reserves /\ ok THEN top ELSE disk
     /\ ceiling' = IF reserves THEN top ELSE ceiling
     /\ nextSeq' = seq + 1
     /\ first' = IF first = 0 THEN seq ELSE first
     /\ log' = Append(log, [seq |-> seq, kind |-> kind, boot |-> boot,
                            covered |-> seq <= disk'])
     /\ ringLo' = EvictedByCount(ringLo, Len(log) + 1)
     /\ faults' = IF ok THEN faults ELSE faults \cup {"reservation"}
     /\ UNCHANGED boot

\* The index and seq of the event the current step stamps.
Stamped == Len(log) + 1
CurrentSeq == nextSeq - 1

-----------------------------------------------------------------------------
(* The anchor: recordConversationPersistedSeq.                              *)

\* The UPDATE only raises the column.
Raised(a, seq) == IF seq > a THEN seq ELSE a

\* A write that meets SQLite contention is dropped.
RecordSeq(seq) ==
  \E ok \in Outcomes("contention") :
    anchor' = IF ok THEN Raised(anchor, seq) ELSE anchor

-----------------------------------------------------------------------------
(* A turn of the conversation.                                              *)

\* A user row is persisted, then its echo is broadcast and the anchor moves
\* to the echo's seq; the agent loop then starts.
UserEcho ==
  /\ turn = "idle"
  /\ \E ok \in Outcomes("reservation") : Stamp("echo", ok)
  /\ rows' = rows \cup {Stamped}
  /\ RecordSeq(nextSeq' - 1)
  /\ turn' = "streaming"
  /\ awaiting' = TRUE
  /\ UNCHANGED <<row, mirror, streamed, flushed, batch, arriving, unsaved,
                 discarded>>

\* A text or thinking delta: emitted, mirrored, its seq remembered.
Delta ==
  /\ turn = "streaming"
  /\ \E ok \in Outcomes("reservation") : Stamp("delta", ok)
  /\ mirror' = mirror \cup {Stamped}
  /\ streamed' = nextSeq' - 1
  /\ UNCHANGED <<anchor, rows, turn, callVars, flushed, batch, arriving,
                 unsaved, discarded>>

\* The seq a flush pairs with the content it writes.
FlushSeq == streamed

\* flushAccumulatedContent, as the debounce timer fires: the accumulated
\* content is appended to the delta file and only then is its seq recorded.
\* The timer still fires while handleLlmCallStarted awaits the next row: the
\* append to the delta file of a deleted row succeeds, and nobody reads it.
Flush ==
  /\ turn \in {"streaming", "reserving"}
  /\ mirror # {}
  /\ \/ /\ rows' = rows \cup (mirror \ discarded)
        /\ RecordSeq(FlushSeq)
        /\ flushed' = Max2(flushed, streamed)
        /\ unsaved' = unsaved \ mirror
     \/ /\ "content" \in Faults
        /\ unsaved' = unsaved \cup (mirror \ rows)
        /\ UNCHANGED <<rows, anchor, flushed>>
  /\ UNCHANGED <<log, processVars, disk, turn, callVars, mirror, streamed,
                 batch, arriving, discarded, faults>>

\* What one write of a set of events may commit.
Writes(set) == {IF ok THEN set ELSE {} : ok \in Outcomes("content")}

\* What a set of writes leaves in the rows and among the unsaved content.
Saved(written, failed) ==
  /\ rows' = rows \cup written
  /\ unsaved' = (unsaved \ written) \cup (failed \ rows)
  /\ UNCHANGED faults

\* Variant: the batch is finalized without waiting for its earlier writes.
ResultsSettledSkip == TRUE
\* finalizePendingToolResultRow awaits the row reservation that every on-arrival
\* write of the batch is ahead on.
ResultsSettled == arriving = {}

\* handleMessageComplete: the buffered tool results and the assistant row are
\* finalized; the anchor moves only when the row's own write succeeded, but
\* the row no longer awaits finalization in either case.
MessageComplete ==
  /\ turn = "streaming"
  /\ ResultsSettled
  /\ \E results \in Writes(batch), ok \in Outcomes("content") :
       /\ Saved(results \cup (IF ok THEN mirror ELSE {}),
                (batch \ results) \cup (IF ok THEN {} ELSE mirror))
       /\ IF ok THEN /\ RecordSeq(streamed)
                     /\ flushed' = Max2(flushed, streamed)
                ELSE UNCHANGED <<anchor, flushed>>
       /\ turn' = IF ok THEN "tools" ELSE "unfinalized"
  /\ awaiting' = FALSE
  /\ row' = mirror
  /\ mirror' = {}
  /\ streamed' = 0
  /\ batch' = {}
  /\ UNCHANGED <<log, processVars, disk, arriving, discarded>>

\* handleToolUse: tool_use_start is emitted for a block of the finalized row
\* and the anchor moves to its seq, whether or not that finalize succeeded.
\* A call's tools are all announced before any of them runs.
ToolStart ==
  /\ turn \in {"tools", "unfinalized"}
  /\ batch = {}
  /\ \E ok \in Outcomes("reservation") : Stamp("tool", ok)
  /\ RecordSeq(nextSeq' - 1)
  /\ IF turn = "tools"
     THEN rows' = rows \cup {Stamped} /\ UNCHANGED unsaved
     ELSE unsaved' = unsaved \cup {Stamped} /\ UNCHANGED rows
  /\ row' = row \cup {Stamped}
  /\ UNCHANGED <<turn, awaiting, mirror, streamed, flushed, batch, arriving,
                 discarded>>

\* handleToolResult up to its await: the result is buffered and emitted.
ToolResult ==
  /\ turn \in {"tools", "unfinalized"}
  /\ \E ok \in Outcomes("reservation") : Stamp("result", ok)
  /\ batch' = batch \cup {Stamped}
  /\ arriving' = arriving \cup {Stamped}
  /\ UNCHANGED <<anchor, rows, turn, callVars, mirror, streamed, flushed,
                 unsaved, discarded>>

\* persistPendingToolResultRow writes the whole batch.
ResultsWritten(i) == batch

\* The on-arrival write of result i, after its await: the batch is written
\* and the anchor moves to the seq captured before the await.
ResultWrite(i) ==
  /\ i \in arriving
  /\ arriving' = arriving \ {i}
  /\ \/ Saved(ResultsWritten(i), {}) /\ RecordSeq(log[i].seq)
     \/ "content" \in Faults /\ Saved({}, batch) /\ UNCHANGED anchor
  /\ UNCHANGED <<log, processVars, disk, turn, callVars, mirror, streamed,
                 flushed, batch, discarded>>

\* The content that goes with the row of a call that never completed.
Abandoned == IF awaiting THEN row \cup mirror ELSE {}

\* handleLlmCallStarted up to its await: the next provider call of the turn,
\* or a call that is issued again because the last one failed (a repaired
\* history, a recovery hook, or a call that died mid-generation).  The row that
\* still awaits finalization is deleted first; a delete that fails is caught and
\* leaks the row.  The loop does not await the handlers of its results.
LlmCallStarted ==
  /\ turn \in {"streaming", "tools", "unfinalized"}
  /\ turn' = "reserving"
  /\ \E gone \in Writes(Abandoned) :
       /\ rows' = rows \ gone
       /\ discarded' = discarded \cup gone
  /\ UNCHANGED <<log, processVars, disk, anchor, callVars, mirror, streamed,
                 flushed, batch, arriving, unsaved, faults>>

\* handleLlmCallStarted after its await: the call has its row, and what the
\* accumulator still held of the call before is dropped with the timer.
RowReserved ==
  /\ turn = "reserving"
  /\ turn' = "streaming"
  /\ awaiting' = TRUE
  /\ row' = {}
  /\ discarded' = discarded \cup (mirror \ rows)
  /\ mirror' = {}
  /\ streamed' = 0
  /\ UNCHANGED <<log, processVars, disk, anchor, rows, flushed, batch,
                 arriving, unsaved, faults>>

\* releaseTurn unregisters the turn and its state goes.
TurnReleased ==
  /\ turn' = "idle"
  /\ awaiting' = FALSE
  /\ row' = {}
  /\ mirror' = {}
  /\ streamed' = 0
  /\ flushed' = 0
  /\ batch' = {}

\* The turn ends or is aborted: pending results and the pending flush are
\* settled before the release.
EndTurn ==
  /\ turn # "idle"
  /\ ResultsSettled
  /\ \E results \in Writes(batch), content \in Writes(mirror) :
       /\ Saved(results \cup (content \ discarded),
                (batch \ results) \cup (mirror \ content))
       /\ IF content = {} THEN UNCHANGED anchor ELSE RecordSeq(streamed)
  /\ TurnReleased
  /\ UNCHANGED <<log, processVars, disk, arriving, discarded>>

\* The turn ends on the provider-error path: the failed call's row is deleted
\* and lastAssistantMessageId cleared, so there is nothing to flush to.
FailTurn ==
  /\ turn \in {"streaming", "reserving"}
  /\ ResultsSettled
  /\ \E results \in Writes(batch), gone \in Writes(Abandoned) :
       /\ rows' = (rows \cup results) \ gone
       /\ unsaved' = (unsaved \ results) \cup ((batch \ results) \ rows)
       /\ discarded' = discarded \cup gone \cup (mirror \ rows)
  /\ TurnReleased
  /\ UNCHANGED <<log, processVars, disk, anchor, arriving, faults>>

\* Variant: the hand-off claims the live counter even while a turn streams.
HandoffSeqLive == CurrentSeq
\* getInflightFlushedContentSeq ?? getCurrentSeq.
HandoffSeq == IF turn = "idle" THEN CurrentSeq ELSE flushed

\* handleNotifyConversationPersisted: a worker process persisted rows of this
\* conversation and asks the daemon to move the anchor.
WorkerPersisted ==
  /\ RecordSeq(HandoffSeq)
  /\ UNCHANGED <<log, processVars, disk, rows, turnVars, unsaved, discarded,
                 faults>>

\* An event of some other conversation.
OtherEvent ==
  /\ \E ok \in Outcomes("reservation") : Stamp("other", ok)
  /\ UNCHANGED <<anchor, rows, turnVars, unsaved, discarded>>

-----------------------------------------------------------------------------
(* Eviction by age or size, crash and restart.                              *)

\* The oldest entry passes the age bound, or the byte budget is exceeded.
\* evict() runs at the next stamp or read; nobody sees the ring in between.
Expire ==
  /\ ringLo <= Len(log)
  /\ ringLo' = ringLo + 1
  /\ UNCHANGED <<log, nextSeq, ceiling, first, boot, disk, anchor, rows,
                 turnVars, unsaved, discarded, faults>>

\* Variant: the counter resumes at the highest anchor.
FlooredSlip(next) == IF anchor < next THEN next ELSE anchor
\* floorSeqAbove(getMaxPersistedConversationSeq()).
Floored(next) == IF anchor < next THEN next ELSE anchor + 1

\* The daemon dies and starts again: the reservation is loaded and, when the
\* column is readable, the counter is floored above the anchor; a floor that
\* moves the counter reserves a block at once.
Restart ==
  /\ boot < MaxBoots
  /\ boot' = boot + 1
  /\ \E readable \in Outcomes("floor"), ok \in Outcomes("reservation") :
       LET loaded == LoadedNext(disk)
           floor == IF readable THEN Floored(loaded) ELSE loaded
           reserves == floor > loaded
           next == IF reserves THEN ReservedNext(floor, disk, disk) ELSE floor
       IN /\ reserves \/ ok
          /\ nextSeq' = next
          /\ ceiling' = IF reserves THEN next + Block - 1 ELSE disk
          /\ disk' = IF reserves /\ ok THEN next + Block - 1 ELSE disk
          /\ faults' = faults \cup (IF readable THEN {} ELSE {"floor"})
                              \cup (IF ok THEN {} ELSE {"reservation"})
  /\ first' = 0
  /\ ringLo' = Len(log) + 1
  /\ unsaved' = unsaved \cup ((mirror \cup batch) \ rows)
  /\ TurnReleased
  /\ arriving' = {}
  /\ UNCHANGED <<log, anchor, rows, discarded>>

-----------------------------------------------------------------------------
(* getReplayWindow                                                          *)

Ring == ringLo..Len(log)

\* Variant: a cursor from an earlier process is trusted without checking that
\* the ring still starts at this process's first event.
CoversRestartGapSlip(cursor) == cursor < first
\* The ring still holds everything this process stamped.
CoversRestartGap(cursor) == cursor < first /\ log[ringLo].seq = first

\* Whether the window is served (the code returns null when it is not).
WindowServed(cursor) ==
  \/ Ring = {}
  \/ cursor + 1 >= log[ringLo].seq
  \/ CoversRestartGap(cursor)

Window(cursor) == {i \in Ring : log[i].seq > cursor}

-----------------------------------------------------------------------------
Init ==
  /\ log = <<>> /\ nextSeq = 1 /\ ceiling = 0 /\ first = 0 /\ ringLo = 1
  /\ boot = 1 /\ disk = 0 /\ anchor = 0 /\ rows = {}
  /\ turn = "idle" /\ awaiting = FALSE /\ row = {}
  /\ mirror = {} /\ streamed = 0 /\ flushed = 0 /\ batch = {}
  /\ arriving = {} /\ unsaved = {} /\ discarded = {} /\ faults = {}

Next ==
  \/ UserEcho \/ Delta \/ Flush \/ MessageComplete
  \/ ToolStart \/ ToolResult \/ (\E i \in Events : ResultWrite(i))
  \/ LlmCallStarted \/ RowReserved \/ EndTurn \/ FailTurn
  \/ WorkerPersisted \/ OtherEvent
  \/ Expire \/ Restart

Spec == Init /\ [][Next]_vars

-----------------------------------------------------------------------------
(* Properties                                                               *)

\* A reservation write has failed and a later startup could not read the
\* anchors: only then does the counter resume with neither to go by.
CounterLost == {"reservation", "floor"} \subseteq faults

\* Types of the stream's state.
TypeOK ==
  /\ log \in Seq([seq : Nat, kind : Emits, boot : Nat, covered : BOOLEAN])
  /\ nextSeq \in Nat \ {0} /\ ceiling \in Nat /\ first \in Nat /\ disk \in Nat
  /\ ringLo \in 1..(Len(log) + 1) /\ boot \in 1..MaxBoots
  /\ anchor \in Nat /\ streamed \in Nat /\ flushed \in Nat
  /\ turn \in Turns
  /\ awaiting \in BOOLEAN /\ row \subseteq Events
  /\ rows \subseteq Events /\ mirror \subseteq Events
  /\ unsaved \subseteq Events /\ discarded \subseteq Events
  /\ arriving \subseteq batch /\ batch \subseteq Events
  /\ faults \subseteq {"reservation", "floor"}

\* A seq is issued twice only when its first issue lay above the ceiling on
\* disk at that time: what a successful reservation write covers is never
\* re-issued, whatever writes fail and whenever the daemon dies
\* (reserveSeqCapacity, loadSeqReservation).
OnlyUncoveredReissued ==
  \A i, j \in Events : i < j /\ log[j].seq <= log[i].seq => ~log[i].covered

\* A newly stamped seq lies above the anchor, hence above that of every
\* snapshot a client holds, so no client discards a live event as one it has
\* already; it takes both a failed reservation write and an unreadable column
\* at startup to lose this (floorSeqAbove in lifecycle.ts).
StampsAboveAnchors ==
  [][Len(log') > Len(log) /\ ~CounterLost => log'[Len(log')].seq > anchor]_vars

\* The anchor never claims content the rows do not hold: every event of the
\* conversation at or below it is in the rows, unless its own write failed, its
\* process died before writing it, it is a tool result whose on-arrival write is
\* still being awaited, or its call never completed and was abandoned with its
\* row.  Only streamed text is lost that way: the echo of a user row, a tool of
\* a finalized row and a tool result are never deleted as an abandoned call's.
AnchorHonest ==
  /\ ~CounterLost =>
       \A i \in Content : log[i].seq <= anchor =>
         i \in rows \cup unsaved \cup arriving \cup discarded
  /\ \A i \in discarded : log[i].kind = "delta" /\ i \notin rows

\* A served, non-empty replay holds every event of this process above the
\* cursor: what getReplayWindow returns has no hole.
ReplayHasNoHole ==
  Ring # {} =>
    \A cursor \in 0..CurrentSeq : WindowServed(cursor) =>
      {i \in Events : log[i].boot = boot /\ log[i].seq > cursor} \subseteq Window(cursor)
=============================================================================
