-------------------------- MODULE ChannelDelivery --------------------------
(***************************************************************************)
(* Messages that reach one conversation from a channel such as Slack, and   *)
(* the way of the replies back: the inbound event rows (delivery-crud.ts,   *)
(* delivery-status.ts), the ingress handler and its background dispatch,    *)
(* the retry sweep (channel-retry-sweep.ts), the delivery of a reply segment *)
(* by segment, and the monitor process that recovers rows after a restart.  *)
(*                                                                         *)
(* The daemon is one thread: steps interleave at its awaits, and a crash    *)
(* anywhere.  The monitor's steps are single UPDATE statements of another   *)
(* process.  A webhook that is repeated with the same external message id   *)
(* finds its row and changes nothing; a platform event repeated under        *)
(* another id is an event of its own with the same message.                 *)
(***************************************************************************)
EXTENDS Naturals, Sequences

CONSTANTS
  Events,      \* inbound events
  Messages,    \* what this instance's events may carry, Events -> message
  Keyed,       \* messages with an ingress idempotency key (Slack's)
  Segments(_), \* the most text segments a reply to a message may have
  MaxAttempts, \* RETRY_MAX_ATTEMPTS
  MaxIncidents(_) \* bound for an instance: deaths of the daemon, turns and posts
               \* that fail, and turns that others run in the conversation

ASSUME DeliveryAssumption ==
  /\ {"sweep", "none", "other"} \cap Events = {}
  /\ \A f \in Messages, e \in Events : Segments(f[e]) \in Nat \ {0}
  /\ MaxAttempts \in Nat \ {0}
  /\ \A f \in Messages : MaxIncidents(f) \in Nat

VARIABLES
  row,       \* channel_inbound_events, one row per event
  carries,   \* the message each event carries
  turns,     \* the conversation's user rows: [msg, keyed, size, end], with the
             \* text segments in the reply row and how the loop came to its end
  lock,      \* who holds the conversation's processing flag
  line,      \* channel turn admission: the first holds the single-flight slot
  task,      \* what the live dispatch of an event, or the sweep, is doing
  replays,   \* the sweep's selection of failed events still to process
  redeliver, \* and of failed deliveries still to retry, as they were read
  recovery,  \* recovery steps the monitor still has to run
  incidents, \* how many of them there have been
  acked,     \* history: <<turn, segment>> pairs whose post was acknowledged
  taken,     \* history: turns whose reply another event took over
  torn,      \* history: acknowledged segments that a crash kept from the count
  holes      \* history: events whose row no query takes up any more

rowVars == <<row, carries, turns>>
daemonVars == <<lock, line, task, replays, redeliver>>
history == <<acked, taken, torn, holes>>
vars == <<rowVars, daemonVars, recovery, incidents, history>>

Sweep == "sweep"
Procs == Events \cup {Sweep}
NoOne == "none"
NoTask == [at |-> "none"]
Turns == 1..Len(turns)

\* What every kind of work keeps: its event, the user row of the turn, the
\* reply row it knows of (0 for undefined), the next segment to post, whether
\* the ingress was deduplicated, and the write the bookkeeping is at.
Work(at, e) == [at |-> at, ev |-> e, turn |-> 0, reply |-> 0, seg |-> 0,
                dedup |-> FALSE, fresh |-> FALSE, write |-> 1]
Ev(p) == task[p].ev
Msg(p) == carries[Ev(p)]
At(p, stage) == task[p].at = stage

\* The work of p is over; a live dispatch leaves the single-flight slot.
Done(p) ==
  /\ task' = [task EXCEPT ![p] = NoTask]
  /\ line' = IF p = Sweep THEN line ELSE Tail(line)
\* p goes on at another stage.
Goes(p, t) == task' = [task EXCEPT ![p] = t] /\ UNCHANGED line

\* Something happens that the bound counts.
Incident == incidents < MaxIncidents(carries) /\ incidents' = incidents + 1

-----------------------------------------------------------------------------
(* The row: delivery-crud.ts and delivery-status.ts.  A failed row has a      *)
(* retry time, which comes sooner or later.                                 *)

NoRow == [proc |-> "none", deliv |-> "pending", payload |-> FALSE, reply |-> 0,
          link |-> 0, left |-> MaxAttempts, dleft |-> MaxAttempts, count |-> 0, old |-> FALSE]

\* markDeliveryDelivered.
Delivered(r) == [r EXCEPT !.deliv = "delivered"]

\* What is left of an attempt budget after a failure; a fatal one ends it.
Charge(left, fatal) == IF fatal THEN 0 ELSE left - 1

\* recordProcessingFailure.
ProcessingFailed(r, fatal) ==
  LET left == Charge(r.left, fatal)
  IN [r EXCEPT !.left = left, !.proc = IF left = 0 THEN "dead_letter" ELSE "failed"]

\* recordDeliveryFailure: a budget of its own, the processing status stays.
DeliveryFailed(r, fatal) ==
  LET left == Charge(r.dleft, fatal)
  IN [r EXCEPT !.dleft = left, !.deliv = IF left = 0 THEN "dead_letter" ELSE "failed"]

\* deferRetryUntilIdle: no attempt is charged.
Deferred(r) == [r EXCEPT !.proc = "failed"]

\* replayDeadLetters.
ReplayDeadLetter(e) ==
  /\ \/ /\ row[e].proc = "dead_letter"
        /\ row' = [row EXCEPT ![e].proc = "failed", ![e].left = MaxAttempts]
     \/ /\ row[e].proc = "processed" /\ row[e].deliv = "dead_letter"
        /\ row' = [row EXCEPT ![e].deliv = "failed", ![e].dleft = MaxAttempts]
  /\ UNCHANGED <<carries, turns, daemonVars, recovery, incidents, history>>

-----------------------------------------------------------------------------
(* Ingress: inbound-message-handler.ts.                                     *)

\* recordInbound; awaits follow.
Receive(e) ==
  /\ row[e].proc = "none"
  /\ row' = [row EXCEPT ![e].proc = "pending"]
  /\ task' = [task EXCEPT ![e] = Work("ingress", e)]
  /\ UNCHANGED <<carries, turns, lock, line, replays, redeliver, recovery, incidents, history>>

\* The ingress answers the event itself (a bootstrap link, a guardian's reply,
\* an approval, a button of one that is over) or throws: the row stays pending,
\* without a payload.
Intercept(e) ==
  /\ At(e, "ingress")
  /\ Goes(e, NoTask)
  /\ holes' = holes \cup {e}
  /\ UNCHANGED <<rowVars, lock, replays, redeliver, recovery, incidents, acked, taken, torn>>

\* Denied, blocked for disk pressure or for a secret: processed, no payload.
Refuse(e) ==
  /\ At(e, "ingress")
  /\ row' = [row EXCEPT ![e].proc = "processed", ![e].payload = FALSE]
  /\ Goes(e, NoTask)
  /\ UNCHANGED <<carries, turns, lock, replays, redeliver, recovery, incidents, history>>

\* storePayload; then processChannelMessageInBackground joins the
\* conversation's line.  A crash between the two leaves the row as one in the
\* line does.
Dispatch(e) ==
  /\ At(e, "ingress")
  /\ row' = [row EXCEPT ![e].payload = TRUE]
  /\ task' = [task EXCEPT ![e].at = "waiting"]
  /\ line' = Append(line, e)
  /\ UNCHANGED <<carries, turns, lock, replays, redeliver, recovery, incidents, history>>

\* withChannelTurnAdmission: the slot is e's and the conversation is idle.
Admit(e) ==
  /\ At(e, "waiting") /\ Head(line) = e /\ lock = NoOne
  /\ Goes(e, [task[e] EXCEPT !.at = "processing"])
  /\ UNCHANGED <<rowVars, lock, replays, redeliver, recovery, incidents, history>>

-----------------------------------------------------------------------------
(* processMessage, for a live dispatch and for the sweep.                   *)

\* The user row an ingress with the same idempotency key has written.
Original(m) == {t \in Turns : turns[t].msg = m /\ turns[t].keyed}
\* The sweep's second run after a dedup without reply omits the key.
Deduplicates(p) == ~task[p].fresh /\ Original(Msg(p)) # {}

\* Variant: a deduplicated replay is taken as answered, reply or not.
NeedsFreshRunNever(p, t) == FALSE
\* findAssistantReplyMessageIdForTurn: a row with text, whole or not, or one
\* that says that there is no response.
Found(t) == turns[t].size > 0 \/ turns[t].end = "silent"
\* It found nothing: the sweep runs the turn.
NeedsFreshRun(p, t) == p = Sweep /\ ~Found(t)

\* The flag was taken since the turn was admitted: put off to the sweep.
LosesLock(p) ==
  /\ At(p, "processing") /\ lock # NoOne
  /\ row' = [row EXCEPT ![Ev(p)] = Deferred(@)]
  /\ Done(p)
  /\ UNCHANGED <<carries, turns, lock, replays, redeliver, recovery, incidents, history>>

\* persistUserMessage finds the row of an earlier attempt; no loop runs and no
\* reply id is known.
Deduplicated(p) ==
  /\ At(p, "processing") /\ lock = NoOne
  /\ Deduplicates(p)
  /\ \E t \in Original(Msg(p)) :
       Goes(p, IF NeedsFreshRun(p, t) THEN [task[p] EXCEPT !.fresh = TRUE]
               ELSE [task[p] EXCEPT !.at = "bookkeeping", !.turn = t, !.dedup = TRUE])
  /\ UNCHANGED <<rowVars, lock, replays, redeliver, recovery, incidents, history>>

\* The user row is written and the agent loop starts.
StartTurn(p) ==
  /\ At(p, "processing") /\ lock = NoOne
  /\ ~Deduplicates(p)
  /\ turns' = Append(turns, [msg |-> Msg(p), size |-> 0, end |-> "none",
                             keyed |-> Msg(p) \in Keyed /\ ~task[p].fresh])
  /\ lock' = p
  /\ Goes(p, [Work("looping", Ev(p)) EXCEPT !.turn = Len(turns) + 1])
  /\ UNCHANGED <<row, carries, replays, redeliver, recovery, incidents, history>>

\* What a loop may have got into its reply row, whichever way it comes to an
\* end: streamed text is flushed to the row as it grows.
Streamed(p) == 0..Segments(Msg(p))

\* The loop ends: with the reply, with what there was of it when it was stopped,
\* with nothing, or with <no_response/>.  Its id is known if message_complete
\* named it.
LoopEnds(p, size, end, known) ==
  /\ At(p, "looping")
  /\ end = "silent" => size = 0
  /\ turns' = [turns EXCEPT ![task[p].turn].size = size, ![task[p].turn].end = end]
  /\ lock' = NoOne
  /\ Goes(p, [task[p] EXCEPT !.at = "bookkeeping", !.reply = IF known THEN task[p].turn ELSE 0])
  /\ UNCHANGED <<row, carries, replays, redeliver, recovery, incidents, history>>

\* It throws.
LoopThrows(p, size, fatal) ==
  /\ At(p, "looping") /\ Incident
  /\ turns' = [turns EXCEPT ![task[p].turn].size = size]
  /\ row' = [row EXCEPT ![Ev(p)] = ProcessingFailed(@, fatal)]
  /\ lock' = NoOne
  /\ Done(p)
  /\ UNCHANGED <<carries, replays, redeliver, recovery, history>>

-----------------------------------------------------------------------------
(* After the turn: three writes, the choice whether to deliver, and the     *)
(* posts.  There is no await from the first write to the choice.            *)

\* Variant: the live dispatch writes in the order of the sweep.
WritesOfSweep(p) == <<"link", "mark", "reply">>
\* "Record the reply row BEFORE marking the event processed"; the sweep does
\* not.
Writes(p) == IF p = Sweep THEN <<"link", "mark", "reply">> ELSE <<"link", "reply", "mark">>

\* linkMessage, markProcessed, storeReplyMessageId (only with a reply id).
Bookkeep(p) ==
  LET w == Writes(p)[task[p].write] IN
  /\ At(p, "bookkeeping")
  /\ row' = [row EXCEPT ![Ev(p)] =
       IF w = "link" THEN [@ EXCEPT !.link = task[p].turn]
       ELSE IF w = "mark" THEN [@ EXCEPT !.proc = "processed"]
       ELSE IF task[p].reply # 0 THEN [@ EXCEPT !.reply = task[p].reply] ELSE @]
  /\ Goes(p, IF task[p].write = 3 THEN [task[p] EXCEPT !.at = "deciding"]
             ELSE [task[p] EXCEPT !.write = @ + 1])
  /\ UNCHANGED <<carries, turns, lock, replays, redeliver, recovery, incidents, history>>

Siblings(e, t) == {f \in Events \ {e} : row[f].link = t}
\* Variant: nobody else is asked.
SiblingOwnsNever(e, t) == FALSE
\* isDeduplicatedDeliveryOwnedBySibling.
SiblingOwns(e, t) == \E f \in Siblings(e, t) : row[f].deliv # "pending"

\* The reply is a sibling's to deliver: settled without a post.
SettleWithoutPost(p) ==
  /\ At(p, "deciding")
  /\ task[p].dedup /\ SiblingOwns(Ev(p), task[p].turn)
  /\ row' = [row EXCEPT ![Ev(p)] = Delivered(@)]
  /\ Done(p)
  /\ UNCHANGED <<carries, turns, lock, replays, redeliver, recovery, incidents, history>>

\* A deduplicated event posts the reply of a turn that another event has a
\* claim to as well: a sibling without an outcome, or the event that ran the
\* turn and is still on its way from the end of the loop to linkMessage.
TakesOver(p, t) ==
  /\ task[p].dedup
  /\ \/ Siblings(Ev(p), t) # {} /\ \A f \in Siblings(Ev(p), t) : row[f].deliv = "pending"
     \/ \E q \in Procs \ {p} : ~At(q, "none") /\ task[q].turn = t

\* finalizeEventDelivery: from the first segment, if there is one.
FinalizeDelivery(p) ==
  LET t == task[p].turn IN
  /\ At(p, "deciding")
  /\ ~(task[p].dedup /\ SiblingOwns(Ev(p), t))
  /\ row' = [row EXCEPT ![Ev(p)].count = 0]
  /\ Goes(p, [Work("posting", Ev(p)) EXCEPT !.turn = t, !.seg = 1])
  /\ taken' = IF TakesOver(p, t) THEN taken \cup {t} ELSE taken
  /\ UNCHANGED <<carries, turns, lock, replays, redeliver, recovery, incidents, acked, torn,
                 holes>>

\* The reply that p delivers has another segment.
HasMore(p) == task[p].seg <= turns[task[p].turn].size

\* A segment reaches the platform.
Post(p) ==
  /\ At(p, "posting") /\ HasMore(p)
  /\ Goes(p, [task[p] EXCEPT !.at = "posted"])
  /\ UNCHANGED <<rowVars, lock, replays, redeliver, recovery, incidents, history>>

\* It does not.
PostFails(p, fatal) ==
  /\ At(p, "posting") /\ HasMore(p) /\ Incident
  /\ row' = [row EXCEPT ![Ev(p)] = DeliveryFailed(@, fatal)]
  /\ Done(p)
  /\ UNCHANGED <<carries, turns, lock, replays, redeliver, recovery, history>>

\* The platform's answer arrives; onMessageTs, two retried writes, is awaited.
Acknowledge(p) ==
  /\ At(p, "posted")
  /\ Goes(p, [task[p] EXCEPT !.at = "acknowledged"])
  /\ acked' = acked \cup {<<task[p].turn, task[p].seg>>}
  /\ UNCHANGED <<rowVars, lock, replays, redeliver, recovery, incidents, taken, torn, holes>>

\* onSegmentDelivered: updateDeliveredSegmentCount.
SegmentDelivered(p) ==
  /\ At(p, "acknowledged")
  /\ row' = [row EXCEPT ![Ev(p)].count = task[p].seg]
  /\ Goes(p, [task[p] EXCEPT !.at = "posting", !.seg = @ + 1])
  /\ UNCHANGED <<carries, turns, lock, replays, redeliver, recovery, incidents, history>>

\* It does not, and the callback throws.
AnswerLost(p, fatal) ==
  /\ At(p, "posted") /\ Incident
  /\ row' = [row EXCEPT ![Ev(p)] = DeliveryFailed(@, fatal)]
  /\ Done(p)
  /\ UNCHANGED <<carries, turns, lock, replays, redeliver, recovery, history>>

\* All segments are out.
Complete(p) ==
  /\ At(p, "posting") /\ ~HasMore(p)
  /\ row' = [row EXCEPT ![Ev(p)] = Delivered(@)]
  /\ Done(p)
  /\ UNCHANGED <<carries, turns, lock, replays, redeliver, recovery, incidents, history>>

-----------------------------------------------------------------------------
(* sweepFailedEvents: one sweep at a time, from two selections it makes at   *)
(* its start.                                                               *)

\* getRetryableEvents, getRetryableDeliveryEvents, once their time has come.
Retryable == {e \in Events : row[e].proc = "failed"}
RetryableDeliveries ==
  {e \in Events : row[e].proc = "processed" /\ row[e].deliv = "failed"}

SweepStarts(due) ==
  /\ At(Sweep, "none") /\ replays = {} /\ redeliver = {}
  /\ due # {}
  /\ replays' = due \cap Retryable
  /\ redeliver' = {[ev |-> e, reply |-> row[e].reply, link |-> row[e].link,
                    count |-> row[e].count] : e \in due \cap RetryableDeliveries}
  /\ UNCHANGED <<rowVars, lock, line, task, recovery, incidents, history>>

\* The next failed event is processed from its stored payload; with the
\* conversation mid-turn it is put off, under disk pressure dropped with a
\* notice.
SweepReplay(e) ==
  /\ At(Sweep, "none") /\ e \in replays
  /\ replays' = replays \ {e}
  /\ \/ /\ Goes(Sweep, Work("processing", e))
        /\ UNCHANGED row
     \/ /\ row' = [row EXCEPT ![e].proc = "processed", ![e].payload = FALSE]
        /\ UNCHANGED <<task, line>>
  /\ UNCHANGED <<carries, turns, lock, redeliver, recovery, incidents, history>>

\* The next failed delivery is retried from event.deliveredSegmentCount; the
\* reply id is looked up from the turn when the payload has none.  A reply row
\* without text gives way to the reply of the turn.
SweepRedeliver(s) ==
  LET found == s.link # 0 /\ Found(s.link)
      reply == IF s.reply # 0 THEN s.reply ELSE IF found THEN s.link ELSE 0
      turn == IF found /\ turns[reply].size = 0 THEN s.link ELSE reply
  IN /\ At(Sweep, "none") /\ replays = {} /\ s \in redeliver
     /\ redeliver' = redeliver \ {s}
     /\ IF reply = 0
        THEN /\ row' = [row EXCEPT ![s.ev] = DeliveryFailed(@, TRUE)]
             /\ UNCHANGED <<task, line>>
        ELSE /\ row' = [row EXCEPT ![s.ev].reply = reply]
             /\ Goes(Sweep, [Work("posting", s.ev) EXCEPT !.turn = turn, !.seg = s.count + 1])
     /\ UNCHANGED <<carries, turns, lock, replays, recovery, incidents, history>>

-----------------------------------------------------------------------------
(* Deaths of the daemon, the monitor's recovery, and other turns.           *)

\* Work that nothing takes up again: an event without payload, and one marked
\* processed whose reply id is not stored, because the replay stores it after
\* the mark, or because it is not known (a deduplicated delivery, a turn that was
\* stopped or failed).
Unrecoverable(p) ==
  \/ At(p, "ingress")
  \/ /\ task[p].at \in {"bookkeeping", "deciding", "posting", "posted", "acknowledged"}
     /\ row[Ev(p)].proc = "processed" /\ row[Ev(p)].deliv = "pending"
     /\ row[Ev(p)].reply = 0 /\ (p = Sweep \/ task[p].reply = 0)

\* A loop that runs is cut off.
Crash ==
  /\ Incident
  /\ \/ lock \in Procs /\ \E size \in Streamed(lock) :
          turns' = [turns EXCEPT ![task[lock].turn].size = size]
     \/ lock \notin Procs /\ UNCHANGED turns
  /\ row' = [e \in Events |-> [row[e] EXCEPT !.old = row[e].proc # "none"]]
  /\ holes' = holes \cup {Ev(p) : p \in {q \in Procs : Unrecoverable(q)}}
  /\ torn' = torn \cup {<<task[p].turn, task[p].seg>> :
                          p \in {q \in Procs : At(q, "acknowledged")}}
  /\ lock' = NoOne /\ line' = <<>>
  /\ task' = [p \in Procs |-> NoTask]
  /\ replays' = {} /\ redeliver' = {}
  /\ recovery' = <<"orphaned", "stranded">>
  /\ UNCHANGED <<carries, acked, taken>>

\* recoverOrphanedChannelEvents.
Promoted(r) == IF r.proc = "pending" THEN [r EXCEPT !.proc = "failed"] ELSE r
\* recoverStrandedDeliveryEvents.
Unstranded(r) ==
  IF r.proc = "processed" /\ r.deliv = "pending" /\ r.reply # 0
  THEN [r EXCEPT !.deliv = "failed"] ELSE r

\* One recovery step, for the rows with a payload that were created before the
\* daemon's boot time.
Recover ==
  /\ recovery # <<>>
  /\ recovery' = Tail(recovery)
  /\ row' = [e \in Events |->
       IF ~row[e].payload \/ ~row[e].old THEN row[e]
       ELSE IF Head(recovery) = "orphaned" THEN Promoted(row[e]) ELSE Unstranded(row[e])]
  /\ UNCHANGED <<carries, turns, daemonVars, incidents, history>>

\* A turn from the web, a wake or a call.
OtherTurn ==
  /\ lock = NoOne /\ Incident
  /\ lock' = "other"
  /\ UNCHANGED <<rowVars, line, task, replays, redeliver, recovery, history>>

OtherTurnEnds ==
  /\ lock = "other" /\ lock' = NoOne
  /\ UNCHANGED <<rowVars, line, task, replays, redeliver, recovery, incidents, history>>

-----------------------------------------------------------------------------
Init ==
  /\ carries \in Messages
  /\ row = [e \in Events |-> NoRow]
  /\ turns = <<>> /\ lock = NoOne /\ line = <<>>
  /\ task = [p \in Procs |-> NoTask]
  /\ replays = {} /\ redeliver = {} /\ recovery = <<>>
  /\ incidents = 0
  /\ acked = {} /\ taken = {} /\ torn = {} /\ holes = {}

\* Between these steps of one process the daemon's thread does nothing else.
InSection(p) ==
  \/ At(p, "bookkeeping") /\ task[p].write > 1
  \/ At(p, "deciding")
  \/ At(p, "posting") /\ ~HasMore(p)

Section(p) ==
  /\ \A q \in Procs \ {p} : ~InSection(q)
  /\ Bookkeep(p) \/ SettleWithoutPost(p) \/ FinalizeDelivery(p) \/ Complete(p)

Step(p) ==
  \/ LosesLock(p) \/ Deduplicated(p) \/ StartTurn(p)
  \/ (At(p, "looping") /\ \E size \in Streamed(p) :
        \/ \E end \in {"silent", "ended"}, known \in BOOLEAN : LoopEnds(p, size, end, known)
        \/ \E fatal \in BOOLEAN : LoopThrows(p, size, fatal))
  \/ Post(p) \/ Acknowledge(p) \/ SegmentDelivered(p)
  \/ (\E fatal \in BOOLEAN : PostFails(p, fatal) \/ AnswerLost(p, fatal))

Ingress(e) == Intercept(e) \/ Refuse(e) \/ Dispatch(e) \/ Admit(e)

Sweeping ==
  \/ \E due \in SUBSET (Retryable \cup RetryableDeliveries) : SweepStarts(due)
  \/ (\E e \in replays : SweepReplay(e)) \/ (\E s \in redeliver : SweepRedeliver(s))

\* Everything else waits for an await of the daemon's thread.
Free == \A p \in Procs : ~InSection(p)
Dispatching(e) == Section(e) \/ (Free /\ (Ingress(e) \/ Step(e)))
RetrySweep == Section(Sweep) \/ (Free /\ (Sweeping \/ Step(Sweep)))

Next ==
  \/ \E e \in Events : Dispatching(e) \/ (Free /\ (Receive(e) \/ ReplayDeadLetter(e)))
  \/ RetrySweep
  \/ (Free /\ (OtherTurn \/ OtherTurnEnds))
  \/ Crash \/ Recover

\* What a turn, a dispatch or the sweep awaits settles, and the monitor's
\* recovery runs after a restart.  A dispatch and a turn are finite, so that one
\* condition serves them all.
Fairness ==
  /\ WF_vars((\E e \in Events : Dispatching(e)) \/ (Free /\ OtherTurnEnds))
  /\ WF_vars(RetrySweep) /\ WF_vars(Recover)

Spec == Init /\ [][Next]_vars /\ Fairness

-----------------------------------------------------------------------------
(* Properties                                                               *)

\* A segment that the platform has acknowledged is not posted again, through
\* failing segments, retries, crashes, recovery and replays
\* (deliveredSegmentCount, isDeduplicatedDeliveryOwnedBySibling, the boot fence
\* of the recovery), unless an event took the reply over from another, or the
\* daemon died between the platform's answer and the count of this segment.
PostedOnce ==
  \A p \in Procs : At(p, "posted") =>
    <<task[p].turn, task[p].seg>> \notin acked \ torn \/ task[p].turn \in taken

\* The turn has an end, or was cut off after its first text.
Said(t) == turns[t].end # "none" \/ turns[t].size > 0

\* When every event of a message is on record as delivered, the sender has all
\* that the reply row of one of its turns holds, and that turn ended or was cut
\* off after its first text: no path through deduplication, siblings, retries and
\* crashes takes a turn that was cut off before it said anything for answered.
\* Not so when a row still names the reply of an earlier attempt, because the
\* later one ended without naming its own: a retried delivery goes on with the
\* other reply.
DeliveredMeansAnswered ==
  \A e \in Events :
    LET same == {f \in Events : carries[f] = carries[e] /\ row[f].proc # "none"} IN
    /\ e \in same
    /\ \A f \in same : /\ row[f].proc = "processed" /\ row[f].deliv = "delivered"
                       /\ row[f].reply \in {0, row[f].link}
    => \E t \in Turns : /\ turns[t].msg = carries[e]
                        /\ Said(t)
                        /\ \A i \in 1..turns[t].size : <<t, i>> \in acked

\* Something is still owed for an accepted event: it is neither delivered, nor
\* refused, nor given up for someone to replay, nor answered by the ingress
\* itself, nor cut off by a crash in one of the places that Unrecoverable names.
Owed(e) ==
  /\ e \notin holes
  /\ \/ row[e].proc \in {"pending", "failed"}
     \/ row[e].proc = "processed" /\ row[e].payload /\ row[e].deliv \in {"pending", "failed"}

\* The work on the accepted events comes to an end, through busy conversations,
\* failing turns and posts, a crash between any two writes and a dead letter
\* replayed: no row stays where neither the dispatch, nor the sweep, nor the
\* monitor's recovery takes it up.
EveryEventSettles ==
  (\E e \in Events : Owed(e)) ~> (\A e \in Events : ~Owed(e))
=============================================================================
