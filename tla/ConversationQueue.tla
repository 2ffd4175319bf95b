------------------------- MODULE ConversationQueue -------------------------
(***************************************************************************)
(* The message queue of one Conversation (assistant/src/daemon/            *)
(* conversation-queue-manager.ts) and the work that fills and drains it:   *)
(* the send route, enqueueMessage, drainQueue and its dispatch (conver-    *)
(* sation-process.ts), the release and the finally of the agent loop, the  *)
(* send that interrupts the running turn (conversation-interrupt.ts), and  *)
(* Stop, steer, delete and teardown.                                       *)
(*                                                                         *)
(* A chain is one promise chain of the daemon: a send, the turn it starts, *)
(* the drain that the turn's finally kicks, the turn that the drain        *)
(* starts, and so on.  An action is the code between two awaits.  The      *)
(* processing flag is taken and released whole here; what its column and   *)
(* its retries do is the subject of ProcessingClaim.                       *)
(***************************************************************************)
EXTENDS Integers, FiniteSets, Sequences, SequencesExt

CONSTANTS Msgs,        \* the messages users will send
          Chains,      \* bound: promise chains alive at a time
          NoOne,       \* no chain holds the flag
          Sender,      \* the trust identity behind each message
          Slash,       \* the messages that are /compact and the like
          Hidden,      \* the messages with no client-visible queued row
          Size,        \* estimateItemBytes of each message
          MaxBytes,    \* the queue's byte budget
          Interrupts,  \* whether users press Stop, steer and tear down
          InterruptOnSend, \* the interrupt-on-send flag
          SendsFail,   \* whether a send's own persist may fail or be a repeat
          DrainsThrow  \* whether a dispatch, a repair or a hand-over may throw

ASSUME QueueAssumption ==
  /\ NoOne \notin Chains
  /\ Slash \subseteq Msgs /\ Hidden \subseteq Msgs
  /\ DOMAIN Sender = Msgs
  /\ Size \in [Msgs -> Nat]
  /\ MaxBytes \in Nat
  /\ {Interrupts, InterruptOnSend, SendsFail, DrainsThrow} \subseteq BOOLEAN

VARIABLES
  queue,           \* MessageQueue.items
  currentBytes,    \* MessageQueue.currentBytes
  pendingSteerRepair,
  pendingInterruptRepair,
  owner,           \* the chain that holds the processing flag
  abortController, \* "none", "live" or "aborted"
  barrier,         \* the turn whose finalization barrier is open
  stage,           \* where each chain is
  batch,           \* what the chain has taken and not yet dealt with
  turn,            \* what it has persisted for the turn it starts or runs
  origin,          \* how it got there: a send, an interrupting send, a drain
  steered,         \* drainQueue's local of that name
  attempt,         \* kickQueueDrain's: 1, and 2 in the retry
  outcome,         \* how each message ended
  view,            \* the row the sender's client shows for it
  stalled,         \* what a drain has given up on and none has taken since
  rank             \* the order in which messages were queued

queueVars == <<queue, currentBytes>>
armVars   == <<pendingSteerRepair, pendingInterruptRepair>>
lockVars  == <<owner, abortController, barrier>>
chainVars == <<stage, batch, turn, origin, steered, attempt>>
rowVars   == <<outcome, view, stalled, rank>>
vars == <<queueVars, armVars, lockVars, chainVars, rowVars>>

Stages == {"idle", "sending", "queued", "awaiting", "holding", "drain", "repairing",
           "repairingDurable", "resolving", "slashing", "persisting",
           "running", "finalizing",
           "interrupting", "unwound", "outlasting", "claiming", "fencing", "mending"}
Outcomes == {"unsent", "pending", "persisted", "answered", "duplicate",
             "error", "deleted", "rejected"}
Origins == {"send", "interrupt", "drain"}

TypeOK ==
  /\ queue \in Seq(Msgs)
  /\ currentBytes \in Int
  /\ pendingSteerRepair \in BOOLEAN /\ pendingInterruptRepair \in BOOLEAN
  /\ owner \in Chains \cup {NoOne}
  /\ abortController \in {"none", "live", "aborted"}
  /\ barrier \in Chains \cup {NoOne}
  /\ stage \in [Chains -> Stages]
  /\ batch \in [Chains -> Seq(Msgs)]
  /\ turn \in [Chains -> SUBSET Msgs]
  /\ origin \in [Chains -> Origins] /\ steered \in [Chains -> BOOLEAN]
  /\ attempt \in [Chains -> {1, 2}]
  /\ outcome \in [Msgs -> Outcomes]
  /\ view \in [Msgs -> {"none", "queued", "released", "deleted"}]
  /\ stalled \subseteq Msgs
  /\ rank \in [Msgs -> 0..Cardinality(Msgs)]

Init ==
  /\ queue = <<>> /\ currentBytes = 0
  /\ pendingSteerRepair = FALSE /\ pendingInterruptRepair = FALSE
  /\ owner = NoOne /\ abortController = "none" /\ barrier = NoOne
  /\ stage = [c \in Chains |-> "idle"]
  /\ batch = [c \in Chains |-> <<>>]
  /\ turn = [c \in Chains |-> {}]
  /\ origin = [c \in Chains |-> "send"]
  /\ steered = [c \in Chains |-> FALSE]
  /\ attempt = [c \in Chains |-> 1]
  /\ outcome = [m \in Msgs |-> "unsent"]
  /\ view = [m \in Msgs |-> "none"]
  /\ stalled = {}
  /\ rank = [m \in Msgs |-> 0]

isProcessing == owner # NoOne

\* The bytes of the items of s.
BytesOf(s) ==
  LET upTo[i \in 0 .. Len(s)] == IF i = 0 THEN 0 ELSE upTo[i - 1] + Size[s[i]]
  IN  upTo[Len(s)]

\* waitForIdle's resolvers: an interrupting send learns that the flag was freed.
NotifyIdle(f) == [d \in Chains |-> IF f[d] = "interrupting" THEN "unwound" ELSE f[d]]

\* The stage of the other chains after c has given back its own claim.
AmongReleased(c) == IF owner = c THEN NotifyIdle(stage) ELSE stage

\* Every variable of a chain that has nothing left to do; f is stage as the
\* caller leaves the other chains.
RestAmong(c, f, next) ==
  /\ stage' = [f EXCEPT ![c] = next]
  /\ batch' = [batch EXCEPT ![c] = <<>>]
  /\ turn' = [turn EXCEPT ![c] = {}]
  /\ origin' = [origin EXCEPT ![c] = "send"]
  /\ steered' = [steered EXCEPT ![c] = FALSE]
  /\ attempt' = [attempt EXCEPT ![c] = 1]

Rest(c, next) == RestAmong(c, stage, next)

----------------------------------------------------------------------------
(* The queue and its events.                                               *)

\* queueSend and enqueueMessage: a push that fits the byte budget (an empty
\* queue takes anything) and its message_queued, or the queue_full error; f is
\* stage as the caller leaves the other chains, refused where a refusal leaves c.
EnqueueElse(c, f, m, refused) ==
  IF currentBytes + Size[m] > MaxBytes /\ queue # <<>>
  THEN /\ outcome' = [outcome EXCEPT ![m] = "rejected"]
       /\ RestAmong(c, f, refused)
       /\ UNCHANGED <<queueVars, view, stalled, rank>>
  ELSE /\ queue' = Append(queue, m)
       /\ currentBytes' = currentBytes + Size[m]
       /\ rank' = [rank EXCEPT ![m] = Cardinality({n \in Msgs : rank[n] > 0}) + 1]
       /\ outcome' = [outcome EXCEPT ![m] = "pending"]
       /\ view' = [view EXCEPT ![m] = IF m \in Hidden THEN "none" ELSE "queued"]
       /\ RestAmong(c, f, "queued")
       /\ UNCHANGED <<stalled>>

EnqueueAmong(c, f, m) == EnqueueElse(c, f, m, "idle")

EnqueueMessage(c, m) == EnqueueAmong(c, stage, m)

\* announceDequeue: the row of m, if clients have one, is retired.
Announced(v, m) == [v EXCEPT ![m] = IF m \in Hidden THEN "none" ELSE "released"]

\* Variant: a requeue behind what arrived meanwhile.
RequeueAtBack(c) ==
  /\ queue' = queue \o batch[c]
  /\ currentBytes' = currentBytes + BytesOf(batch[c])
  /\ view' = [m \in Msgs |-> IF m \in ToSet(batch[c]) /\ view[m] = "released"
                             THEN "queued" ELSE view[m]]
  /\ UNCHANGED armVars

\* requeueDrainedMessages: back to the front, in order and whatever the
\* budget; a steered drain arms the next one; rows that were announced get
\* their message_requeued.
RequeueDrainedMessages(c) ==
  /\ queue' = batch[c] \o queue
  /\ currentBytes' = currentBytes + BytesOf(batch[c])
  /\ pendingSteerRepair' = (pendingSteerRepair \/ steered[c])
  /\ view' = [m \in Msgs |-> IF m \in ToSet(batch[c]) /\ view[m] = "released"
                             THEN "queued" ELSE view[m]]
  /\ UNCHANGED pendingInterruptRepair

----------------------------------------------------------------------------
(* A send.                                                                 *)

\* classifyInterruptEligibility, but for the actors: whether this sender may
\* stop that turn is left open.
MayInterrupt(m) == InterruptOnSend /\ m \notin Hidden /\ abortController # "none"

\* A send that is accepted and goes on, off the queue.
Accept(c, m, next) ==
  /\ outcome' = [outcome EXCEPT ![m] = "pending"]
  /\ stage' = [stage EXCEPT ![c] = next]
  /\ batch' = [batch EXCEPT ![c] = <<m>>]
  /\ origin' = [origin EXCEPT ![c] = IF next = "interrupting" THEN "interrupt" ELSE "send"]
  /\ UNCHANGED <<queueVars, turn, steered, attempt, view, stalled, rank>>

\* The route: a busy conversation queues the message, or stops its turn for
\* it; an idle one goes on to the awaits that precede the persist.
SendMessage(c, m) ==
  /\ stage[c] = "idle"
  /\ outcome[m] = "unsent"
  /\ \/ isProcessing /\ EnqueueMessage(c, m) /\ UNCHANGED lockVars
     \/ ~isProcessing /\ Accept(c, m, "sending") /\ UNCHANGED lockVars
     \/ /\ isProcessing /\ MayInterrupt(m)
        /\ Accept(c, m, "interrupting")
        /\ abortController' = "aborted"
        /\ UNCHANGED <<owner, barrier>>
  /\ UNCHANGED armVars

\* Variant: the flag is taken on the word of the check before the awaits.
CompleteSendUnchecked(c) ==
  /\ stage[c] = "sending"
  /\ owner' = c
  /\ abortController' = "live"
  /\ stage' = [stage EXCEPT ![c] = "persisting"]
  /\ UNCHANGED <<queueVars, armVars, barrier, batch, turn, origin, steered,
                 attempt, rowVars>>

\* completeSend takes the flag: a turn with a controller for a message, a
\* bare hold for a slash command, and the queue when the flag has gone.
CompleteSend(c) ==
  LET m == Head(batch[c]) IN
  /\ stage[c] = "sending"
  /\ IF isProcessing
     THEN EnqueueMessage(c, m) /\ UNCHANGED lockVars
     ELSE /\ owner' = c
          /\ abortController' = IF m \in Slash THEN abortController ELSE "live"
          /\ stage' = [stage EXCEPT
               ![c] = IF m \in Slash THEN "holding" ELSE "persisting"]
          /\ UNCHANGED <<queueVars, barrier, batch, turn, origin, steered,
                         attempt, rowVars>>
  /\ UNCHANGED armVars

\* The tail of queueSend, after its awaits: a message that landed on an idle
\* conversation kicks a drain of its own, behind the finalization barrier.
QueueSendKick(c) ==
  /\ stage[c] = "queued"
  /\ Rest(c, IF isProcessing THEN "idle"
             ELSE IF barrier = NoOne THEN "drain" ELSE "awaiting")
  /\ UNCHANGED <<queueVars, armVars, lockVars, rowVars>>

\* The /compact or /clean that holds the flag ends, gives back its own claim
\* and kicks the drain.
ReleaseHold(c) ==
  /\ stage[c] = "holding"
  /\ \E end \in {"answered", "duplicate", "error"} :
       outcome' = [outcome EXCEPT ![Head(batch[c])] = end]
  /\ owner' = IF owner = c THEN NoOne ELSE owner
  /\ RestAmong(c, AmongReleased(c), "drain")
  /\ UNCHANGED <<queueVars, armVars, abortController, barrier, view, stalled, rank>>

----------------------------------------------------------------------------
(* interruptRunningTurn, after its abort.                                  *)

\* An idle transition, and no turn boundary commit to wait for.
InterruptUnwound(c) ==
  /\ stage[c] = "unwound"
  /\ stage' = [stage EXCEPT ![c] = IF barrier = NoOne THEN "claiming" ELSE "outlasting"]
  /\ UNCHANGED <<queueVars, armVars, lockVars, batch, turn, origin, steered,
                 attempt, rowVars>>

\* The turn did not release in time, or its commit outran the budget: the
\* accepted message is queued.
InterruptBusy(c) ==
  /\ stage[c] \in {"interrupting", "outlasting"}
  /\ EnqueueMessage(c, Head(batch[c]))
  /\ UNCHANGED <<armVars, lockVars>>

\* The flag is claimed for the repair; a faster claim sends the message to
\* the queue.
InterruptClaim(c) ==
  /\ stage[c] = "claiming"
  /\ IF isProcessing
     THEN EnqueueMessage(c, Head(batch[c])) /\ UNCHANGED lockVars
     ELSE /\ owner' = c
          /\ stage' = [stage EXCEPT ![c] = "fencing"]
          /\ UNCHANGED <<queueVars, abortController, barrier, batch, turn, origin,
                         steered, attempt, rowVars>>
  /\ UNCHANGED armVars

\* The marker is durable and the forced repair begins: it disarms the drain.
InterruptFencePass(c) ==
  /\ stage[c] = "fencing"
  /\ stage' = [stage EXCEPT ![c] = "mending"]
  /\ steered' = [steered EXCEPT ![c] = pendingSteerRepair]
  /\ pendingSteerRepair' = FALSE /\ pendingInterruptRepair' = FALSE
  /\ UNCHANGED <<queueVars, lockVars, batch, turn, origin, attempt, rowVars>>

\* releaseProcessing of the interrupt's own claim.
ReleaseInterrupt(c) ==
  /\ owner' = IF owner = c THEN NoOne ELSE owner
  /\ UNCHANGED <<abortController, barrier>>

\* The repair is durable: the flag is given back, and the message goes the
\* way of any send that finds the conversation idle.
InterruptRepaired(c) ==
  /\ stage[c] = "mending"
  /\ ReleaseInterrupt(c)
  /\ stage' = [AmongReleased(c) EXCEPT ![c] = "sending"]
  /\ UNCHANGED <<queueVars, armVars, batch, turn, origin, steered, attempt, rowVars>>

\* The fence rejects the claim, or the repair cannot be made durable, which
\* arms the drain for it: the flag is given back and the message queued.
InterruptFails(c) ==
  /\ DrainsThrow
  /\ stage[c] \in {"fencing", "mending"}
  /\ IF stage[c] = "fencing" THEN UNCHANGED armVars
     ELSE pendingInterruptRepair' = TRUE /\ pendingSteerRepair' = steered[c]
  /\ ReleaseInterrupt(c)
  /\ EnqueueAmong(c, AmongReleased(c), Head(batch[c]))

\* Whatever completeSend throws for an interrupting send, which was answered
\* long ago, ends in queueAfterAcceptance: the flag it had taken is given back
\* and the message queued.  The finally of a /compact or /clean has kicked a
\* drain by then; it and the tail of queueSend are one drain here.
HandoverFails(c) ==
  /\ DrainsThrow
  /\ origin[c] = "interrupt"
  /\ stage[c] \in {"sending", "holding", "persisting"}
  /\ turn[c] = {}
  /\ owner' = IF owner = c THEN NoOne ELSE owner
  /\ abortController' = IF stage[c] = "persisting" THEN "none" ELSE abortController
  /\ \E m \in Msgs :
       /\ batch[c] = <<m>>
       /\ EnqueueElse(c, AmongReleased(c), m,
                      IF stage[c] = "holding" THEN "drain" ELSE "idle")
  /\ UNCHANGED <<armVars, barrier>>

----------------------------------------------------------------------------
(* drainQueue.                                                             *)

\* Variant: a run that does not split on the sender.
RunOfAnySender(q) ==
  IF Head(q) \in Slash THEN 1
  ELSE CHOOSE n \in 1..Len(q) :
         /\ \A i \in 1..n : q[i] \notin Slash
         /\ n < Len(q) => q[n + 1] \in Slash

\* The longest run at the head that buildPassthroughBatch coalesces; a slash
\* head is taken alone.
PassthroughRun(q) ==
  IF Head(q) \in Slash THEN 1
  ELSE CHOOSE n \in 1..Len(q) :
         /\ \A i \in 1..n : q[i] \notin Slash /\ Sender[q[i]] = Sender[q[1]]
         /\ n < Len(q) => \/ q[n + 1] \in Slash
                          \/ Sender[q[n + 1]] # Sender[q[1]]

\* The pop and the first synchronous stretch of the dispatch: a held flag
\* sends everything back untouched, and a steer is armed again; else the
\* dequeue of the head is announced.
DrainTake(c, st) ==
  LET n == IF st THEN 1 ELSE PassthroughRun(queue) IN
  \/ /\ queue = <<>> \/ isProcessing
     /\ Rest(c, "idle")
     /\ pendingSteerRepair' = (pendingSteerRepair \/ (st /\ queue # <<>>))
     /\ UNCHANGED <<queueVars, pendingInterruptRepair, view, stalled>>
  \/ /\ queue # <<>> /\ ~isProcessing
     /\ batch' = [batch EXCEPT ![c] = SubSeq(queue, 1, n)]
     /\ queue' = SubSeq(queue, n + 1, Len(queue))
     /\ currentBytes' = currentBytes - BytesOf(SubSeq(queue, 1, n))
     /\ view' = Announced(view, Head(queue))
     /\ stalled' = stalled \ ToSet(SubSeq(queue, 1, n))
     /\ stage' = [stage EXCEPT ![c] = "resolving"]
     /\ turn' = [turn EXCEPT ![c] = {}]
     /\ origin' = [origin EXCEPT ![c] = "drain"]
     /\ steered' = [steered EXCEPT ![c] = st]
     /\ UNCHANGED <<armVars, attempt>>

\* drainQueue: with nothing armed it takes at once; else it disarms, and the
\* repair row is written behind an await.
DrainQueue(c) ==
  /\ stage[c] = "drain"
  /\ \/ /\ ~pendingSteerRepair /\ ~pendingInterruptRepair
        /\ DrainTake(c, FALSE)
     \/ /\ pendingSteerRepair \/ pendingInterruptRepair
        /\ pendingSteerRepair' = FALSE /\ pendingInterruptRepair' = FALSE
        /\ steered' = [steered EXCEPT ![c] = pendingSteerRepair]
        /\ stage' = [stage EXCEPT ![c] = IF pendingInterruptRepair
                                        THEN "repairingDurable" ELSE "repairing"]
        /\ UNCHANGED <<queueVars, batch, turn, origin, attempt, view, stalled>>
  /\ UNCHANGED <<lockVars, outcome, rank>>

\* The repair is done, and the drain takes what its own local says.
RepairDone(c) ==
  /\ stage[c] \in {"repairing", "repairingDurable"}
  /\ DrainTake(c, steered[c])
  /\ UNCHANGED <<lockVars, outcome, rank>>

\* Variant: the retries are counted on without end.
DrainRejectedAgain(c) ==
  /\ batch' = [batch EXCEPT ![c] = <<>>]
  /\ turn' = [turn EXCEPT ![c] = {}]
  /\ stage' = [stage EXCEPT ![c] = "drain"]
  /\ attempt' = [attempt EXCEPT ![c] = @ + 1]
  /\ UNCHANGED <<origin, steered, stalled>>

\* kickQueueDrain's catch: one retry, then every visible queued sender is
\* told and the messages stay queued.
DrainRejected(c) ==
  /\ batch' = [batch EXCEPT ![c] = <<>>]
  /\ turn' = [turn EXCEPT ![c] = {}]
  /\ IF attempt[c] = 1
     THEN /\ stage' = [stage EXCEPT ![c] = "drain"]
          /\ attempt' = [attempt EXCEPT ![c] = 2]
          /\ UNCHANGED stalled
     ELSE /\ stage' = [stage EXCEPT ![c] = "idle"]
          /\ attempt' = [attempt EXCEPT ![c] = 1]
          /\ stalled' = stalled \cup ToSet(queue')
  /\ UNCHANGED <<origin, steered>>

\* The repair that had to be durable fails: both flags are put back as this
\* call found them.
RepairFails(c) ==
  /\ DrainsThrow
  /\ stage[c] = "repairingDurable"
  /\ pendingInterruptRepair' = TRUE
  /\ pendingSteerRepair' = steered[c]
  /\ UNCHANGED queueVars
  /\ DrainRejected(c)
  /\ UNCHANGED <<lockVars, outcome, view, rank>>

\* Variant: what the dispatch had popped is not restored.
DispatchThrowsUnrestored(c) ==
  /\ DrainsThrow
  /\ stage[c] = "resolving"
  /\ UNCHANGED <<queueVars, armVars, view>>
  /\ DrainRejected(c)
  /\ UNCHANGED <<lockVars, outcome, rank>>

\* dispatchDrainWithRestore: a throw before the turn takes over.
DispatchThrows(c) ==
  /\ DrainsThrow
  /\ stage[c] = "resolving"
  /\ RequeueDrainedMessages(c)
  /\ DrainRejected(c)
  /\ UNCHANGED <<lockVars, outcome, rank>>

\* The head is resolved: a slash command is executed without the flag; a
\* message takes it, or goes back when another claim was faster.
ResolveSlash(c) ==
  /\ stage[c] = "resolving"
  /\ \/ /\ Head(batch[c]) \in Slash
        /\ stage' = [stage EXCEPT ![c] = "slashing"]
        /\ UNCHANGED <<queueVars, armVars, lockVars, batch, turn, origin,
                       steered, attempt, view>>
     \/ /\ Head(batch[c]) \notin Slash /\ isProcessing
        /\ RequeueDrainedMessages(c)
        /\ Rest(c, "idle")
        /\ UNCHANGED lockVars
     \/ /\ Head(batch[c]) \notin Slash /\ ~isProcessing
        /\ owner' = c
        /\ abortController' = "live"
        /\ stage' = [stage EXCEPT ![c] = "persisting"]
        /\ UNCHANGED <<queueVars, armVars, barrier, batch, turn, origin,
                       steered, attempt, view>>
  /\ UNCHANGED <<outcome, stalled, rank>>

\* The drained slash command is over, and the drain goes on.
SlashDone(c) ==
  /\ stage[c] = "slashing"
  /\ \E end \in {"answered", "error"} :
       outcome' = [outcome EXCEPT ![Head(batch[c])] = end]
  /\ batch' = [batch EXCEPT ![c] = <<>>]
  /\ stage' = [stage EXCEPT ![c] = "drain"]
  /\ UNCHANGED <<queueVars, armVars, lockVars, turn, origin, steered, attempt,
                 view, stalled, rank>>

----------------------------------------------------------------------------
(* The persist, of a send or of a drained batch, and the turn.             *)

\* Whoever waits at the finalization barrier goes on: with its drain, or with
\* the claim of an interrupt.
Settled(f) == [d \in Chains |-> CASE f[d] = "awaiting" -> "drain"
                                  [] f[d] = "outlasting" -> "claiming"
                                  [] OTHER -> f[d]]

\* The agent loop of c starts: it opens its barrier, and settles the one
\* that is still open.
StartLoop(c) ==
  /\ stage' = [Settled(stage) EXCEPT ![c] = "running"]
  /\ barrier' = c
  /\ batch' = [batch EXCEPT ![c] = <<>>]

\* The row of the next member is written.  The loop starts after the last
\* one, or at once when the user has aborted: the tails are not persisted.
PersistDone(c) ==
  LET m == Head(batch[c]) rest == Tail(batch[c]) IN
  /\ stage[c] = "persisting"
  /\ outcome' = [outcome EXCEPT ![m] = "persisted"]
  /\ turn' = [turn EXCEPT ![c] = @ \cup {m}]
  /\ \/ /\ rest = <<>> \/ abortController = "aborted"
        /\ StartLoop(c)
        /\ UNCHANGED view
     \/ /\ rest # <<>> /\ abortController # "aborted"
        /\ batch' = [batch EXCEPT ![c] = rest]
        /\ view' = Announced(view, Head(rest))
        /\ UNCHANGED <<stage, barrier>>
  /\ UNCHANGED <<queueVars, armVars, owner, abortController, origin, steered,
                 attempt, stalled, rank>>

\* Variant: the failed head stays among the remaining ones.
HeadSkippedKept(c) ==
  /\ stage[c] = "persisting"
  /\ turn[c] = {}
  /\ origin[c] = "drain"
  /\ outcome' = [outcome EXCEPT ![Head(batch[c])] = "error"]
  /\ owner' = NoOne /\ abortController' = "none"
  /\ stage' = [stage EXCEPT ![c] = "resolving"]
  /\ UNCHANGED <<queueVars, armVars, barrier, batch, turn, origin, steered,
                 attempt, view, stalled, rank>>

\* The head turns out a duplicate or its persist fails: the flag is given
\* back.  A drain goes on with the tails, or with the queue; a send is over
\* (the failed persist of an interrupting send is HandoverFails).
HeadSkipped(c) ==
  LET rest == Tail(batch[c]) IN
  /\ stage[c] = "persisting"
  /\ turn[c] = {}
  /\ origin[c] = "drain" \/ SendsFail
  /\ \E end \in {"duplicate", "error"} :
       /\ origin[c] = "interrupt" => end = "duplicate"
       /\ outcome' = [outcome EXCEPT ![Head(batch[c])] = end]
  /\ owner' = IF owner = c THEN NoOne ELSE owner
  /\ abortController' = "none"
  /\ batch' = [batch EXCEPT ![c] = rest]
  /\ stage' = [AmongReleased(c) EXCEPT
       ![c] = IF rest # <<>> THEN "resolving"
              ELSE IF origin[c] = "drain" THEN "drain" ELSE "idle"]
  /\ view' = IF rest # <<>> THEN Announced(view, Head(rest)) ELSE view
  /\ UNCHANGED <<queueVars, armVars, barrier, turn, origin, steered, attempt,
                 stalled, rank>>

\* A tail is skipped: the turn of the head takes the rest.
TailSkipped(c) ==
  LET rest == Tail(batch[c]) IN
  /\ stage[c] = "persisting"
  /\ turn[c] # {}
  /\ \E end \in {"duplicate", "error"} :
       outcome' = [outcome EXCEPT ![Head(batch[c])] = end]
  /\ \/ /\ rest = <<>>
        /\ StartLoop(c)
        /\ UNCHANGED view
     \/ /\ rest # <<>>
        /\ batch' = [batch EXCEPT ![c] = rest]
        /\ view' = Announced(view, Head(rest))
        /\ UNCHANGED <<stage, barrier>>
  /\ UNCHANGED <<queueVars, armVars, owner, abortController, turn, origin,
                 steered, attempt, stalled, rank>>

\* releaseTurn: the conversation is free while the commit is still to come.
ReleaseTurn(c) ==
  /\ stage[c] = "running"
  /\ owner' = NoOne
  /\ abortController' = "none"
  /\ RestAmong(c, NotifyIdle(stage), "finalizing")
  /\ UNCHANGED <<queueVars, armVars, barrier, rowVars>>

\* Variant: a finally that does not kick the drain.
FinallyWithoutKick(c) ==
  /\ stage[c] = "finalizing"
  /\ Rest(c, "idle")
  /\ UNCHANGED <<queueVars, armVars, lockVars, rowVars>>

\* The turn-boundary commit is done, or has outrun its budget and keeps the
\* barrier open, and the finally kicks the drain.
TurnFinally(c) ==
  LET f == [stage EXCEPT ![c] = "drain"] IN
  /\ stage[c] = "finalizing"
  /\ \/ barrier = c /\ barrier' = NoOne /\ stage' = Settled(f)
     \/ UNCHANGED barrier /\ stage' = f
  /\ UNCHANGED <<queueVars, armVars, owner, abortController, batch, turn, origin,
                 steered, attempt, rowVars>>

\* Variant: the settled commit clears the barrier and wakes nobody.
OutstandingCommitUnheard ==
  /\ barrier # NoOne
  /\ stage[barrier] \notin {"running", "finalizing"}
  /\ barrier' = NoOne
  /\ UNCHANGED <<stage, queueVars, armVars, owner, abortController, batch, turn, origin,
                 steered, attempt, rowVars>>

\* A commit that outran its turn settles.
OutstandingCommitSettles ==
  /\ barrier # NoOne
  /\ stage[barrier] \notin {"running", "finalizing"}
  /\ barrier' = NoOne
  /\ stage' = Settled(stage)
  /\ UNCHANGED <<queueVars, armVars, owner, abortController, batch, turn, origin,
                 steered, attempt, rowVars>>

----------------------------------------------------------------------------
(* What users do to the queue.                                             *)

\* The flag of abortConversation and of steerToMessage: a controller is
\* signalled, a held flag without one is force-cleared.
SignalOrClear ==
  /\ abortController' = IF isProcessing /\ abortController # "none"
                        THEN "aborted" ELSE abortController
  /\ owner' = IF abortController = "none" THEN NoOne ELSE owner
  /\ UNCHANGED barrier

\* The stage of the chains after SignalOrClear.
AmongCleared ==
  IF isProcessing /\ abortController = "none" THEN NotifyIdle(stage) ELSE stage

\* A drain kicked from a handler, on a chain of its own.
KickDrain(kick) ==
  IF kick THEN \E c \in Chains : stage[c] = "idle" /\ RestAmong(c, AmongCleared, "drain")
  ELSE /\ stage' = AmongCleared
       /\ UNCHANGED <<batch, turn, origin, steered, attempt>>

\* Stop: the queue is kept and its drain is armed for the repair; with no
\* live turn to kick that drain, Stop does.
UserInterrupt ==
  /\ Interrupts
  /\ SignalOrClear
  /\ pendingInterruptRepair' = (pendingInterruptRepair \/ queue # <<>>)
  /\ KickDrain(queue # <<>> /\ isProcessing /\ abortController = "none")
  /\ UNCHANGED <<queueVars, pendingSteerRepair, rowVars>>

\* Variant: the queued rows are not closed.
DiscardQueueSilently ==
  /\ Interrupts
  /\ SignalOrClear
  /\ queue' = <<>> /\ currentBytes' = 0
  /\ outcome' = [m \in Msgs |-> IF m \in ToSet(queue) THEN "deleted" ELSE outcome[m]]
  /\ KickDrain(FALSE)
  /\ UNCHANGED <<armVars, view, stalled, rank>>

\* Any other abort: the queue goes, and each sender is told.
DiscardQueueOnAbort ==
  /\ Interrupts
  /\ SignalOrClear
  /\ queue' = <<>> /\ currentBytes' = 0
  /\ outcome' = [m \in Msgs |-> IF m \in ToSet(queue) THEN "deleted" ELSE outcome[m]]
  /\ view' = [m \in Msgs |-> IF m \in ToSet(queue) \ Hidden THEN "deleted" ELSE view[m]]
  /\ KickDrain(FALSE)
  /\ UNCHANGED <<armVars, stalled, rank>>

\* findIndex by request id, and the splice of that item.
Spliced(m) == RemoveAt(queue, CHOOSE i \in DOMAIN queue : queue[i] = m)

\* steerToMessage.
SteerToMessage(m) ==
  /\ Interrupts
  /\ isProcessing
  /\ m \in ToSet(queue)
  /\ queue' = <<m>> \o Spliced(m)
  /\ pendingSteerRepair' = TRUE
  /\ SignalOrClear
  /\ KickDrain(abortController = "none")
  /\ UNCHANGED <<currentBytes, pendingInterruptRepair, outcome, view, stalled, rank>>

\* Variant: the bytes of a deleted message stay counted.
DeleteUncounted(m) ==
  /\ Interrupts
  /\ m \in ToSet(queue)
  /\ queue' = Spliced(m)
  /\ outcome' = [outcome EXCEPT ![m] = "deleted"]
  /\ view' = IF m \in Hidden THEN view ELSE [view EXCEPT ![m] = "deleted"]
  /\ UNCHANGED <<currentBytes, armVars, lockVars, chainVars, stalled, rank>>

\* deleteQueuedMessage.
DeleteQueuedMessage(m) ==
  /\ Interrupts
  /\ m \in ToSet(queue)
  /\ queue' = Spliced(m)
  /\ currentBytes' = currentBytes - Size[m]
  /\ outcome' = [outcome EXCEPT ![m] = "deleted"]
  /\ view' = IF m \in Hidden THEN view ELSE [view EXCEPT ![m] = "deleted"]
  /\ UNCHANGED <<armVars, lockVars, chainVars, stalled, rank>>

----------------------------------------------------------------------------
\* A dispatch that awaits resolveSlash waits for microtasks only: another
\* chain's claim may come first, no request or timer can.
Microtasks ==
  \E c \in Chains :
    \/ CompleteSend(c) \/ ResolveSlash(c) \/ DispatchThrows(c)
    \/ InterruptUnwound(c) \/ InterruptClaim(c)

Tasks ==
  /\ \A c \in Chains : stage[c] # "resolving"
  /\ \/ \E c \in Chains :
          \/ QueueSendKick(c) \/ ReleaseHold(c)
          \/ DrainQueue(c) \/ RepairDone(c) \/ RepairFails(c) \/ SlashDone(c)
          \/ PersistDone(c) \/ HeadSkipped(c) \/ TailSkipped(c)
          \/ ReleaseTurn(c) \/ TurnFinally(c)
          \/ InterruptBusy(c) \/ InterruptFencePass(c)
          \/ InterruptRepaired(c) \/ InterruptFails(c) \/ HandoverFails(c)
     \/ \E c \in Chains, m \in Msgs : SendMessage(c, m)
     \/ \E m \in Msgs : SteerToMessage(m) \/ DeleteQueuedMessage(m)
     \/ OutstandingCommitSettles \/ UserInterrupt \/ DiscardQueueOnAbort

Next == Microtasks \/ Tasks

Spec == Init /\ [][Next]_vars

\* A chain's own steps: what it awaits resolves, and a turn ends.
ChainStep(c) ==
  \/ CompleteSend(c) \/ ResolveSlash(c) \/ DispatchThrows(c)
  \/ InterruptUnwound(c) \/ InterruptClaim(c)
  \/ /\ \A d \in Chains : stage[d] # "resolving"
     /\ \/ QueueSendKick(c) \/ ReleaseHold(c)
        \/ DrainQueue(c) \/ RepairDone(c) \/ RepairFails(c) \/ SlashDone(c)
        \/ PersistDone(c) \/ HeadSkipped(c) \/ TailSkipped(c)
        \/ ReleaseTurn(c) \/ TurnFinally(c)
        \/ InterruptBusy(c) \/ InterruptFencePass(c)
        \/ InterruptRepaired(c) \/ InterruptFails(c) \/ HandoverFails(c)

FairSpec ==
  /\ Spec
  /\ \A c \in Chains : WF_vars(ChainStep(c))
  /\ WF_vars(OutstandingCommitSettles /\ \A d \in Chains : stage[d] # "resolving")

----------------------------------------------------------------------------
(* Properties.                                                             *)

\* A message whose send was accepted is in the queue or in the hands of one
\* chain until it has an outcome: no requeue, restore, retry or abort drops
\* one (dispatchDrainWithRestore, preserveQueueAcrossInterrupt).
NothingLost ==
  \A m \in Msgs : outcome[m] = "pending" =>
    m \in ToSet(queue) \/ \E c \in Chains : m \in ToSet(batch[c])

\* And it is there once: a restore never brings back a message that another
\* chain took or whose sender was told its end (restoredDrainErrors).
HeldOnce ==
  /\ IsInjective(queue)
  /\ \A c \in Chains :
       /\ IsInjective(batch[c])
       /\ ToSet(batch[c]) \cap ToSet(queue) = {}
       /\ \A d \in Chains \ {c} : ToSet(batch[c]) \cap ToSet(batch[d]) = {}
       /\ \A m \in ToSet(batch[c]) : outcome[m] = "pending"
  /\ \A m \in ToSet(queue) : outcome[m] = "pending"

\* The queue events come in pairs: a client shows a queued row for what is in
\* the queue and for nothing that has ended (announceDequeue,
\* message_requeued, message_queued_deleted).
ClientRowsMatch ==
  \A m \in Msgs \ Hidden :
    /\ m \in ToSet(queue) => view[m] = "queued"
    /\ outcome[m] # "pending" => view[m] # "queued"

\* The byte accounting agrees with the items through push, pop, requeue,
\* promote, delete and clear.
BytesMatchQueue == currentBytes = BytesOf(queue)

\* Queued messages never sit behind an idle conversation, unless a drain gave
\* them up after its retry, and told their visible senders (drainQueue's doc,
\* queueSend's kick, kickQueueDrain).
NothingStranded ==
  queue # <<>> /\ (\A c \in Chains : stage[c] = "idle")
    => ToSet(queue) \subseteq stalled

\* Drained messages start in the order in which they were queued, whatever
\* was requeued or restored in between.
StartsInOrder ==
  [][ \A c \in Chains :
        stage[c] = "resolving" /\ stage'[c] \in {"persisting", "slashing"}
          => \A n \in ToSet(queue') : rank[n] > rank[Head(batch[c])] ]_vars

\* The conversation keeps what MessageLifecycle promises of its messages: one
\* turn at a time, of one sender, and one end for each message, through every
\* requeue, restore, interrupt and race for the flag.
Lifecycle == INSTANCE MessageLifecycle
               WITH life <- outcome, turn <- UNION {turn[c] : c \in Chains}
KeepsPromises == Lifecycle!Spec

\* Every accepted message comes to an end, under Stop, steer, teardown and
\* interrupting sends too, whose hand-overs and repairs may fail: a drain that
\* finds the flag held is always followed by another.  The one excuse is a
\* drain that gave up on it after the retry, with nobody at work.
EveryMessageEnds ==
  []<>(\A m \in Msgs : \/ outcome[m] # "pending"
                       \/ m \in stalled /\ \A c \in Chains : stage[c] = "idle")

============================================================================
