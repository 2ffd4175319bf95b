-------------------------- MODULE ProcessingClaim --------------------------
(***************************************************************************)
(* The processing flag of one Conversation (assistant/src/daemon/          *)
(* conversation.ts) and everyone who takes and releases it:                *)
(*                                                                         *)
(*   Turns   - a user turn: persistUserMessage takes the flag behind the   *)
(*             marker fence and the agent loop releases it; or the retry   *)
(*             route, which sets the flag and runs the loop;               *)
(*   Fenced  - a holder that runs no agent loop: /compact, /clean, a       *)
(*             canned reply, a live-voice photo, the interrupt's repair;   *)
(*   Routes  - the summarize route: sets the flag and installs an abort    *)
(*             controller of its own;                                      *)
(*   Wakes   - an agent wake: waits for idle, sets the flag, and installs  *)
(*             no abort controller.                                        *)
(*                                                                         *)
(* The daemon is single threaded: an action is the code between two        *)
(* awaits.  Claim numbers double as the timestamps written to the          *)
(* processing_started_at column, so they go on increasing over a restart.  *)
(***************************************************************************)
EXTENDS Integers, FiniteSets

CONSTANTS Turns, Fenced, Routes, Wakes,
          NoOne,        \* abortController = null
          MaxRetries,   \* withSqliteRetry's retries after the first attempt
          MaxClaims,    \* bound: claims ever made
          ClearSlots,   \* bound: detached clear retries pending at a time
          StopEnabled   \* whether users press Stop

ASSUME ClaimAssumption ==
  /\ MaxRetries \in Nat \ {0}
  /\ MaxClaims \in Nat
  /\ StopEnabled \in BOOLEAN
  /\ NoOne \notin Turns \cup Fenced \cup Routes \cup Wakes
  /\ Turns \cap Fenced = {} /\ Turns \cap Routes = {} /\ Turns \cap Wakes = {}
  /\ Fenced \cap Routes = {} /\ Fenced \cap Wakes = {} /\ Routes \cap Wakes = {}

Procs == Turns \cup Fenced \cup Routes \cup Wakes

VARIABLES
  processing,           \* _processing
  processingOwner,      \* the live claim, 0 while the flag is free
  nextProcessingOwner,
  startedAt,            \* the processing_started_at column, 0 for NULL
  clears,               \* retries left of each detached clear, 0 for none
  pc,                   \* where each process is
  claim,                \* the claim each process took last
  marker,               \* that claim's marker write
  retries,              \* and the retries it has left
  abortController,      \* the process whose controller is installed
  signalled,            \* the controllers that have been aborted
  bootTime,             \* claims up to here belong to an earlier daemon
  sweepDue              \* the monitor has not swept since the last boot

flagVars == <<processing, processingOwner, nextProcessingOwner>>
markVars == <<claim, marker, retries>>
ctlVars  == <<abortController, signalled>>
bootVars == <<bootTime, sweepDue>>
vars == <<flagVars, startedAt, clears, pc, markVars, ctlVars, bootVars>>

PastFence == {"persisting", "loading", "running", "holding"}

TypeOK ==
  /\ processing \in BOOLEAN
  /\ processingOwner \in 0..MaxClaims
  /\ nextProcessingOwner \in 0..MaxClaims
  /\ startedAt \in 0..MaxClaims
  /\ clears \in [ClearSlots -> 0..MaxRetries]
  /\ pc \in [Procs -> {"idle", "fencing", "waiting", "woken"} \cup PastFence]
  /\ claim \in [Procs -> 0..MaxClaims]
  /\ marker \in [Procs -> {"none", "retrying", "landed", "failed"}]
  /\ retries \in [Procs -> 0..MaxRetries]
  /\ abortController \in Procs \cup {NoOne}
  /\ signalled \subseteq Procs
  /\ bootTime \in 0..MaxClaims
  /\ sweepDue \in BOOLEAN

Init ==
  /\ processing = FALSE
  /\ processingOwner = 0
  /\ nextProcessingOwner = 0
  /\ startedAt = 0
  /\ clears = [s \in ClearSlots |-> 0]
  /\ pc = [p \in Procs |-> "idle"]
  /\ claim = [p \in Procs |-> 0]
  /\ marker = [p \in Procs |-> "none"]
  /\ retries = [p \in Procs |-> 0]
  /\ abortController = NoOne
  /\ signalled = {}
  /\ bootTime = 0
  /\ sweepDue = FALSE

----------------------------------------------------------------------------
(* The operations of the flag.                                             *)

\* waitForIdle's resolvers: a release wakes every waiter.
NotifyIdle(f) ==
  [p \in Procs |-> IF f[p] = "waiting" THEN "woken" ELSE f[p]]

\* mirrorProcessingCleared's first attempt, in the step of the release: it
\* lands, or loses to SQLITE_BUSY and retries detached, or fails for good.
MirrorCleared ==
  \/ startedAt' = 0 /\ UNCHANGED clears
  \/ \E s \in ClearSlots :
       /\ clears[s] = 0
       /\ clears' = [clears EXCEPT ![s] = MaxRetries]
       /\ UNCHANGED startedAt
  \/ UNCHANGED <<startedAt, clears>>

\* setProcessing(false); f is pc as the caller leaves it.
ClearProcessing(f) ==
  /\ processing' = FALSE
  /\ processingOwner' = 0
  /\ UNCHANGED nextProcessingOwner
  /\ MirrorCleared
  /\ pc' = NotifyIdle(f)

\* Variant: a release that does not ask whose claim is live.
ReleaseAnyClaim(p, f) == ClearProcessing(f)

\* releaseProcessing(owner): clears only the claim it names.
ReleaseProcessing(p, f) ==
  IF processingOwner = claim[p]
  THEN ClearProcessing(f)
  ELSE pc' = f /\ UNCHANGED <<flagVars, startedAt, clears>>

\* setProcessing(true) by p: the column is written in the same step.
SetProcessing(p) ==
  /\ nextProcessingOwner < MaxClaims
  /\ processing' = TRUE
  /\ nextProcessingOwner' = nextProcessingOwner + 1
  /\ processingOwner' = nextProcessingOwner + 1
  /\ startedAt' = nextProcessingOwner + 1
  /\ claim' = [claim EXCEPT ![p] = nextProcessingOwner + 1]
  /\ UNCHANGED <<clears, marker, retries>>

\* setProcessing(true) whose column write throws: the flag and the owner are
\* put back, the number is spent.
SetProcessingThrows ==
  /\ nextProcessingOwner < MaxClaims
  /\ nextProcessingOwner' = nextProcessingOwner + 1
  /\ UNCHANGED <<processing, processingOwner, startedAt, clears, markVars>>

\* acquireProcessing by p of a free flag, and the first attempt of
\* mirrorProcessingStarted, which runs in the same step.
AcquireProcessing(p) ==
  LET owner == nextProcessingOwner + 1 IN
  /\ ~processing
  /\ nextProcessingOwner < MaxClaims
  /\ processing' = TRUE
  /\ nextProcessingOwner' = owner
  /\ processingOwner' = owner
  /\ claim' = [claim EXCEPT ![p] = owner]
  /\ \E first \in {"landed", "retrying", "failed"} :
       /\ marker' = [marker EXCEPT ![p] = first]
       /\ startedAt' = IF first = "landed" THEN owner ELSE startedAt
       /\ retries' = [retries EXCEPT
            ![p] = IF first = "retrying" THEN MaxRetries ELSE 0]
  /\ UNCHANGED clears

\* Variant: the retry does not ask whether its claim is still live.
MarkerRetryBlind(p) ==
  /\ marker[p] = "retrying"
  /\ marker' = [marker EXCEPT ![p] = "landed"]
  /\ startedAt' = claim[p]
  /\ UNCHANGED <<flagVars, retries, clears, pc, claim, ctlVars, bootVars>>

\* A later attempt of mirrorProcessingStarted: it writes only for the live
\* claim, and an attempt for a claim since lost resolves without writing.
MarkerRetry(p) ==
  /\ marker[p] = "retrying"
  /\ \/ /\ processingOwner # claim[p]
        /\ marker' = [marker EXCEPT ![p] = "landed"]
        /\ UNCHANGED <<startedAt, retries>>
     \/ /\ processingOwner = claim[p]
        /\ marker' = [marker EXCEPT ![p] = "landed"]
        /\ startedAt' = claim[p]
        /\ UNCHANGED retries
     \/ /\ processingOwner = claim[p]
        /\ retries' = [retries EXCEPT ![p] = @ - 1]
        /\ marker' = IF retries[p] > 1 THEN marker
                     ELSE [marker EXCEPT ![p] = "failed"]
        /\ UNCHANGED startedAt
  /\ UNCHANGED <<flagVars, clears, pc, claim, ctlVars, bootVars>>

\* Variant: the retry does not ask whether the flag was taken since.
ClearRetryBlind(s) ==
  /\ clears[s] > 0
  /\ clears' = [clears EXCEPT ![s] = 0]
  /\ startedAt' = 0
  /\ UNCHANGED <<flagVars, pc, markVars, ctlVars, bootVars>>

\* Variant: the retry budget is counted past its end.
ClearRetryEndless(s) ==
  /\ ~processing
  /\ clears' = [clears EXCEPT ![s] = @ - 1]
  /\ UNCHANGED <<flagVars, startedAt, pc, markVars, ctlVars, bootVars>>

\* A later attempt of mirrorProcessingCleared: it writes only while the flag
\* is free, and gives up when its retries are spent.
ClearRetry(s) ==
  /\ clears[s] > 0
  /\ \/ /\ processing
        /\ clears' = [clears EXCEPT ![s] = 0]
        /\ UNCHANGED startedAt
     \/ /\ ~processing
        /\ clears' = [clears EXCEPT ![s] = 0]
        /\ startedAt' = 0
     \/ /\ ~processing
        /\ clears' = [clears EXCEPT ![s] = @ - 1]
        /\ UNCHANGED startedAt
  /\ UNCHANGED <<flagVars, pc, markVars, ctlVars, bootVars>>

----------------------------------------------------------------------------
(* acquireProcessingFenced and the holders that use it.                    *)

\* persistUserMessage, up to its first await: it installs its controller and
\* takes the flag.  A busy flag is an error to the caller and no state change.
PersistUserMessage(t) ==
  /\ pc[t] = "idle"
  /\ AcquireProcessing(t)
  /\ pc' = [pc EXCEPT ![t] = "fencing"]
  /\ abortController' = t
  /\ signalled' = signalled \ {t}
  /\ UNCHANGED bootVars

\* A fenced holder without a turn takes the flag.
AcquireFenced(h) ==
  /\ pc[h] = "idle"
  /\ AcquireProcessing(h)
  /\ pc' = [pc EXCEPT ![h] = "fencing"]
  /\ UNCHANGED <<ctlVars, bootVars>>

\* ensureProcessingMarker resolves: the marker landed and the claim is live.
FencePass(p) ==
  /\ pc[p] = "fencing"
  /\ marker[p] = "landed"
  /\ processingOwner = claim[p]
  /\ pc' = [pc EXCEPT ![p] = IF p \in Turns THEN "persisting" ELSE "holding"]
  /\ UNCHANGED <<flagVars, startedAt, clears, markVars, ctlVars, bootVars>>

\* ensureProcessingMarker rejects: the claim is lost, or the marker never
\* landed.  The claim is given back, and persistUserMessage's catch drops the
\* installed controller whoever's it is.
FenceReject(p) ==
  /\ pc[p] = "fencing"
  /\ \/ marker[p] = "failed"
     \/ marker[p] = "landed" /\ processingOwner # claim[p]
  /\ ReleaseProcessing(p, [pc EXCEPT ![p] = "idle"])
  /\ abortController' = IF p \in Turns THEN NoOne ELSE abortController
  /\ UNCHANGED <<markVars, signalled, bootVars>>

\* A fenced holder is done and names the claim it took.
ReleaseFenced(h) ==
  /\ pc[h] = "holding"
  /\ ReleaseProcessing(h, [pc EXCEPT ![h] = "idle"])
  /\ UNCHANGED <<markVars, ctlVars, bootVars>>

\* Variant: the abandoned persist keeps the flag.
PersistAbandonedLatched(t) ==
  /\ pc[t] = "persisting"
  /\ pc' = [pc EXCEPT ![t] = "idle"]
  /\ abortController' = NoOne
  /\ UNCHANGED <<flagVars, startedAt, clears, markVars, signalled, bootVars>>

\* The message turns out a duplicate, or its insert fails.
PersistAbandoned(t) ==
  /\ pc[t] = "persisting"
  /\ ReleaseProcessing(t, [pc EXCEPT ![t] = "idle"])
  /\ abortController' = NoOne
  /\ UNCHANGED <<markVars, signalled, bootVars>>

----------------------------------------------------------------------------
(* The agent loop of a turn.                                               *)

\* runAgentLoop throws when no controller is installed, and its caller only
\* reports the error.
StartLoop(t) ==
  /\ pc[t] \in {"persisting", "loading"}
  /\ abortController # NoOne
  /\ pc' = [pc EXCEPT ![t] = "running"]
  /\ UNCHANGED <<flagVars, startedAt, clears, markVars, ctlVars, bootVars>>

StartLoopThrows(t) ==
  /\ pc[t] \in {"persisting", "loading"}
  /\ abortController = NoOne
  /\ pc' = [pc EXCEPT ![t] = "idle"]
  /\ UNCHANGED <<flagVars, startedAt, clears, markVars, ctlVars, bootVars>>

\* releaseTurn.
ReleaseTurn(t) ==
  /\ pc[t] = "running"
  /\ abortController' = NoOne
  /\ ClearProcessing([pc EXCEPT ![t] = "idle"])
  /\ UNCHANGED <<markVars, signalled, bootVars>>

\* The retry route: check and claim in one step, then the history is loaded
\* and the loop runs on the anchor message.
RetryTurn(t) ==
  /\ pc[t] = "idle"
  /\ ~processing
  /\ \/ /\ SetProcessing(t)
        /\ pc' = [pc EXCEPT ![t] = "loading"]
        /\ abortController' = t
        /\ signalled' = signalled \ {t}
     \/ SetProcessingThrows /\ UNCHANGED <<pc, ctlVars>>
  /\ UNCHANGED bootVars

\* Loading the history fails: the route tears down only its own controller.
RetryLoadFails(t) ==
  /\ pc[t] = "loading"
  /\ IF abortController = t
     THEN /\ abortController' = NoOne
          /\ ClearProcessing([pc EXCEPT ![t] = "idle"])
     ELSE /\ pc' = [pc EXCEPT ![t] = "idle"]
          /\ UNCHANGED <<flagVars, startedAt, clears, abortController>>
  /\ UNCHANGED <<markVars, signalled, bootVars>>

----------------------------------------------------------------------------
(* The summarize route.                                                    *)

StartSummarize(r) ==
  /\ pc[r] = "idle"
  /\ ~processing
  /\ \/ /\ SetProcessing(r)
        /\ pc' = [pc EXCEPT ![r] = "running"]
        /\ abortController' = r
        /\ signalled' = signalled \ {r}
     \/ SetProcessingThrows /\ UNCHANGED <<pc, ctlVars>>
  /\ UNCHANGED bootVars

EndSummarize(r) ==
  /\ pc[r] = "running"
  /\ abortController' = IF abortController = r THEN NoOne ELSE abortController
  /\ ClearProcessing([pc EXCEPT ![r] = "idle"])
  /\ UNCHANGED <<markVars, signalled, bootVars>>

----------------------------------------------------------------------------
(* An agent wake.                                                          *)

\* Variant: waitForIdle registers its waiter without looking at the flag.
RequestWakeNoFastPath(w) ==
  /\ pc[w] = "idle"
  /\ pc' = [pc EXCEPT ![w] = "waiting"]
  /\ UNCHANGED <<flagVars, startedAt, clears, markVars, ctlVars, bootVars>>

\* waitForIdle resolves at once on a free flag and registers otherwise.
RequestWake(w) ==
  /\ pc[w] = "idle"
  /\ pc' = [pc EXCEPT ![w] = IF processing THEN "waiting" ELSE "woken"]
  /\ UNCHANGED <<flagVars, startedAt, clears, markVars, ctlVars, bootVars>>

\* The wait's budget elapses.
WakeTimeout(w) ==
  /\ pc[w] = "waiting"
  /\ pc' = [pc EXCEPT ![w] = "idle"]
  /\ UNCHANGED <<flagVars, startedAt, clears, markVars, ctlVars, bootVars>>

\* The continuation of the wait looks at the flag again: an earlier waiter
\* may have it.  No await lies between the look and the claim.
WakeResume(w) ==
  /\ pc[w] = "woken"
  /\ \/ /\ processing
        /\ \E next \in {"waiting", "idle"} : pc' = [pc EXCEPT ![w] = next]
        /\ UNCHANGED <<flagVars, startedAt, clears, markVars>>
     \/ /\ ~processing
        /\ SetProcessing(w)
        /\ pc' = [pc EXCEPT ![w] = "running"]
     \/ /\ ~processing
        /\ SetProcessingThrows
        /\ pc' = [pc EXCEPT ![w] = "idle"]
  /\ UNCHANGED <<ctlVars, bootVars>>

\* The wake's run is over: it clears the flag without naming its claim.
WakeEnd(w) ==
  /\ pc[w] = "running"
  /\ ClearProcessing([pc EXCEPT ![w] = "idle"])
  /\ UNCHANGED <<markVars, ctlVars, bootVars>>

----------------------------------------------------------------------------
(* Stop, and the daemon's death.                                           *)

\* abortConversation: a live controller is signalled; a flag without one is
\* force-cleared; an idle conversation has its column cleared once more.
AbortConversation ==
  /\ StopEnabled
  /\ IF processing /\ abortController # NoOne
     THEN /\ signalled' = signalled \cup {abortController}
          /\ UNCHANGED <<flagVars, startedAt, clears, pc>>
     ELSE ClearProcessing(pc) /\ UNCHANGED signalled
  /\ UNCHANGED <<markVars, abortController, bootVars>>

\* The daemon dies and boots: what it kept in memory is gone, the column is
\* not, and the boot time is recorded before any turn can start.
Crash ==
  /\ processing' = FALSE
  /\ processingOwner' = 0
  /\ pc' = [p \in Procs |-> "idle"]
  /\ marker' = [p \in Procs |-> "none"]
  /\ retries' = [p \in Procs |-> 0]
  /\ clears' = [s \in ClearSlots |-> 0]
  /\ abortController' = NoOne
  /\ signalled' = {}
  /\ bootTime' = nextProcessingOwner
  /\ sweepDue' = TRUE
  /\ UNCHANGED <<nextProcessingOwner, startedAt, claim>>

\* The monitor process clears a column written before the boot, at some time
\* after the daemon is up and may be running turns.
ClearStaleProcessing ==
  /\ sweepDue
  /\ sweepDue' = FALSE
  /\ startedAt' = IF startedAt <= bootTime THEN 0 ELSE startedAt
  /\ UNCHANGED <<flagVars, clears, pc, markVars, ctlVars, bootTime>>

Next ==
  \/ \E p \in Turns \cup Fenced :
       MarkerRetry(p) \/ FencePass(p) \/ FenceReject(p)
  \/ \E s \in ClearSlots : ClearRetry(s)
  \/ \E h \in Fenced : AcquireFenced(h) \/ ReleaseFenced(h)
  \/ \E t \in Turns :
       \/ PersistUserMessage(t) \/ PersistAbandoned(t)
       \/ RetryTurn(t) \/ RetryLoadFails(t)
       \/ StartLoop(t) \/ StartLoopThrows(t) \/ ReleaseTurn(t)
  \/ \E r \in Routes : StartSummarize(r) \/ EndSummarize(r)
  \/ \E w \in Wakes :
       RequestWake(w) \/ WakeTimeout(w) \/ WakeResume(w) \/ WakeEnd(w)
  \/ AbortConversation
  \/ Crash
  \/ ClearStaleProcessing

Spec == Init /\ [][Next]_vars

\* What the code guarantees of its own accord: a retry timer fires, an awaited
\* promise resumes, a persist ends, and the abort watchdog unwinds a loop
\* whose controller was signalled.
Fairness ==
  /\ \A p \in Turns \cup Fenced :
       /\ WF_vars(MarkerRetry(p))
       /\ WF_vars(FencePass(p) \/ FenceReject(p))
  /\ \A t \in Turns :
       /\ WF_vars(PersistAbandoned(t) \/ RetryLoadFails(t)
                    \/ StartLoop(t) \/ StartLoopThrows(t))
       /\ WF_vars(abortController \in signalled /\ ReleaseTurn(t))
  /\ \A r \in Routes : WF_vars(abortController \in signalled /\ EndSummarize(r))

FairSpec == Spec /\ Fairness

----------------------------------------------------------------------------
(* Properties.                                                             *)

\* A holder past the fence whose claim is live finds the column describing
\* that claim: a late clear, a late marker or the monitor's sweep never blanks
\* or overwrites the marker of a turn that is working (the fence of
\* acquireProcessing, and clearStaleProcessing's boot time).
LiveClaimMarked ==
  \A p \in Procs :
    pc[p] \in PastFence /\ processingOwner = claim[p] => startedAt = claim[p]

\* waitForIdle's waiters cannot miss a release: nobody is parked while the
\* flag is free (the idleWaiters field of Conversation).
WaitersNeverMissRelease ==
  \A w \in Wakes : pc[w] = "waiting" => processing

\* At most one agent loop, summary or wake runs over the conversation's
\* history at a time.
TurnExclusion ==
  \A p, q \in Turns \cup Routes \cup Wakes :
    pc[p] = "running" /\ pc[q] = "running" => p = q

\* A held flag has a live process behind it that will release it: no error
\* path leaves the conversation latched busy.
HeldFlagHasHolder ==
  processing => \E p \in Procs :
                  /\ claim[p] = processingOwner
                  /\ pc[p] \in PastFence \cup {"fencing"}

\* A start marker written late, after backoff, is never one of a claim that
\* has been lost in the meantime (mirrorProcessingStarted's re-check).
MarkerNamesLiveClaim ==
  [][ startedAt' \notin {0, startedAt} => startedAt' = processingOwner' ]_vars

\* Stop works: once the controller of the holder is signalled, that claim is
\* given up, through the fence, the persist and the loop.
StopReleasesClaim ==
  \A c \in 1..MaxClaims :
    (processing /\ processingOwner = c /\ abortController \in signalled)
      ~> processingOwner # c

============================================================================
