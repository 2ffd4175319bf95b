----------------------------- MODULE Scheduler -----------------------------
(***************************************************************************)
(* Schedules: rows of cron_jobs, claimed and executed by the schedule       *)
(* worker process (scheduler.ts, schedule-store.ts, retry-policy.ts), edited *)
(* by users through the daemon, and recovered by the daemon when it starts  *)
(* (schedule-recovery.ts).                                                  *)
(*                                                                         *)
(* The worker is a child of the daemon but a process of its own.  One that  *)
(* outlives its daemon, or was replaced and is not evicted yet, works beside *)
(* its successor: all they share is the database, and every awaited write   *)
(* is a step of its own.                                                    *)
(***************************************************************************)
EXTENDS Naturals, FiniteSets

CONSTANTS
  Jobs,            \* schedules that exist at the start
  Kinds,           \* what this instance's schedules may be, [once, mode] for each
  Workers,         \* worker processes of a behaviour
  MaxRetries,      \* maxRetries of every schedule
  WakeMaxRetries,  \* WAKE_MAX_RETRIES
  Occurrences,     \* bound: occurrences of a recurring schedule after its first
  MaxOps,          \* bound: user edits, manual runs and drain leases
  MaxRestarts,     \* bound: restarts of the daemon
  Faults           \* what may go wrong in this instance

ASSUME SchedulerAssumption ==
  /\ Kinds \subseteq [Jobs -> [once : BOOLEAN,
                               mode : {"notify", "script", "workflow", "execute", "wake",
                                       "legacy", "incomplete"}]]
  /\ 0 \notin Workers
  /\ MaxRetries \in Nat /\ WakeMaxRetries \in Nat /\ Occurrences \in Nat
  /\ MaxOps \in Nat /\ MaxRestarts \in Nat
  /\ Faults \subseteq {"orphan", "overlap", "death", "throw"}

VARIABLES
  row,       \* cron_jobs: [status, enabled, next, ver, retries]
  left,      \* occurrences the recurrence still has
  open,      \* cron_runs in status running, <<job, process that created it>>
  kind,      \* per schedule: has it no expression, and its mode; "legacy" is
             \* a run_task message, "incomplete" a script schedule without a
             \* script or a workflow schedule without a name
  phase,     \* per worker: where its tick is
  cand,      \* per worker: rows its SELECT found and it has not tried yet
  batch,     \* per worker: rows it claimed and has not started
  task,      \* per process: the schedule it is executing, closing or recovering
  daemon,    \* down, recovering or up
  stale,     \* what recoverStaleSchedules still has to go through
  quiesced,  \* an unexpired drain lease
  ops,       \* bound: MaxOps spent
  restarts,  \* bound: MaxRestarts spent
  charges,   \* history: increments of retryCount
  taken,     \* history: times a retry freed a row another worker held
  deferred,  \* history: schedules a drain put back and nobody claimed since
  stranded,  \* history: one-shots that nobody holds and that were left firing
  userOff    \* history: schedules the user has off, or has cancelled

rowVars == <<row, left, open, kind>>
workerVars == <<phase, cand, batch>>
daemonVars == <<daemon, stale, quiesced, ops, restarts>>
history == <<charges, taken, deferred, stranded, userOff>>
vars == <<rowVars, workerVars, task, daemonVars, history>>

\* Schedules without an expression; the others recur.
OneShots == {j \in Jobs : kind[j].once}

Daemon == 0
Procs == Workers \cup {Daemon}
Live == {w \in Workers : phase[w] \notin {"unborn", "dead"}}

\* A row as SELECT returned it: what the tick keeps of it until it is done.
Snapshot(j) == [job |-> j, ver |-> row[j].ver, retries |-> row[j].retries]
Snapshots == [job : Jobs, ver : Nat, retries : Nat]
NoTask == [at |-> "none"]
Ats == {"executing", "recording", "closing", "charging", "settling", "reverting", "deferring"}
Tasks == [at : Ats, snap : Snapshots, ok : BOOLEAN, inTry : BOOLEAN, run : Procs,
          manual : BOOLEAN]
\* What a process takes in hand: a run by process p of the row s.
TaskFor(s, at, p, manual) ==
  [at |-> at, snap |-> s, ok |-> TRUE, inTry |-> FALSE, run |-> p, manual |-> manual]
Busy(p) == task[p].at # "none"
JobOf(p) == task[p].snap.job

Gone(j) == row[j].status = "gone"
\* UPDATE cron_jobs SET ... WHERE id = j: nothing happens to a deleted row.
Updated(j, new) == [row EXCEPT ![j] = IF Gone(j) THEN @ ELSE new]
\* A write of nextRunAt.  Its value matters to the optimistic lock only.
Timed(r, next) == [r EXCEPT !.next = next, !.ver = @ + 1]
\* UPDATE ... SET status = to WHERE status = 'firing'.
FiringTo(r, to) == IF r.status = "firing" THEN [r EXCEPT !.status = to] ELSE r
\* The same, for the writes that also disable the row.
FiringEnds(r, to) ==
  IF r.status = "firing" THEN [r EXCEPT !.status = to, !.enabled = FALSE] ELSE r

\* What worker w holds: claimed and not started, or in hand.
Holds(w) == batch[w] \cup (IF Busy(w) THEN {task[w].snap} ELSE {})
HeldJobs(w) == {s.job : s \in Holds(w)}
\* The histories count for the one-shots only.
Counted(count, j) == IF j \in OneShots THEN [count EXCEPT ![j] = @ + 1] ELSE count
Firing(J) == {j \in OneShots \cap J : row[j].status = "firing"}

-----------------------------------------------------------------------------
(* claimDueSchedules                                                        *)

\* nextRunAt <= now; the latch value 0 is in the past.
IsDue(j) == row[j].enabled /\ row[j].next # "later" /\ ~Gone(j)
DueRecurring == {j \in Jobs \ OneShots : IsDue(j)}
DueOneShots == {j \in OneShots : IsDue(j) /\ row[j].status = "active"}

\* Time reaches nextRunAt.
Due(j) ==
  /\ row[j].next = "later"
  /\ row' = [row EXCEPT ![j].next = "due"]
  /\ UNCHANGED <<left, open, kind, workerVars, task, daemonVars, history>>

\* A tick: nothing is claimed under a drain lease.  A tick that finds nothing
\* due changes nothing.
ReadRecurring(w) ==
  /\ phase[w] = "idle"
  /\ ~quiesced
  /\ DueRecurring \cup DueOneShots # {}
  /\ phase' = [phase EXCEPT ![w] = "recurring"]
  /\ cand' = [cand EXCEPT ![w] = {Snapshot(j) : j \in DueRecurring}]
  /\ UNCHANGED <<rowVars, batch, task, daemonVars, history>>

\* Variant: the claim does not compare nextRunAt with the value it read.
LockHoldsAny(s) == ~Gone(s.job)
\* WHERE id = ... AND nextRunAt = the value that was read.
LockHolds(s) == ~Gone(s.job) /\ row[s.job].ver = s.ver

\* The claim advances nextRunAt; the last occurrence disables the row.
ClaimRecurring(w, s) ==
  LET j == s.job IN
  /\ phase[w] = "recurring"
  /\ s \in cand[w]
  /\ cand' = [cand EXCEPT ![w] = @ \ {s}]
  /\ IF LockHolds(s)
     THEN /\ row' = [row EXCEPT ![j] =
               IF left[j] = 0 THEN [Timed(@, "zero") EXCEPT !.enabled = FALSE]
                              ELSE Timed(@, "later")]
          /\ left' = [left EXCEPT ![j] = IF @ = 0 THEN 0 ELSE @ - 1]
          /\ batch' = [batch EXCEPT ![w] = @ \cup {s}]
          /\ deferred' = deferred \ {s.job}
     ELSE UNCHANGED <<row, left, batch, deferred>>
  /\ UNCHANGED <<open, kind, phase, task, daemonVars, charges, taken, stranded, userOff>>

ReadOneShots(w) ==
  /\ phase[w] = "recurring"
  /\ cand[w] = {}
  /\ phase' = [phase EXCEPT ![w] = "oneshots"]
  /\ cand' = [cand EXCEPT ![w] = {Snapshot(j) : j \in DueOneShots}]
  /\ UNCHANGED <<rowVars, batch, task, daemonVars, history>>

\* Variant: the claim does not check that the row is still active.
StillActiveAny(s) == ~Gone(s.job)
\* WHERE id = ... AND status = 'active'.
StillActive(s) == row[s.job].status = "active"

ClaimOneShot(w, s) ==
  /\ phase[w] = "oneshots"
  /\ s \in cand[w]
  /\ cand' = [cand EXCEPT ![w] = @ \ {s}]
  /\ IF StillActive(s)
     THEN /\ row' = [row EXCEPT ![s.job].status = "firing"]
          /\ batch' = [batch EXCEPT ![w] = @ \cup {s}]
          /\ deferred' = deferred \ {s.job}
     ELSE UNCHANGED <<row, batch, deferred>>
  /\ UNCHANGED <<left, open, kind, phase, task, daemonVars, charges, taken,
                 stranded, userOff>>

-----------------------------------------------------------------------------
(* runDueSchedulesOnce: the claimed rows one after the other.               *)

\* Ticks that end with their rows unfinished: they threw, or the process ended.
Abandon(W, to) ==
  /\ phase' = [w \in Workers |-> IF w \in W THEN to ELSE phase[w]]
  /\ cand' = [w \in Workers |-> IF w \in W THEN {} ELSE cand[w]]
  /\ batch' = [w \in Workers |-> IF w \in W THEN {} ELSE batch[w]]
  /\ task' = [p \in Procs |-> IF p \in W THEN NoTask ELSE task[p]]
  /\ stranded' = stranded \cup Firing(UNION {HeldJobs(w) : w \in W})

\* createScheduleRun rejects a row that was deleted (foreign key).
RowFirst(j) == kind[j].mode \in {"script", "workflow", "execute", "legacy"}

\* The next claimed row is started; the script, workflow and execute modes
\* create its run row first.
Start(w, s) ==
  /\ phase[w] = "oneshots" /\ cand[w] = {} /\ ~Busy(w)
  /\ s \in batch[w]
  /\ ~quiesced /\ kind[s.job].mode # "incomplete"
  /\ IF RowFirst(s.job) /\ Gone(s.job)
     THEN Abandon({w}, "idle") /\ UNCHANGED open
     ELSE /\ batch' = [batch EXCEPT ![w] = @ \ {s}]
          /\ open' = IF RowFirst(s.job) THEN open \cup {<<s.job, w>>} ELSE open
          /\ task' = [task EXCEPT ![w] = TaskFor(s, "executing", w, FALSE)]
          /\ UNCHANGED <<phase, cand, stranded>>
  /\ UNCHANGED <<row, left, kind, daemonVars, charges, taken, deferred, userOff>>

\* A row with nothing to run is skipped as it is: a one-shot stays firing.
Skip(w, s) ==
  /\ phase[w] = "oneshots" /\ cand[w] = {} /\ ~Busy(w)
  /\ s \in batch[w]
  /\ ~quiesced /\ kind[s.job].mode = "incomplete"
  /\ batch' = [batch EXCEPT ![w] = @ \ {s}]
  /\ stranded' = stranded \cup Firing({s.job})
  /\ UNCHANGED <<rowVars, phase, cand, task, daemonVars, charges, taken, deferred,
                 userOff>>

\* Variant: the deferral does not restore enabled.
DeferredRowKeepsLatch(r) == Timed(r, "later")
\* deferClaimedSchedule, first write: back to the queue, enabled again.
DeferredRow(r) == [Timed(r, "later") EXCEPT !.enabled = TRUE]

\* A lease armed since the claim: the row is put back instead of started.
Defer(w, s) ==
  /\ phase[w] = "oneshots" /\ cand[w] = {} /\ ~Busy(w)
  /\ s \in batch[w]
  /\ quiesced
  /\ batch' = [batch EXCEPT ![w] = @ \ {s}]
  /\ row' = Updated(s.job, DeferredRow(row[s.job]))
  /\ task' = [task EXCEPT ![w] = TaskFor(s, "deferring", w, FALSE)]
  /\ deferred' = deferred \cup {s.job}
  /\ UNCHANGED <<left, open, kind, phase, cand, daemonVars, charges, taken, stranded,
                 userOff>>

\* deferClaimedSchedule, second write.
DeferStatus(w) ==
  /\ task[w].at = "deferring"
  /\ row' = Updated(JobOf(w), FiringTo(row[JobOf(w)], "active"))
  /\ task' = [task EXCEPT ![w] = NoTask]
  /\ UNCHANGED <<left, open, kind, workerVars, daemonVars, history>>

TickDone(w) ==
  /\ phase[w] = "oneshots" /\ cand[w] = {} /\ batch[w] = {} /\ ~Busy(w)
  /\ phase' = [phase EXCEPT ![w] = "idle"]
  /\ UNCHANGED <<rowVars, cand, batch, task, daemonVars, history>>

\* Whether the bookkeeping of an outcome is inside the mode's try block: that
\* of a success is, in every mode that has one; a script that exits with an
\* error is settled inside it too, one that throws in the catch.
TryFor(mode, ok) ==
  IF mode \in {"execute", "legacy"} THEN {FALSE}
  ELSE IF ok THEN {TRUE}
  ELSE IF mode = "script" THEN BOOLEAN
  ELSE {FALSE}

\* The step after an execution: a notification and a wake create their run row
\* only now, a successful wake of a recurring schedule creates none.
AfterExecution(w, ok, inTry) ==
  LET j == JobOf(w) IN
  IF RowFirst(j) THEN [task[w] EXCEPT !.at = "closing", !.ok = ok, !.inTry = inTry]
  ELSE IF kind[j].mode = "wake" /\ ok /\ j \notin OneShots THEN NoTask
  ELSE [task[w] EXCEPT !.at = "recording", !.ok = ok, !.inTry = inTry]

\* The notification, script, workflow trigger, turn or wake runs; a run_task
\* message is refused.
Execute(w, ok) ==
  LET j == JobOf(w) IN
  /\ w \in Workers /\ task[w].at = "executing"
  /\ ok => kind[j].mode # "legacy"
  /\ \E inTry \in TryFor(kind[j].mode, ok) :
       task' = [task EXCEPT ![w] = AfterExecution(w, ok, inTry)]
  /\ UNCHANGED <<rowVars, workerVars, daemonVars, charges, taken, deferred, stranded, userOff>>

\* A wake whose conversation stays busy: a one-shot goes back to active, still
\* due, until WAKE_MAX_RETRIES; a recurring one just waits for its next time.
WakeTimesOut(w) ==
  LET j == JobOf(w)
      spent == task[w].snap.retries >= WakeMaxRetries
      retries == j \in OneShots /\ ~spent /\ row[j].status = "firing"
  IN /\ task[w].at = "executing" /\ kind[j].mode = "wake"
     /\ row' = IF j \notin OneShots THEN row
               ELSE IF spent THEN Updated(j, FiringEnds(row[j], "cancelled"))
               ELSE IF retries THEN [row EXCEPT ![j].status = "active", ![j].retries = @ + 1]
               ELSE row
     /\ charges' = IF retries THEN Counted(charges, j) ELSE charges
     /\ task' = [task EXCEPT ![w] = NoTask]
     /\ UNCHANGED <<left, open, kind, workerVars, daemonVars, taken, deferred,
                    stranded, userOff>>

\* A wake of a conversation that is gone or archived: completed as a no-op.
WakeNotInvoked(w) ==
  LET j == JobOf(w) IN
  /\ task[w].at = "executing" /\ kind[j].mode = "wake"
  /\ row' = IF j \in OneShots THEN Updated(j, FiringEnds(row[j], "fired")) ELSE row
  /\ task' = [task EXCEPT ![w] = NoTask]
  /\ UNCHANGED <<left, open, kind, workerVars, daemonVars, history>>

\* createScheduleRun after the execution; on a deleted row it throws, in the
\* catch block too.
Record(w) ==
  LET j == JobOf(w) IN
  /\ w \in Workers /\ task[w].at = "recording"
  /\ IF Gone(j)
     THEN Abandon({w}, "idle") /\ UNCHANGED open
     ELSE /\ open' = open \cup {<<j, w>>}
          /\ task' = [task EXCEPT ![w].at = "closing"]
          /\ UNCHANGED <<workerVars, stranded>>
  /\ UNCHANGED <<row, left, kind, daemonVars, charges, taken, deferred, userOff>>

-----------------------------------------------------------------------------
(* completeScheduleRun and applyRetryDecision, shared by the worker, the    *)
(* manual run and the recovery.                                             *)

\* A manual run and a refused run_task end with their run row: no retry, and no
\* end for the one-shot that the worker claimed.
Settles(p) == ~task[p].manual /\ (p = Daemon \/ kind[JobOf(p)].mode # "legacy")

\* finishScheduleRunRow; a run deleted with its schedule ends the bookkeeping.
CloseRun(p) ==
  LET j == JobOf(p)
      next == IF ~Gone(j) THEN "charging" ELSE IF Settles(p) THEN "settling" ELSE "none"
  IN /\ task[p].at = "closing"
     /\ open' = open \ {<<j, task[p].run>>}
     /\ task' = [task EXCEPT ![p] = IF next = "none" THEN NoTask ELSE [@ EXCEPT !.at = next]]
     /\ UNCHANGED <<row, left, kind, workerVars, daemonVars, history>>

\* The parent job: a success clears retryCount, an error increments it.
Charge(p) ==
  LET j == JobOf(p)
      ok == task[p].ok
  IN /\ task[p].at = "charging"
     /\ row' = Updated(j, [row[j] EXCEPT !.retries = IF ok THEN 0 ELSE @ + 1])
     /\ charges' = IF ok \/ Gone(j) THEN charges ELSE Counted(charges, j)
     /\ task' = [task EXCEPT ![p] = IF Settles(p) THEN [@ EXCEPT !.at = "settling"] ELSE NoTask]
     /\ stranded' = IF Settles(p) \/ task[p].manual THEN stranded
                    ELSE stranded \cup Firing({j})
     /\ UNCHANGED <<left, open, kind, workerVars, daemonVars, taken, deferred, userOff>>

\* Variant: the budget is compared with the count this failure already raised.
MayRetryEarly(s) == s.retries + 1 < MaxRetries
\* decideRetry, on the count the row had when it was read.
MayRetry(s) == s.retries < MaxRetries

\* completeOneShot, or the retry decision: retry (first write of
\* scheduleRetry) or give up.
Settle(p) ==
  LET j == JobOf(p)
      retry == ~task[p].ok /\ MayRetry(task[p].snap)
  IN /\ task[p].at = "settling"
     /\ row' = Updated(j,
          IF retry THEN Timed(row[j], "later")
          ELSE IF j \in OneShots
               THEN FiringEnds(row[j], IF task[p].ok THEN "fired" ELSE "cancelled")
          ELSE IF task[p].ok THEN row[j]
          ELSE [row[j] EXCEPT !.retries = 0])
     /\ task' = [task EXCEPT ![p] = IF retry THEN [@ EXCEPT !.at = "reverting"] ELSE NoTask]
     /\ UNCHANGED <<left, open, kind, workerVars, daemonVars, history>>

\* Variant: the retry makes the row active whatever its status.
RevertedAny(r) == [r EXCEPT !.status = "active"]
\* Variant: the retry sets the time and leaves the status.
RevertedNever(r) == r
\* scheduleRetry, second write.
Reverted(r) == FiringTo(r, "active")

Revert(p) ==
  LET j == JobOf(p)
      held == \E w \in Live \ {p} : j \in HeldJobs(w)
  IN /\ task[p].at = "reverting"
     /\ row' = Updated(j, Reverted(row[j]))
     /\ taken' = IF row[j].status = "firing" /\ held THEN Counted(taken, j) ELSE taken
     /\ task' = [task EXCEPT ![p] = NoTask]
     /\ UNCHANGED <<left, open, kind, workerVars, daemonVars, charges,
                    deferred, stranded, userOff>>

-----------------------------------------------------------------------------
(* The daemon: recovery when it starts, and the worker process.             *)

\* Workers stay available: the bound on processes never leaves none to spawn.
Spare == {w \in Workers : phase[w] = "unborn"}

\* The daemon stops, gracefully (its worker gets SIGTERM) or not (its worker
\* may live on).
DaemonStops(survivors) ==
  /\ daemon # "down"
  /\ restarts < MaxRestarts
  /\ survivors \subseteq Live
  /\ survivors = {} \/ "orphan" \in Faults
  /\ survivors # {} \/ Spare # {}
  /\ LET ended == Live \ survivors IN
     /\ phase' = [w \in Workers |-> IF w \in ended THEN "dead" ELSE phase[w]]
     /\ cand' = [w \in Workers |-> IF w \in ended THEN {} ELSE cand[w]]
     /\ batch' = [w \in Workers |-> IF w \in ended THEN {} ELSE batch[w]]
     /\ task' = [p \in Procs |-> IF p \in ended \cup {Daemon} THEN NoTask ELSE task[p]]
     /\ stranded' = stranded \cup Firing(UNION {HeldJobs(w) : w \in ended}
                       \cup (IF Busy(Daemon) THEN {JobOf(Daemon)} ELSE {})
                       \cup {e.job : e \in stale})
  /\ daemon' = "down"
  /\ stale' = {}
  /\ restarts' = restarts + 1
  /\ UNCHANGED <<rowVars, quiesced, ops, charges, taken, deferred, userOff>>

\* findStaleInFlightJobs(0): every running run, and every enabled one-shot
\* left firing that has none.
FindStale ==
  {[job |-> r[1], run |-> r[2]] : r \in open} \cup
  {[job |-> j, run |-> Daemon] :
     j \in {i \in OneShots : /\ row[i].status = "firing" /\ row[i].enabled
                             /\ \A r \in open : r[1] # i}}

DaemonStarts ==
  /\ daemon = "down"
  /\ daemon' = "recovering"
  /\ stale' = FindStale
  /\ UNCHANGED <<rowVars, workerVars, task, quiesced, ops, restarts, history>>

\* One entry of recoverStaleSchedules: its run (or a new one) is closed as an
\* error, charged and put through the retry decision.
Recover(e) ==
  /\ daemon = "recovering" /\ ~Busy(Daemon)
  /\ e \in stale
  /\ stale' = stale \ {e}
  /\ IF Gone(e.job)
     THEN UNCHANGED <<open, task, stranded>>
     ELSE /\ open' = open \cup {<<e.job, e.run>>}
          /\ task' = [task EXCEPT ![Daemon] =
               [TaskFor(Snapshot(e.job), "closing", e.run, FALSE) EXCEPT !.ok = FALSE]]
          /\ stranded' = stranded \ {e.job}
  /\ UNCHANGED <<row, left, kind, workerVars, daemon, quiesced, ops, restarts,
                 charges, taken, deferred, userOff>>

\* Variant: the recovery is not awaited.
RecoveryDoneEarly ==
  /\ daemon = "recovering"
  /\ daemon' = "up"
  /\ UNCHANGED <<rowVars, workerVars, task, stale, quiesced, ops, restarts, history>>
\* startScheduler.
RecoveryDone ==
  /\ daemon = "recovering" /\ stale = {} /\ ~Busy(Daemon)
  /\ daemon' = "up"
  /\ UNCHANGED <<rowVars, workerVars, task, stale, quiesced, ops, restarts, history>>

\* The boot spawn or the watchdog's: normally only once no worker lives.
Spawn(w) ==
  /\ daemon = "up"
  /\ w \in Spare /\ \A v \in Spare : w <= v
  /\ Live = {} \/ "overlap" \in Faults
  /\ phase' = [phase EXCEPT ![w] = "idle"]
  /\ UNCHANGED <<rowVars, cand, batch, task, daemonVars, history>>

\* A worker process ends: evicted or reclaimed beside another, or it dies.
WorkerEnds(w) ==
  /\ w \in Live
  /\ \/ Cardinality(Live) > 1
     \/ Spare # {} /\ ("death" \in Faults \/ ("orphan" \in Faults /\ restarts > 0))
  /\ Abandon({w}, "dead")
  /\ UNCHANGED <<rowVars, daemonVars, charges, taken, deferred, userOff>>

-----------------------------------------------------------------------------
(* Users and drains.                                                        *)

Spend == ops < MaxOps /\ ops' = ops + 1

\* updateSchedule with enabled = FALSE; a recurring row loses its time.
Disable(j) ==
  /\ Spend
  /\ ~Gone(j) /\ row[j].enabled
  /\ row' = [row EXCEPT ![j] =
       [(IF j \in OneShots THEN @ ELSE Timed(@, "zero")) EXCEPT !.enabled = FALSE]]
  /\ userOff' = userOff \cup {j}
  /\ UNCHANGED <<left, open, kind, workerVars, task, daemon, stale, quiesced, restarts,
                 charges, taken, deferred, stranded>>

\* updateSchedule with enabled = TRUE; a recurrence without a next occurrence
\* is refused.
Enable(j) ==
  /\ Spend
  /\ ~Gone(j) /\ ~row[j].enabled
  /\ j \in OneShots \/ left[j] > 0
  /\ row' = [row EXCEPT ![j] =
       [(IF j \in OneShots THEN @ ELSE Timed(@, "later")) EXCEPT !.enabled = TRUE]]
  /\ left' = IF j \in OneShots THEN left ELSE [left EXCEPT ![j] = @ - 1]
  /\ userOff' = IF row[j].status = "cancelled" THEN userOff ELSE userOff \ {j}
  /\ UNCHANGED <<open, kind, workerVars, task, daemon, stale, quiesced, restarts,
                 charges, taken, deferred, stranded>>

\* cancelSchedule: only an active row.
Cancel(j) ==
  /\ Spend
  /\ row[j].status = "active"
  /\ row' = [row EXCEPT ![j].status = "cancelled", ![j].enabled = FALSE]
  /\ userOff' = userOff \cup {j}
  /\ UNCHANGED <<left, open, kind, workerVars, task, daemon, stale, quiesced, restarts,
                 charges, taken, deferred, stranded>>

\* deleteSchedule; the runs go with the row.
Delete(j) ==
  /\ Spend
  /\ ~Gone(j)
  /\ row' = [row EXCEPT ![j].status = "gone", ![j].enabled = FALSE]
  /\ open' = {r \in open : r[1] # j}
  /\ userOff' = userOff \cup {j}
  /\ UNCHANGED <<left, kind, workerVars, task, daemon, stale, quiesced, restarts,
                 charges, taken, deferred, stranded>>

\* handleRunScheduleNow, up to its run row; it claims nothing.  A manual wake
\* writes no rows at all, and a row with nothing to run is refused.
RunNow(j) ==
  /\ Spend
  /\ daemon = "up" /\ ~Busy(Daemon) /\ ~quiesced
  /\ ~Gone(j) /\ kind[j].mode \notin {"wake", "incomplete"}
  /\ open' = open \cup {<<j, Daemon>>}
  /\ task' = [task EXCEPT ![Daemon] = TaskFor(Snapshot(j), "executing", Daemon, TRUE)]
  /\ UNCHANGED <<row, left, kind, workerVars, daemon, stale, quiesced, restarts, history>>

\* The manual run ends.
ManualRun(ok) ==
  /\ task[Daemon].at = "executing"
  /\ ok => kind[JobOf(Daemon)].mode # "legacy"
  /\ task' = [task EXCEPT ![Daemon].at = "closing", ![Daemon].ok = ok]
  /\ UNCHANGED <<rowVars, workerVars, daemonVars, history>>

\* setLifecycleQuiesce, and the end of its lease.
ArmLease ==
  /\ Spend
  /\ ~quiesced /\ quiesced' = TRUE
  /\ UNCHANGED <<rowVars, workerVars, task, daemon, stale, restarts, history>>

LeaseEnds ==
  /\ quiesced /\ quiesced' = FALSE
  /\ UNCHANGED <<rowVars, workerVars, task, daemon, stale, ops, restarts, history>>

-----------------------------------------------------------------------------
(* Writes that still fail after withSqliteRetry's attempts.                 *)

\* Writes inside the mode's try block.
InTry(w) == Busy(w) /\ task[w].inTry

\* Outside of a try block the tick ends, and the rows it claimed stay claimed.
TickThrows(w) ==
  /\ "throw" \in Faults /\ Spend
  /\ \/ cand[w] # {}
     \/ ~Busy(w) /\ \E s \in batch[w] : RowFirst(s.job)
     \/ Busy(w) /\ task[w].at \in Ats \ {"executing", "deferring"} /\ ~InTry(w)
  /\ Abandon({w}, "idle")
  /\ UNCHANGED <<rowVars, daemon, stale, quiesced, restarts, charges, taken, deferred,
                 userOff>>

\* Inside it, what fails is handled as a failure, now in the catch block.
CaughtThrow(w) ==
  /\ "throw" \in Faults /\ Spend
  /\ InTry(w) /\ task[w].at \in Ats \ {"executing", "deferring"}
  /\ task' = [task EXCEPT ![w].ok = FALSE, ![w].inTry = FALSE,
                          ![w].at = IF RowFirst(JobOf(w)) THEN "closing" ELSE "recording"]
  /\ UNCHANGED <<rowVars, workerVars, daemon, stale, quiesced, restarts, history>>

\* A deferral that fails is logged; the row stays claimed.
DeferThrows(w) ==
  /\ "throw" \in Faults
  /\ task[w].at = "deferring"
  /\ task' = [task EXCEPT ![w] = NoTask]
  /\ stranded' = stranded \cup Firing({JobOf(w)})
  /\ UNCHANGED <<rowVars, workerVars, daemonVars,
                 charges, taken, deferred, userOff>>

\* The catch of recoverStaleSchedules: the entry is given up as far as it came,
\* and the recovery goes on with the next.
RecoveryThrows ==
  /\ "throw" \in Faults /\ Spend
  /\ daemon = "recovering"
  /\ \/ /\ ~Busy(Daemon) /\ UNCHANGED task
        /\ \E e \in stale : /\ stale' = stale \ {e}
                             /\ stranded' = stranded \cup Firing({e.job})
     \/ /\ Busy(Daemon) /\ UNCHANGED stale
        /\ task' = [task EXCEPT ![Daemon] = NoTask]
        /\ stranded' = stranded \cup Firing({JobOf(Daemon)})
  /\ UNCHANGED <<rowVars, workerVars, daemon, quiesced, restarts, charges, taken,
                 deferred, userOff>>

-----------------------------------------------------------------------------
Init ==
  /\ kind \in Kinds
  /\ row = [j \in Jobs |-> [status |-> "active", enabled |-> TRUE, next |-> "later",
                            ver |-> 0, retries |-> 0]]
  /\ left = [j \in Jobs |-> IF j \in OneShots THEN 0 ELSE Occurrences]
  /\ open = {}
  /\ phase = [w \in Workers |-> "unborn"]
  /\ cand = [w \in Workers |-> {}]
  /\ batch = [w \in Workers |-> {}]
  /\ task = [p \in Procs |-> NoTask]
  /\ daemon = "up" /\ stale = {} /\ quiesced = FALSE
  /\ ops = 0 /\ restarts = 0
  /\ charges = [j \in Jobs |-> 0] /\ taken = [j \in Jobs |-> 0]
  /\ deferred = {} /\ stranded = {} /\ userOff = {}

\* What a running worker does of itself.
WorkerStep(w) ==
  \/ ReadRecurring(w) \/ ReadOneShots(w)
  \/ \E s \in cand[w] : ClaimRecurring(w, s) \/ ClaimOneShot(w, s)
  \/ \E s \in batch[w] : Start(w, s) \/ Skip(w, s) \/ Defer(w, s)
  \/ DeferStatus(w) \/ TickDone(w)
  \/ (\E ok \in BOOLEAN : Execute(w, ok)) \/ WakeTimesOut(w) \/ WakeNotInvoked(w)
  \/ Record(w) \/ CloseRun(w) \/ Charge(w) \/ Settle(w) \/ Revert(w)

\* What the daemon does of itself.
DaemonStep ==
  \/ DaemonStarts \/ (\E e \in stale : Recover(e)) \/ RecoveryDone
  \/ \E ok \in BOOLEAN : ManualRun(ok)
  \/ CloseRun(Daemon) \/ Charge(Daemon) \/ Settle(Daemon) \/ Revert(Daemon)

Users == \E j \in Jobs : Disable(j) \/ Enable(j) \/ Cancel(j) \/ Delete(j) \/ RunNow(j)

Failures ==
  \/ \E survivors \in SUBSET Live : DaemonStops(survivors)
  \/ \E w \in Workers : WorkerEnds(w) \/ TickThrows(w) \/ CaughtThrow(w) \/ DeferThrows(w)
  \/ RecoveryThrows

Next ==
  \/ \E j \in Jobs : Due(j)
  \/ \E w \in Workers : WorkerStep(w) \/ Spawn(w)
  \/ DaemonStep \/ Users \/ ArmLease \/ LeaseEnds \/ Failures

\* Time passes, leases run out, the daemon is started again and keeps a worker
\* alive, and a process that can go on does.
Fairness ==
  /\ \A j \in Jobs : WF_vars(Due(j))
  /\ \A w \in Workers : WF_vars(WorkerStep(w))
  /\ WF_vars(\E w \in Workers : Live = {} /\ Spawn(w))
  /\ WF_vars(DaemonStep) /\ WF_vars(LeaseEnds)

Spec == Init /\ [][Next]_vars /\ Fairness

-----------------------------------------------------------------------------
(* Properties                                                               *)

Ended == {"fired", "cancelled", "gone"}

\* Types of the rows and of the processes' bookkeeping; the daemon that starts
\* workers has nothing left to recover (recoverStaleSchedules is awaited).
TypeOK ==
  /\ row \in [Jobs -> [status : Ended \cup {"active", "firing"}, enabled : BOOLEAN,
                       next : {"zero", "later", "due"}, ver : Nat, retries : Nat]]
  /\ \A p \in Procs : task[p] = NoTask \/ task[p] \in Tasks
  /\ \A w \in Workers : cand[w] \subseteq Snapshots /\ batch[w] \subseteq Snapshots
  /\ daemon \in {"down", "recovering", "up"}
  /\ open \subseteq Jobs \X Procs
  /\ daemon = "recovering" \/ stale = {}

\* No two workers ever have the same one-shot, or the same occurrence of a
\* recurring schedule, in hand, unless a recovery took it from one of them
\* ("to prevent double-claiming by concurrent ticks", claimDueSchedules).
ClaimedOnce ==
  \A v, w \in Live : v # w =>
    \A s \in Holds(v), t \in Holds(w) :
      s.job = t.job /\ (s.job \in OneShots \/ s.ver = t.ver) => taken[s.job] > 0

\* A fired, cancelled or deleted one-shot stays so, whatever a worker, a
\* recovery or a retry that read it before still writes.
EndedStaysEnded ==
  [][\A j \in OneShots : row[j].status \in Ended =>
       row'[j].status \in {row[j].status, "gone"}]_vars

\* The engine gives a one-shot up only when its budget is spent: maxRetries
\* retries were charged before the failure that ends it, whoever charged them
\* (decideRetry compares the count from before the failure).
GivenUpWhenSpent ==
  \A j \in OneShots \ userOff : row[j].status = "cancelled" =>
    \/ charges[j] > MaxRetries
    \/ kind[j].mode = "wake" /\ charges[j] >= WakeMaxRetries

\* An occurrence that a drain put back will be claimed again, the last one of
\* its recurrence too, which the claim had switched off: the row is on and has
\* a time, unless the user has switched it off since (deferClaimedSchedule).
DeferredComesBack ==
  \A j \in deferred \ (userOff \cup OneShots) : row[j].enabled /\ row[j].next # "zero"

\* Every one-shot that is on comes to an end, through retries, drains, restarts
\* of the daemon and ends of the worker, unless it is switched off, or it was
\* left firing and no restart has recovered it: by a tick that died or threw, by
\* a recovery that failed on it, or because it has nothing to run (no script, no
\* workflow name, a run_task message), which the tick neither ends nor retries.
EveryOneShotEnds ==
  \A j \in Jobs :
    (kind[j].once /\ row[j].status = "active" /\ row[j].enabled) ~>
      (row[j].status \in Ended \/ ~row[j].enabled \/ j \in stranded)
=============================================================================
