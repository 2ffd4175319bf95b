----------------------------- MODULE MemoryJobs -----------------------------
(***************************************************************************)
(* The memory job queue: the memory_jobs rows (assistant/src/persistence/  *)
(* jobs-store.ts), the worker processes that drain them (plugins/defaults/ *)
(* memory/jobs-worker.ts and worker.ts) and the PID file by which a worker *)
(* learns that a successor has taken over (util/worker-process.ts).        *)
(*                                                                         *)
(* Each worker process is spawned once; a restart is another worker.  A    *)
(* store call is one step, except that a claim reads its candidates and    *)
(* then updates them row by row, and another process may come in between.  *)
(* Times are abstracted to two facts about a row: whether its run_after    *)
(* has passed and whether its started_at is older than the stall timeout.  *)
(***************************************************************************)
EXTENDS Integers, FiniteSets, FiniteSetsExt

CONSTANTS Workers,      \* bound: worker processes ever spawned
          NoWorker,     \* the PID file is missing; nobody claims a row
          Jobs,         \* bound: rows ever inserted
          Key,          \* what a row works on (the slug of an embed job)
          Lane,         \* the lane of a row: "slow", "fast" or "embed"
          Budget,       \* the concurrency of each lane
          MaxAttempts,  \* RETRY_MAX_ATTEMPTS
          MaxDeferrals, \* MAX_DEFERRALS
          Postponed,    \* rows whose handler waits for a configuration
          Racing,       \* whether two launchers may spawn at a time
          Signals       \* whether workers are stopped by SIGTERM

Lanes == {"slow", "fast", "embed"}

ASSUME JobsAssumption ==
  /\ NoWorker \notin Workers
  /\ DOMAIN Key = Jobs
  /\ Lane \in [Jobs -> Lanes] /\ Budget \in [Lanes -> Nat \ {0}]
  /\ MaxAttempts \in Nat \ {0} /\ MaxDeferrals \in Nat \ {0}
  /\ Postponed \subseteq Jobs
  /\ Racing \in BOOLEAN /\ Signals \in BOOLEAN

VARIABLES
  status, attempts, deferrals,
  due,        \* the rows whose run_after has passed
  aged,       \* the rows whose started_at is past the stall timeout
  phase,      \* where each worker process is
  pidFile,    \* the worker the PID file names
  candidates, \* what a worker's claim has selected and not yet updated
  exec,       \* the rows a worker's tick has claimed and not yet resolved
  claimant,   \* history: the worker whose claim a running row stands for
  carries,    \* history: the rows owing the last write of their key
  outdated    \* history: executions that began before that write

rowVars    == <<status, attempts, deferrals, due, aged, claimant>>
workerVars == <<phase, pidFile, candidates, exec>>
writeVars  == <<carries, outdated>>
vars == <<rowVars, workerVars, writeVars>>

Live == {"spawned", "starting", "idle", "claiming", "busy", "stopping"}

TypeOK ==
  /\ status \in [Jobs -> {"absent", "pending", "running", "completed", "failed"}]
  /\ attempts \in [Jobs -> 0..MaxAttempts]
  /\ deferrals \in [Jobs -> 0..MaxDeferrals]
  /\ due \subseteq Jobs /\ aged \subseteq Jobs
  /\ phase \in [Workers -> Live \cup {"off", "dead"}]
  /\ pidFile \in Workers \cup {NoWorker}
  /\ candidates \in [Workers -> SUBSET Jobs]
  /\ exec \in [Workers -> SUBSET Jobs]
  /\ claimant \in [Jobs -> Workers \cup {NoWorker}]
  /\ carries \subseteq Jobs
  /\ outdated \subseteq Workers \X Jobs

Init ==
  /\ status = [j \in Jobs |-> "absent"]
  /\ attempts = [j \in Jobs |-> 0] /\ deferrals = [j \in Jobs |-> 0]
  /\ due = {} /\ aged = {}
  /\ phase = [w \in Workers |-> "off"] /\ pidFile = NoWorker
  /\ candidates = [w \in Workers |-> {}] /\ exec = [w \in Workers |-> {}]
  /\ claimant = [j \in Jobs |-> NoWorker]
  /\ carries = {} /\ outdated = {}

Is(st) == {j \in Jobs : status[j] = st}
Spare(w) == \E v \in Workers \ {w} : phase[v] = "off"

-----------------------------------------------------------------------------
(* The store.                                                              *)

\* The rows in S take the status st; a claim ends when its row is not running.
SetStatus(S, st) ==
  /\ status' = [j \in Jobs |-> IF j \in S THEN st ELSE status[j]]
  /\ claimant' = [j \in Jobs |-> IF j \in S THEN NoWorker ELSE claimant[j]]

\* Variant: an enqueue is coalesced with a running row too.
UpsertIntoRunning(j) ==
  /\ IF \E i \in Is("pending") \cup Is("running") : Key[i] = Key[j]
     THEN status[j] \in {"pending", "running"} /\ UNCHANGED <<rowVars>>
     ELSE /\ status[j] = "absent"
          /\ SetStatus({j}, "pending")
          /\ due' = due \cup {j}
          /\ UNCHANGED <<attempts, deferrals, aged>>
  /\ LET rows == {i \in Jobs : Key[i] = Key[j]}
     IN  /\ carries' = (carries \ rows) \cup {j}
         /\ outdated' = outdated \cup {p \in Workers \X rows : p[2] \in exec[p[1]]}
  /\ UNCHANGED workerVars

\* A page is written and its embed job enqueued: a pending row of the key is
\* reused, a running one never is.
Upsert(j) ==
  /\ IF \E i \in Is("pending") : Key[i] = Key[j]
     THEN status[j] = "pending" /\ UNCHANGED <<rowVars>>
     ELSE /\ status[j] = "absent"
          /\ SetStatus({j}, "pending")
          /\ due' = due \cup {j}
          /\ UNCHANGED <<attempts, deferrals, aged>>
  /\ LET rows == {i \in Jobs : Key[i] = Key[j]}
     IN  /\ carries' = (carries \ rows) \cup {j}
         /\ outdated' = outdated \cup {p \in Workers \X rows : p[2] \in exec[p[1]]}
  /\ UNCHANGED workerVars

\* Variant: a late completion is not guarded on the row's status.
completeUnguarded(j) ==
  /\ SetStatus({j}, "completed")
  /\ UNCHANGED <<attempts, deferrals, due, aged>>

completeMemoryJob(j) ==
  /\ SetStatus({j} \cap Is("running"), "completed")
  /\ UNCHANGED <<attempts, deferrals, due, aged>>

\* The rows of S that are still running are given back: those that have spent
\* their budget fail, the others are pending again, after a delay.
GiveBack(S, spent) ==
  LET rows == S \cap Is("running")
      over == rows \cap spent
  IN  /\ status' = [j \in Jobs |-> IF j \in over THEN "failed"
                                   ELSE IF j \in rows THEN "pending" ELSE status[j]]
      /\ claimant' = [j \in Jobs |-> IF j \in rows THEN NoWorker ELSE claimant[j]]
      /\ due' = due \ (rows \ over)

Count(counter, S) ==
  [j \in Jobs |-> counter[j] + IF j \in S \cap Is("running") THEN 1 ELSE 0]

failMemoryJob(j, maxAttempts) ==
  /\ attempts' = Count(attempts, {j})
  /\ GiveBack({j}, {i \in Jobs : attempts[i] + 1 >= maxAttempts})
  /\ UNCHANGED <<deferrals, aged>>

\* Variant: one deferral more than the limit.
deferOnceMore(S) ==
  /\ deferrals' = Count(deferrals, S)
  /\ GiveBack(S, {i \in Jobs : deferrals[i] + 1 > MaxDeferrals})
  /\ UNCHANGED <<attempts, aged>>

deferMemoryJobs(S) ==
  /\ deferrals' = Count(deferrals, S)
  /\ GiveBack(S, {i \in Jobs : deferrals[i] + 1 >= MaxDeferrals})
  /\ UNCHANGED <<attempts, aged>>

rescheduleMemoryJob(j) ==
  /\ GiveBack({j}, {})
  /\ UNCHANGED <<attempts, deferrals, aged>>

-----------------------------------------------------------------------------
(* Worker processes.                                                       *)

\* A launcher finds no live process behind the PID file and spawns a worker.
SpawnWorker(w) ==
  /\ phase[w] = "off"
  /\ \A v \in Workers : phase[v] \in Live => pidFile # v
  /\ ~ Racing => \A v \in Workers : phase[v] \notin {"spawned", "starting"}
  /\ phase' = [phase EXCEPT ![w] = "spawned"]
  /\ pidFile' = NoWorker
  /\ UNCHANGED <<rowVars, candidates, exec, writeVars>>

WritePidFile(w) ==
  /\ phase[w] = "spawned"
  /\ phase' = [phase EXCEPT ![w] = "starting"]
  /\ pidFile' = w
  /\ UNCHANGED <<rowVars, candidates, exec, writeVars>>

\* Variant: the guard does not check on arming.
StartLoopUnchecked(w) ==
  /\ phase[w] = "starting"
  /\ phase' = [phase EXCEPT ![w] = "idle"]
  /\ SetStatus(Is("running"), "pending")
  /\ UNCHANGED <<attempts, deferrals, due, aged, pidFile, candidates, exec, writeVars>>

\* The guard's check on arming, and, without a pause, the start of the loop.
StartLoop(w) ==
  /\ phase[w] = "starting"
  /\ IF pidFile # w
     THEN phase' = [phase EXCEPT ![w] = "dead"] /\ UNCHANGED <<rowVars>>
     ELSE /\ phase' = [phase EXCEPT ![w] = "idle"]
          /\ SetStatus(Is("running"), "pending")
          /\ UNCHANGED <<attempts, deferrals, due, aged>>
  /\ UNCHANGED <<pidFile, candidates, exec, writeVars>>

\* The process is gone, and with it the executions it had under way.
Exit(w) ==
  /\ phase' = [phase EXCEPT ![w] = "dead"]
  /\ candidates' = [candidates EXCEPT ![w] = {}]
  /\ exec' = [exec EXCEPT ![w] = {}]
  /\ outdated' = {p \in outdated : p[1] # w}
  /\ UNCHANGED <<rowVars, carries>>

\* Variant: the guard only checks on arming.
EvictNever(w) ==
  /\ phase[w] = "starting"
  /\ pidFile # w
  /\ Exit(w)
  /\ UNCHANGED pidFile

\* The periodic check of the PID file guard.
Evict(w) ==
  /\ phase[w] \in {"idle", "busy"}
  /\ pidFile # w
  /\ Exit(w)
  /\ UNCHANGED pidFile

\* SIGTERM to the process the file names: no further tick, the file removed,
\* and the process stays to reap its embedding backend, its tick still running.
Sigterm(w) ==
  /\ Signals
  /\ phase[w] \in {"idle", "busy"}
  /\ pidFile = w
  /\ Spare(w)
  /\ phase' = [phase EXCEPT ![w] = "stopping"]
  /\ pidFile' = NoWorker
  /\ UNCHANGED <<rowVars, candidates, exec, writeVars>>

Reaped(w) ==
  /\ phase[w] = "stopping"
  /\ Exit(w)
  /\ UNCHANGED pidFile

\* The process dies: killed outright, or of an exception it still cleans up
\* after.
Crash(w) ==
  /\ phase[w] \in Live
  /\ Spare(w)
  /\ Exit(w)
  /\ pidFile' \in {pidFile} \cup (IF pidFile = w THEN {NoWorker} ELSE {})

-----------------------------------------------------------------------------
(* A tick of the worker loop: fail what has stalled, claim, resolve.       *)

\* What a claim may take from each lane: nothing while the lifecycle is
\* quiesced; no embed job, or one probe, as the breakers say; else the budget.
LaneLimits ==
  {[l \in Lanes |-> 0], Budget} \cup {[Budget EXCEPT !["embed"] = n] : n \in {0, 1}}

\* Per lane, as many of the rows that are pending and due as the limit allows.
Selections(rows, limit) ==
  {S \in SUBSET rows :
     \A l \in Lanes :
       LET eligible == {j \in rows : Lane[j] = l}
       IN  Cardinality(S \cap eligible) = Min({limit[l], Cardinality(eligible)})}

\* Variant: nothing fails a stalled row.
TickWithoutWatchdog(w, limit) ==
  /\ phase[w] = "idle"
  /\ \E S \in Selections(Is("pending") \cap due, limit) :
       /\ candidates' = [candidates EXCEPT ![w] = S]
       /\ phase' = [phase EXCEPT ![w] = IF S = {} THEN "idle" ELSE "claiming"]
  /\ UNCHANGED <<rowVars, pidFile, exec, writeVars>>

Tick(w, limit) ==
  /\ phase[w] = "idle"
  /\ SetStatus(Is("running") \cap aged, "failed")
  /\ \E S \in Selections(Is("pending") \cap due, limit) :
       /\ candidates' = [candidates EXCEPT ![w] = S]
       /\ phase' = [phase EXCEPT ![w] = IF S = {} THEN "idle" ELSE "claiming"]
  /\ UNCHANGED <<attempts, deferrals, due, aged, pidFile, exec, writeVars>>

\* Variant: the update of a claim does not look at the row's status.
ClaimAnyRow(w, j) ==
  /\ j \in candidates[w]
  /\ candidates' = [candidates EXCEPT ![w] = @ \ {j}]
  /\ status' = [status EXCEPT ![j] = "running"]
  /\ claimant' = [claimant EXCEPT ![j] = w]
  /\ aged' = aged \ {j}
  /\ exec' = [exec EXCEPT ![w] = @ \cup {j}]
  /\ phase' = [phase EXCEPT ![w] = IF candidates'[w] # {} THEN "claiming" ELSE "busy"]
  /\ UNCHANGED <<attempts, deferrals, due, pidFile, writeVars>>

\* One row of the claim: taken if it is still pending, else passed over.
ClaimRow(w, j) ==
  /\ j \in candidates[w]
  /\ candidates' = [candidates EXCEPT ![w] = @ \ {j}]
  /\ IF status[j] = "pending"
     THEN /\ status' = [status EXCEPT ![j] = "running"]
          /\ claimant' = [claimant EXCEPT ![j] = w]
          /\ aged' = aged \ {j}
          /\ exec' = [exec EXCEPT ![w] = @ \cup {j}]
     ELSE UNCHANGED <<status, claimant, aged, exec>>
  /\ phase' = [phase EXCEPT ![w] =
                 IF candidates'[w] # {} THEN "claiming"
                 ELSE IF exec'[w] # {} THEN "busy" ELSE "idle"]
  /\ UNCHANGED <<attempts, deferrals, due, pidFile, writeVars>>

\* The handlers of the rows in S have returned; the tick ends with the last.
Return(w, S) ==
  /\ exec' = [exec EXCEPT ![w] = @ \ S]
  /\ phase' = [phase EXCEPT ![w] = IF @ = "busy" /\ exec'[w] = {} THEN "idle" ELSE @]
  /\ outdated' = outdated \ ({w} \X S)
  /\ UNCHANGED <<pidFile, candidates>>

Resolving(w, j) == phase[w] \in {"busy", "stopping"} /\ j \in exec[w]

\* The handler did its work: what it read of its key is now embedded.
JobCompletes(w, j) ==
  /\ Resolving(w, j)
  /\ completeMemoryJob(j)
  /\ Return(w, {j})
  /\ carries' = IF <<w, j>> \in outdated THEN carries
                ELSE {i \in carries : Key[i] # Key[j]}

JobFails(w, j) ==
  /\ Resolving(w, j)
  /\ \E max \in {1, MaxAttempts} : failMemoryJob(j, max)
  /\ Return(w, {j})
  /\ UNCHANGED carries

\* The handler found a backend unavailable or its breaker open.
JobDefers(w, j) ==
  /\ Resolving(w, j)
  /\ deferMemoryJobs({j})
  /\ Return(w, {j})
  /\ UNCHANGED carries

\* An embed job met a billing block: the rest of its group is deferred unrun.
\* The embed rows here are of one type and no conversation, so of one group.
BillingBlocked(w, j) ==
  LET group == {i \in exec[w] : Lane[i] = "embed"}
  IN  /\ Resolving(w, j)
      /\ Lane[j] = "embed"
      /\ deferMemoryJobs(group)
      /\ Return(w, group)
      /\ UNCHANGED carries

JobPostponed(w, j) ==
  /\ Resolving(w, j)
  /\ j \in Postponed
  /\ rescheduleMemoryJob(j)
  /\ Return(w, {j})
  /\ UNCHANGED carries

\* handleJobError itself threw: the row is left running.
JobLeftRunning(w, j) ==
  /\ Resolving(w, j)
  /\ Return(w, {j})
  /\ UNCHANGED <<rowVars, carries>>

\* A row's run_after passes.
BecomeDue(j) ==
  /\ j \in Is("pending") \ due
  /\ due' = due \cup {j}
  /\ UNCHANGED <<status, attempts, deferrals, aged, claimant, workerVars, writeVars>>

\* A running row grows older than the stall timeout.
Age(j) ==
  /\ j \in Is("running") \ aged
  /\ aged' = aged \cup {j}
  /\ UNCHANGED <<status, attempts, deferrals, due, claimant, workerVars, writeVars>>

Resolve(w, j) ==
  \/ JobCompletes(w, j) \/ JobFails(w, j) \/ JobDefers(w, j)
  \/ BillingBlocked(w, j) \/ JobPostponed(w, j) \/ JobLeftRunning(w, j)

Next ==
  \/ \E j \in Jobs : Upsert(j) \/ BecomeDue(j) \/ Age(j)
  \/ \E w \in Workers :
       \/ SpawnWorker(w) \/ WritePidFile(w) \/ StartLoop(w)
       \/ Evict(w) \/ Sigterm(w) \/ Reaped(w) \/ Crash(w)
       \/ \E limit \in LaneLimits : Tick(w, limit)
       \/ \E j \in Jobs : ClaimRow(w, j) \/ Resolve(w, j)

Spec == Init /\ [][Next]_vars

\* The supervisor respawns a dead worker, the guard's timer and the loop's
\* timer keep firing, handlers return, time passes; a quiesce lease expires
\* and a breaker lets its probe through, so the full budget comes up again.
Fairness ==
  /\ \A j \in Jobs : WF_vars(BecomeDue(j)) /\ WF_vars(Age(j))
  /\ \A w \in Workers :
       /\ WF_vars(SpawnWorker(w)) /\ WF_vars(WritePidFile(w)) /\ WF_vars(StartLoop(w))
       /\ WF_vars(Evict(w)) /\ WF_vars(Reaped(w))
       /\ SF_vars(Tick(w, Budget))
       /\ \A j \in Jobs : WF_vars(ClaimRow(w, j)) /\ WF_vars(Resolve(w, j))

FairSpec == Spec /\ Fairness
-----------------------------------------------------------------------------
(* Properties.                                                             *)

\* A row that has completed or failed keeps that state: neither the late
\* return of an execution whose row the watchdog failed, nor a reset, nor a
\* claim made from an old selection brings it back (the guards on status in
\* every update of jobs-store.ts).
TerminalStays ==
  [][\A j \in Jobs : status[j] \in {"completed", "failed"} => status'[j] = status[j]]_vars

\* While the claim of one worker process on a row stands, no other process
\* claims the row, however their selections and updates interleave
\* (claimMemoryJobs).
ClaimIsExclusive ==
  [][\A j \in Jobs :
       claimant[j] # NoWorker => claimant'[j] \in {claimant[j], NoWorker}]_vars

\* A worker that starts up after it was superseded does not reset the rows of
\* the worker that the PID file names (startWorkerPidFileGuard's check on
\* arming): a running row of that worker goes back to pending only because an
\* execution of it returned.
NamedWorkerKeepsItsRows ==
  [][exec' = exec =>
       \A j \in Is("running") : claimant[j] = pidFile => status'[j] # "pending"]_vars

\* The last write of a page is never lost: the row that carries it is not
\* completed before an execution that began after the write has done its work,
\* or is about to (upsertEmbedConceptPageJob: "A running row never matches: it
\* may have already read a pre-write snapshot of the page, so the new enqueue
\* must survive it").
WriteNotLost ==
  \A j \in carries :
    status[j] = "completed" =>
      \E w \in Workers : j \in exec[w] /\ <<w, j>> \notin outdated

\* Every job ends: a pending row is eventually completed or failed, through
\* crashes of its worker, stalls, deferrals and retries.
JobEnds ==
  \A j \in Jobs : status[j] = "pending" ~> status[j] \in {"completed", "failed"}

\* Two worker processes do not go on draining the same queue: one that the PID
\* file does not name, or no longer names, comes to an end, evicted if it does
\* not stop by itself (startWorkerPidFileGuard).
SupersededWorkerEnds ==
  \A w \in Workers :
    (phase[w] \in {"idle", "claiming", "busy", "stopping"} /\ pidFile # w)
      ~> phase[w] = "dead"
=============================================================================
