-------------------------- MODULE MemoryJobsProofs --------------------------
(***************************************************************************)
(* What the guards on a row's status buy, for any number of worker         *)
(* processes, rows, lanes and limits.  Every store call moves each row     *)
(* along one edge of its life, or leaves it alone; that lemma, RowMoves,   *)
(* carries the theorems about a row.  The later sections prove the types,  *)
(* what the PID file protects, and that no write of a page is lost.        *)
(***************************************************************************)
EXTENDS MemoryJobs, TLAPS

Statuses == {"absent", "pending", "running", "completed", "failed"}

\* The part of TypeOK about a row's status and claim, and that only a running
\* row is claimed.
RowInv ==
  /\ status \in [Jobs -> Statuses]
  /\ claimant \in [Jobs -> Workers \cup {NoWorker}]
  /\ \A j \in Jobs : claimant[j] # NoWorker => status[j] = "running"

\* The life of one row.
Stays(j)    == status'[j] = status[j] /\ claimant'[j] = claimant[j]
Inserted(j) == status[j] = "absent" /\ status'[j] = "pending" /\ claimant'[j] = NoWorker
Claimed(j)  == status[j] = "pending" /\ status'[j] = "running" /\ claimant'[j] \in Workers
Ended(j)    == /\ status[j] = "running"
               /\ status'[j] \in {"pending", "completed", "failed"}
               /\ claimant'[j] = NoWorker
Moves == /\ \A j \in Jobs : Stays(j) \/ Inserted(j) \/ Claimed(j) \/ Ended(j)
         /\ status' \in [Jobs -> Statuses]
         /\ claimant' \in [Jobs -> Workers \cup {NoWorker}]

\* A set of running rows given another status only ends their claims
\* (completeMemoryJob, resetRunningJobsToPending, failStalledJobs).
LEMMA SetStatusMoves ==
  ASSUME RowInv, NEW S \in SUBSET Is("running"),
         NEW st \in {"pending", "completed", "failed"}, SetStatus(S, st)
  PROVE  Moves
  BY DEF RowInv, Is, SetStatus, Moves, Stays, Ended, Statuses

\* Rows given back (failMemoryJob, deferMemoryJob, rescheduleMemoryJob) are
\* rows that were still running.
LEMMA GiveBackMoves ==
  ASSUME RowInv, NEW S, NEW spent, GiveBack(S, spent)
  PROVE  Moves
<1> DEFINE rows == S \cap Is("running")
           over == rows \cap spent
<1>1. /\ status' = [j \in Jobs |-> IF j \in over THEN "failed"
                                   ELSE IF j \in rows THEN "pending" ELSE status[j]]
      /\ claimant' = [j \in Jobs |-> IF j \in rows THEN NoWorker ELSE claimant[j]]
  BY DEF GiveBack
<1>2. over \subseteq rows /\ \A j \in rows : j \in Jobs /\ status[j] = "running"
  BY DEF Is
<1> HIDE DEF rows, over
<1>. QED
  BY <1>1, <1>2 DEF RowInv, Moves, Stays, Ended, Statuses

\* A handler's return, whatever its outcome, moves rows along their lives.
LEMMA ResolveMoves ==
  ASSUME RowInv, NEW w \in Workers, NEW j \in Jobs, Resolve(w, j)
  PROVE  Moves
<1>1. CASE JobCompletes(w, j)
  <2>1. {j} \cap Is("running") \in SUBSET Is("running")
    OBVIOUS
  <2>2. SetStatus({j} \cap Is("running"), "completed")
    BY <1>1 DEF JobCompletes, completeMemoryJob
  <2>. QED BY <2>1, <2>2, SetStatusMoves
<1>2. CASE JobFails(w, j)
  <2>1. PICK max \in {1, MaxAttempts} : failMemoryJob(j, max)
    BY <1>2 DEF JobFails
  <2>2. GiveBack({j}, {i \in Jobs : attempts[i] + 1 >= max})
    BY <2>1 DEF failMemoryJob
  <2>. QED BY <2>2, GiveBackMoves
<1>3. CASE JobDefers(w, j)
  <2>1. GiveBack({j}, {i \in Jobs : deferrals[i] + 1 >= MaxDeferrals})
    BY <1>3 DEF JobDefers, deferMemoryJobs
  <2>. QED BY <2>1, GiveBackMoves
<1>4. CASE BillingBlocked(w, j)
  <2>1. GiveBack({i \in exec[w] : Lane[i] = "embed"},
                 {i \in Jobs : deferrals[i] + 1 >= MaxDeferrals})
    BY <1>4 DEF BillingBlocked, deferMemoryJobs
  <2>. QED BY <2>1, GiveBackMoves
<1>5. CASE JobPostponed(w, j)
  <2>1. GiveBack({j}, {})
    BY <1>5 DEF JobPostponed, rescheduleMemoryJob
  <2>. QED BY <2>1, GiveBackMoves
<1>6. CASE JobLeftRunning(w, j)
  BY <1>6 DEF JobLeftRunning, rowVars, RowInv, Moves, Stays
<1>. QED
  BY <1>1, <1>2, <1>3, <1>4, <1>5, <1>6 DEF Resolve

\* Every step of the queue and of its worker processes moves each row along
\* one edge of its life or leaves it alone.
LEMMA RowMoves == RowInv /\ [Next]_vars => Moves
<1> SUFFICES ASSUME RowInv, [Next]_vars PROVE Moves
  OBVIOUS
<1>1. ASSUME UNCHANGED <<status, claimant>> PROVE Moves
  BY <1>1 DEF RowInv, Moves, Stays
<1>2. ASSUME NEW j \in Jobs, Upsert(j) PROVE Moves
  <2>1. CASE \E i \in Is("pending") : Key[i] = Key[j]
    BY <1>1, <1>2, <2>1 DEF Upsert, rowVars
  <2>2. CASE ~ \E i \in Is("pending") : Key[i] = Key[j]
    <3>1. status[j] = "absent" /\ SetStatus({j}, "pending")
      BY <1>2, <2>2 DEF Upsert
    <3>. QED BY <3>1 DEF SetStatus, RowInv, Moves, Stays, Inserted, Statuses
  <2>. QED BY <2>1, <2>2
<1>3. ASSUME NEW j \in Jobs, BecomeDue(j) \/ Age(j) PROVE Moves
  BY <1>1, <1>3 DEF BecomeDue, Age
<1>4. ASSUME NEW w \in Workers, SpawnWorker(w) \/ WritePidFile(w) \/ Sigterm(w) PROVE Moves
  BY <1>1, <1>4 DEF SpawnWorker, WritePidFile, Sigterm, rowVars
<1>5. ASSUME NEW w \in Workers, Evict(w) \/ Reaped(w) \/ Crash(w) PROVE Moves
  BY <1>1, <1>5 DEF Evict, Reaped, Crash, Exit, rowVars
<1>6. ASSUME NEW w \in Workers, StartLoop(w) PROVE Moves
  <2>1. CASE pidFile # w
    BY <1>1, <1>6, <2>1 DEF StartLoop, rowVars
  <2>2. CASE pidFile = w
    <3>1. SetStatus(Is("running"), "pending")
      BY <1>6, <2>2 DEF StartLoop
    <3>. QED BY <3>1, SetStatusMoves
  <2>. QED BY <2>1, <2>2
<1>7. ASSUME NEW w \in Workers, NEW limit \in LaneLimits, Tick(w, limit) PROVE Moves
  <2>1. SetStatus(Is("running") \cap aged, "failed")
    BY <1>7 DEF Tick
  <2>. QED BY <2>1, SetStatusMoves
<1>8. ASSUME NEW w \in Workers, NEW j \in Jobs, ClaimRow(w, j) PROVE Moves
  <2>1. CASE status[j] = "pending"
    BY <1>8, <2>1 DEF ClaimRow, RowInv, Moves, Stays, Claimed, Statuses
  <2>2. CASE status[j] # "pending"
    BY <1>1, <1>8, <2>2 DEF ClaimRow
  <2>. QED BY <2>1, <2>2
<1>9. ASSUME NEW w \in Workers, NEW j \in Jobs, Resolve(w, j) PROVE Moves
  BY <1>9, ResolveMoves
<1>10. CASE UNCHANGED vars
  BY <1>1, <1>10 DEF vars, rowVars
<1>. QED
  BY <1>2, <1>3, <1>4, <1>5, <1>6, <1>7, <1>8, <1>9, <1>10 DEF Next

\* Along those edges a claim stands only on a running row.
LEMMA MovesKeepRowInv == RowInv /\ Moves => RowInv'
  BY JobsAssumption DEF RowInv, Moves, Stays, Inserted, Claimed, Ended, Statuses

\* In every reachable state only a running row is claimed.
THEOREM JobsRowInv == Spec => []RowInv
<1>1. Init => RowInv
  BY DEF Init, RowInv, Statuses
<1>2. RowInv /\ [Next]_vars => RowInv'
  BY RowMoves, MovesKeepRowInv
<1>. QED
  BY <1>1, <1>2, PTL DEF Spec

\* A row that completed or failed keeps that state, whatever late executions,
\* watchdogs, resets and claims of however many processes write to it.
THEOREM JobsTerminalStays == Spec => TerminalStays
<1>1. Moves => \A j \in Jobs : status[j] \in {"completed", "failed"} => status'[j] = status[j]
  BY DEF Moves, Stays, Inserted, Claimed, Ended
<1>2. RowInv /\ [Next]_vars =>
        [\A j \in Jobs : status[j] \in {"completed", "failed"} => status'[j] = status[j]]_vars
  BY RowMoves, <1>1
<1>. QED
  BY <1>2, JobsRowInv, PTL DEF Spec, TerminalStays

\* Two processes whose claims interleave never both hold a claim on a row.
THEOREM JobsClaimIsExclusive == Spec => ClaimIsExclusive
<1>1. RowInv /\ Moves => \A j \in Jobs :
        claimant[j] # NoWorker => claimant'[j] \in {claimant[j], NoWorker}
  BY DEF RowInv, Moves, Stays, Inserted, Claimed, Ended
<1>2. RowInv /\ [Next]_vars =>
        [\A j \in Jobs :
           claimant[j] # NoWorker => claimant'[j] \in {claimant[j], NoWorker}]_vars
  BY RowMoves, <1>1
<1>. QED
  BY <1>2, JobsRowInv, PTL DEF Spec, ClaimIsExclusive

-----------------------------------------------------------------------------
(* The types of the queue, with the counters below their limits.           *)

Open == {"absent", "pending", "running"}

\* A row that is not at its end has budget left for one more failure and one
\* more deferral.
BudgetLeft ==
  \A j \in Jobs : status[j] \in Open =>
    attempts[j] < MaxAttempts /\ deferrals[j] < MaxDeferrals

\* What failMemoryJob and deferMemoryJobs make of a counter with limit N, when
\* the rows that reach max, at most N, fail.
LEMMA CountedRows ==
  ASSUME RowInv, NEW N \in Nat, NEW counter \in [Jobs -> 0..N],
         NEW max \in Nat, max <= N, NEW S,
         \A j \in Jobs : status[j] \in Open => counter[j] < N,
         GiveBack(S, {i \in Jobs : counter[i] + 1 >= max})
  PROVE  /\ Count(counter, S) \in [Jobs -> 0..N]
         /\ \A j \in Jobs : status'[j] \in Open => Count(counter, S)[j] < N
<1> DEFINE rows == S \cap Is("running")
           spent == {i \in Jobs : counter[i] + 1 >= max}
           c == Count(counter, S)
<1>1. \A j \in Jobs : c[j] = IF j \in rows THEN counter[j] + 1 ELSE counter[j]
  BY DEF Count
<1>2. \A j \in Jobs : status'[j] = IF j \in rows \cap spent THEN "failed"
                                   ELSE IF j \in rows THEN "pending" ELSE status[j]
  BY DEF GiveBack
<1>3. \A j \in rows : j \in Jobs /\ status[j] = "running"
  BY DEF Is
<1>4. \A j \in Jobs : c[j] \in 0..N
  BY <1>1, <1>3 DEF Open
<1>5. c \in [Jobs -> 0..N]
  BY <1>4 DEF Count
<1>6. ASSUME NEW j \in Jobs, status'[j] \in Open PROVE c[j] < N
  <2>1. CASE j \in rows
    <3>1. j \notin spent
      BY <1>2, <1>6, <2>1 DEF Open
    <3>2. counter[j] + 1 < max
      BY <3>1
    <3> QED BY <1>1, <2>1, <3>2
  <2>2. CASE j \notin rows
    BY <1>1, <1>2, <1>6, <2>2
  <2> QED BY <2>1, <2>2
<1> QED BY <1>5, <1>6

\* The counters are below their limits until the step that ends the row.
CountersOK ==
  /\ attempts \in [Jobs -> 0..MaxAttempts]
  /\ deferrals \in [Jobs -> 0..MaxDeferrals]
  /\ BudgetLeft

\* A row that is not at its end after a step was not at its end before it.
LEMMA SameCounters ==
  ASSUME CountersOK, Moves, UNCHANGED <<attempts, deferrals>>
  PROVE  CountersOK'
<1>1. \A j \in Jobs : status'[j] \in Open => status[j] \in Open
  BY DEF Moves, Stays, Inserted, Claimed, Ended, Open
<1> QED BY <1>1 DEF CountersOK, BudgetLeft

\* Failures and deferrals keep the counters within their limits.
LEMMA CountersStep == ASSUME RowInv, CountersOK, [Next]_vars PROVE CountersOK'
<1>0. Moves
  BY RowMoves
<1>1. ASSUME UNCHANGED <<attempts, deferrals>> PROVE CountersOK'
  BY <1>0, <1>1, SameCounters
<1>2. ASSUME NEW j \in Jobs, NEW max \in {1, MaxAttempts}, failMemoryJob(j, max)
      PROVE  CountersOK'
  <2>1. /\ attempts' = Count(attempts, {j}) /\ deferrals' = deferrals
        /\ GiveBack({j}, {i \in Jobs : attempts[i] + 1 >= max})
    BY <1>2 DEF failMemoryJob
  <2>2. /\ MaxAttempts \in Nat /\ max \in Nat /\ max <= MaxAttempts
        /\ attempts \in [Jobs -> 0..MaxAttempts]
        /\ \A i \in Jobs : status[i] \in Open => attempts[i] < MaxAttempts
    BY <1>2, JobsAssumption DEF CountersOK, BudgetLeft
  <2>3. /\ attempts' \in [Jobs -> 0..MaxAttempts]
        /\ \A i \in Jobs : status'[i] \in Open => attempts'[i] < MaxAttempts
    BY <2>1, <2>2, CountedRows
  <2>4. \A i \in Jobs : status'[i] \in Open => status[i] \in Open
    BY <1>0 DEF Moves, Stays, Inserted, Claimed, Ended, Open
  <2> QED BY <2>1, <2>3, <2>4 DEF CountersOK, BudgetLeft
<1>3. ASSUME NEW S, deferMemoryJobs(S) PROVE CountersOK'
  <2>1. /\ deferrals' = Count(deferrals, S) /\ attempts' = attempts
        /\ GiveBack(S, {i \in Jobs : deferrals[i] + 1 >= MaxDeferrals})
    BY <1>3 DEF deferMemoryJobs
  <2>2. /\ MaxDeferrals \in Nat /\ MaxDeferrals <= MaxDeferrals
        /\ deferrals \in [Jobs -> 0..MaxDeferrals]
        /\ \A i \in Jobs : status[i] \in Open => deferrals[i] < MaxDeferrals
    BY JobsAssumption DEF CountersOK, BudgetLeft
  <2>3. /\ deferrals' \in [Jobs -> 0..MaxDeferrals]
        /\ \A i \in Jobs : status'[i] \in Open => deferrals'[i] < MaxDeferrals
    BY <2>1, <2>2, CountedRows
  <2>4. \A i \in Jobs : status'[i] \in Open => status[i] \in Open
    BY <1>0 DEF Moves, Stays, Inserted, Claimed, Ended, Open
  <2> QED BY <2>1, <2>3, <2>4 DEF CountersOK, BudgetLeft
<1>4. ASSUME NEW w \in Workers, NEW j \in Jobs, Resolve(w, j) PROVE CountersOK'
  <2>1. CASE JobCompletes(w, j) \/ JobPostponed(w, j) \/ JobLeftRunning(w, j)
    BY <1>1, <2>1
    DEF JobCompletes, completeMemoryJob, JobPostponed, rescheduleMemoryJob, JobLeftRunning, rowVars
  <2>2. CASE JobFails(w, j)
    BY <1>2, <2>2 DEF JobFails
  <2>3. CASE JobDefers(w, j) \/ BillingBlocked(w, j)
    BY <1>3, <2>3 DEF JobDefers, BillingBlocked
  <2> QED BY <1>4, <2>1, <2>2, <2>3 DEF Resolve
<1>5. ASSUME NEW j \in Jobs, Upsert(j) \/ BecomeDue(j) \/ Age(j) PROVE CountersOK'
  BY <1>1, <1>5 DEF Upsert, BecomeDue, Age, rowVars
<1>6. ASSUME NEW w \in Workers,
             \/ SpawnWorker(w) \/ WritePidFile(w) \/ StartLoop(w)
             \/ Evict(w) \/ Sigterm(w) \/ Reaped(w) \/ Crash(w)
      PROVE  CountersOK'
  BY <1>1, <1>6
  DEF SpawnWorker, WritePidFile, StartLoop, Evict, Sigterm, Reaped, Crash, Exit, rowVars
<1>7. ASSUME NEW w \in Workers, NEW limit \in LaneLimits, Tick(w, limit) PROVE CountersOK'
  BY <1>1, <1>7 DEF Tick
<1>8. ASSUME NEW w \in Workers, NEW j \in Jobs, ClaimRow(w, j) PROVE CountersOK'
  BY <1>1, <1>8 DEF ClaimRow
<1>9. CASE UNCHANGED vars
  BY <1>1, <1>9 DEF vars, rowVars
<1> QED BY <1>4, <1>5, <1>6, <1>7, <1>8, <1>9 DEF Next

\* The rows' clocks, the processes and the history have their types.
WorkerTypes ==
  /\ due \subseteq Jobs /\ aged \subseteq Jobs
  /\ phase \in [Workers -> Live \cup {"off", "dead"}]
  /\ pidFile \in Workers \cup {NoWorker}
  /\ candidates \in [Workers -> SUBSET Jobs]
  /\ exec \in [Workers -> SUBSET Jobs]
  /\ carries \subseteq Jobs
  /\ outdated \subseteq Workers \X Jobs

\* And keep them.
LEMMA WorkerTypesStep == ASSUME WorkerTypes, [Next]_vars PROVE WorkerTypes'
<1> USE DEF WorkerTypes, Live
<1>1. ASSUME NEW j \in Jobs, Upsert(j) PROVE WorkerTypes'
  <2>1. due' \in {due, due \cup {j}} /\ aged' = aged /\ UNCHANGED workerVars
    BY <1>1 DEF Upsert, rowVars
  <2>2. carries' \subseteq Jobs /\ outdated' \subseteq Workers \X Jobs
    BY <1>1 DEF Upsert
  <2> QED BY <2>1, <2>2 DEF workerVars
<1>2. ASSUME NEW j \in Jobs, BecomeDue(j) \/ Age(j) PROVE WorkerTypes'
  BY <1>2 DEF BecomeDue, Age, workerVars, writeVars
<1>3. ASSUME NEW w \in Workers, SpawnWorker(w) \/ WritePidFile(w) \/ StartLoop(w) \/ Sigterm(w)
      PROVE  WorkerTypes'
  BY <1>3 DEF SpawnWorker, WritePidFile, StartLoop, Sigterm, rowVars, writeVars
<1>4. ASSUME NEW w \in Workers, Evict(w) \/ Reaped(w) \/ Crash(w) PROVE WorkerTypes'
  BY <1>4 DEF Evict, Reaped, Crash, Exit, rowVars
<1>5. ASSUME NEW w \in Workers, NEW limit \in LaneLimits, Tick(w, limit) PROVE WorkerTypes'
  BY <1>5 DEF Tick, Selections, Is, writeVars
<1>6. ASSUME NEW w \in Workers, NEW j \in Jobs, ClaimRow(w, j) PROVE WorkerTypes'
  BY <1>6 DEF ClaimRow, writeVars
<1>7. ASSUME NEW w \in Workers, NEW j \in Jobs, Resolve(w, j) PROVE WorkerTypes'
  <2>1. due' \subseteq due /\ aged' = aged /\ carries' \subseteq carries
    BY <1>7 DEF Resolve, JobCompletes, JobFails, JobDefers, BillingBlocked, JobPostponed,
                JobLeftRunning, completeMemoryJob, failMemoryJob, deferMemoryJobs,
                rescheduleMemoryJob, GiveBack, rowVars
  <2>2. PICK S : Return(w, S)
    BY <1>7 DEF Resolve, JobCompletes, JobFails, JobDefers, BillingBlocked, JobPostponed,
                JobLeftRunning
  <2> QED BY <2>1, <2>2 DEF Return
<1>8. CASE UNCHANGED vars
  BY <1>8 DEF vars, rowVars, workerVars, writeVars
<1> QED BY <1>1, <1>2, <1>3, <1>4, <1>5, <1>6, <1>7, <1>8 DEF Next

\* The memory job queue has its types for any rows, processes and limits: in
\* particular no row is charged more failures or deferrals than its limit.
THEOREM JobsTypes == Spec => []TypeOK
<1>1. Init => CountersOK /\ WorkerTypes
  BY JobsAssumption DEF Init, CountersOK, BudgetLeft, WorkerTypes
<1>2. RowInv /\ CountersOK /\ WorkerTypes => TypeOK
  BY DEF RowInv, CountersOK, WorkerTypes, TypeOK, Statuses
<1>3. RowInv /\ CountersOK /\ [Next]_vars => CountersOK'
  BY CountersStep
<1>4. WorkerTypes /\ [Next]_vars => WorkerTypes'
  BY WorkerTypesStep
<1> QED BY <1>1, <1>2, <1>3, <1>4, JobsRowInv, PTL DEF Spec

-----------------------------------------------------------------------------
(* Processes that start.                                                   *)

\* Only a process that has started its loop claims rows, and it claims them
\* in no other phase.
ClaimsFollowStart ==
  /\ \A j \in Jobs : claimant[j] # NoWorker =>
       phase[claimant[j]] \notin {"off", "spawned", "starting"}
  /\ \A w \in Workers : candidates[w] # {} => phase[w] = "claiming"

\* A process never goes back to where it was before its loop.
LEMMA StartsOnce ==
  ASSUME RowInv, WorkerTypes, ClaimsFollowStart, [Next]_vars
  PROVE  ClaimsFollowStart'
<1> USE DEF WorkerTypes
<1> DEFINE Young == {"off", "spawned", "starting"}
<1>0. Moves
  BY RowMoves
<1>1. ASSUME \A w \in Workers : phase'[w] \in Young => phase[w] \in Young,
             \A j \in Jobs : claimant'[j] \in {claimant[j], NoWorker},
             \A w \in Workers : candidates'[w] # {} => phase'[w] = "claiming"
      PROVE  ClaimsFollowStart'
  BY <1>1 DEF ClaimsFollowStart, RowInv
<1>2. ASSUME UNCHANGED workerVars, ~ \E j \in Jobs : Claimed(j) PROVE ClaimsFollowStart'
  <2>1. \A j \in Jobs : claimant'[j] \in {claimant[j], NoWorker}
    BY <1>0, <1>2 DEF Moves, Stays, Inserted, Ended
  <2>2. \A w \in Workers : candidates'[w] # {} => phase'[w] = "claiming"
    BY <1>2 DEF workerVars, ClaimsFollowStart
  <2>3. phase' = phase
    BY <1>2 DEF workerVars
  <2> QED BY <1>1, <2>1, <2>2, <2>3
<1>3. ASSUME NEW j \in Jobs, Upsert(j) \/ BecomeDue(j) \/ Age(j) PROVE ClaimsFollowStart'
  <2>1. UNCHANGED workerVars
    BY <1>3 DEF Upsert, BecomeDue, Age
  <2>2. \A i \in Jobs : status'[i] # "running" \/ status[i] = "running"
    BY <1>3 DEF Upsert, BecomeDue, Age, rowVars, SetStatus
  <2> QED BY <1>2, <2>1, <2>2 DEF Claimed
<1>4. ASSUME NEW w \in Workers, SpawnWorker(w) \/ WritePidFile(w) \/ Sigterm(w)
      PROVE  ClaimsFollowStart'
  <2>1. /\ claimant' = claimant /\ candidates' = candidates
        /\ phase[w] # "claiming"
        /\ \E next \in {"spawned", "starting", "stopping"} : phase' = [phase EXCEPT ![w] = next]
        /\ phase'[w] \in Young => phase[w] \in Young
    BY <1>4 DEF SpawnWorker, WritePidFile, Sigterm, rowVars
  <2>2. \A v \in Workers \ {w} : phase'[v] = phase[v]
    BY <2>1
  <2> QED BY <1>1, <2>1, <2>2 DEF ClaimsFollowStart
<1>5. ASSUME NEW w \in Workers, Evict(w) \/ Reaped(w) \/ Crash(w) PROVE ClaimsFollowStart'
  <2>1. /\ claimant' = claimant /\ phase' = [phase EXCEPT ![w] = "dead"]
        /\ candidates' = [candidates EXCEPT ![w] = {}]
    BY <1>5 DEF Evict, Reaped, Crash, Exit, rowVars
  <2>2. phase'[w] = "dead" /\ candidates'[w] = {}
        /\ \A v \in Workers \ {w} : phase'[v] = phase[v] /\ candidates'[v] = candidates[v]
    BY <2>1
  <2> QED BY <1>1, <2>1, <2>2 DEF ClaimsFollowStart
<1>6. ASSUME NEW w \in Workers, StartLoop(w) PROVE ClaimsFollowStart'
  <2>1. /\ phase[w] = "starting" /\ candidates' = candidates
        /\ \E next \in {"dead", "idle"} : phase' = [phase EXCEPT ![w] = next]
        /\ \A j \in Jobs : claimant'[j] \in {claimant[j], NoWorker}
    BY <1>6 DEF StartLoop, SetStatus, rowVars
  <2>2. phase'[w] \in {"dead", "idle"} /\ \A v \in Workers \ {w} : phase'[v] = phase[v]
    BY <2>1
  <2> QED BY <1>1, <2>1, <2>2 DEF ClaimsFollowStart
<1>7. ASSUME NEW w \in Workers, NEW limit \in LaneLimits, Tick(w, limit)
      PROVE  ClaimsFollowStart'
  <2>1. PICK S : /\ candidates' = [candidates EXCEPT ![w] = S]
                 /\ phase' = [phase EXCEPT ![w] = IF S = {} THEN "idle" ELSE "claiming"]
    BY <1>7 DEF Tick
  <2>2. candidates'[w] # {} => phase'[w] = "claiming"
    BY <2>1
  <2>3. /\ phase'[w] \in {"idle", "claiming"}
        /\ \A v \in Workers \ {w} : phase'[v] = phase[v] /\ candidates'[v] = candidates[v]
    BY <2>1
  <2>4. \A j \in Jobs : claimant'[j] \in {claimant[j], NoWorker}
    BY <1>7 DEF Tick, SetStatus
  <2> QED BY <1>1, <2>2, <2>3, <2>4 DEF ClaimsFollowStart
<1>8. ASSUME NEW w \in Workers, NEW j \in Jobs, ClaimRow(w, j) PROVE ClaimsFollowStart'
  <2>1. phase[w] = "claiming"
    BY <1>8 DEF ClaimRow, ClaimsFollowStart
  <2>2. /\ phase'[w] \in {"claiming", "busy", "idle"}
        /\ candidates'[w] # {} => phase'[w] = "claiming"
        /\ \A v \in Workers \ {w} : phase'[v] = phase[v] /\ candidates'[v] = candidates[v]
    BY <1>8 DEF ClaimRow
  <2>3. \A i \in Jobs : claimant'[i] \in {claimant[i], w}
    BY <1>8 DEF ClaimRow, RowInv
  <2>4. \A i \in Jobs : claimant'[i] # NoWorker => phase'[claimant'[i]] \notin Young
    <3> SUFFICES ASSUME NEW i \in Jobs, claimant'[i] # NoWorker
                 PROVE  phase'[claimant'[i]] \notin Young
      OBVIOUS
    <3>1. CASE claimant'[i] = w
      BY <2>2, <3>1
    <3>2. CASE claimant'[i] = claimant[i] /\ claimant[i] # w
      <4>1. claimant[i] \in Workers \ {w} /\ phase[claimant[i]] \notin Young
        BY <3>2 DEF RowInv, ClaimsFollowStart
      <4> QED BY <2>2, <3>2, <4>1
    <3> QED BY <2>3, <3>1, <3>2
  <2> QED BY <2>2, <2>4 DEF ClaimsFollowStart
<1>9. ASSUME NEW w \in Workers, NEW j \in Jobs, Resolve(w, j) PROVE ClaimsFollowStart'
  <2>1. PICK S : Return(w, S)
    BY <1>9 DEF Resolve, JobCompletes, JobFails, JobDefers, BillingBlocked, JobPostponed,
                JobLeftRunning
  <2>2. phase[w] \in {"busy", "stopping"}
    BY <1>9 DEF Resolve, JobCompletes, JobFails, JobDefers, BillingBlocked, JobPostponed,
                JobLeftRunning, Resolving
  <2>3. /\ candidates' = candidates /\ phase'[w] \in {phase[w], "idle"}
        /\ \A v \in Workers \ {w} : phase'[v] = phase[v]
    BY <2>1 DEF Return
  <2>4. \A i \in Jobs : claimant'[i] \in {claimant[i], NoWorker}
    BY <1>9 DEF Resolve, JobCompletes, JobFails, JobDefers, BillingBlocked, JobPostponed,
                JobLeftRunning, completeMemoryJob, failMemoryJob, deferMemoryJobs,
                rescheduleMemoryJob, GiveBack, SetStatus, rowVars
  <2> QED BY <1>1, <2>2, <2>3, <2>4 DEF ClaimsFollowStart
<1>10. CASE UNCHANGED vars
  BY <1>2, <1>10 DEF vars, rowVars, Claimed
<1> QED BY <1>3, <1>4, <1>5, <1>6, <1>7, <1>8, <1>9, <1>10 DEF Next

\* A worker that starts up late does not reset the rows of the one that the
\* PID file names, however launches, signals and deaths interleave.
THEOREM JobsNamedWorker == Spec => NamedWorkerKeepsItsRows
<1>1. Init => WorkerTypes /\ ClaimsFollowStart
  BY DEF Init, WorkerTypes, ClaimsFollowStart
<1>2. ASSUME RowInv, WorkerTypes, ClaimsFollowStart, [Next]_vars,
             exec' = exec, NEW j \in Is("running"), claimant[j] = pidFile
      PROVE  status'[j] # "pending"
  <2>0. j \in Jobs /\ status[j] = "running"
    BY DEF Is
  <2>1. ASSUME NEW i \in Jobs, Upsert(i) \/ BecomeDue(i) \/ Age(i) PROVE status'[j] # "pending"
    BY <2>0, <2>1 DEF Upsert, SetStatus, BecomeDue, Age, rowVars
  <2>2. ASSUME NEW w \in Workers,
               \/ SpawnWorker(w) \/ WritePidFile(w)
               \/ Evict(w) \/ Sigterm(w) \/ Reaped(w) \/ Crash(w)
        PROVE  status'[j] # "pending"
    BY <2>0, <2>2 DEF SpawnWorker, WritePidFile, Evict, Sigterm, Reaped, Crash, Exit, rowVars
  <2>3. ASSUME NEW w \in Workers, StartLoop(w) PROVE status'[j] # "pending"
    <3>1. CASE pidFile # w
      BY <2>0, <2>3, <3>1 DEF StartLoop, rowVars
    <3>2. CASE pidFile = w
      BY <1>2, <2>0, <2>3, <3>2, JobsAssumption DEF StartLoop, ClaimsFollowStart
    <3> QED BY <3>1, <3>2
  <2>4. ASSUME NEW w \in Workers, NEW limit \in LaneLimits, Tick(w, limit)
        PROVE  status'[j] # "pending"
    BY <2>0, <2>4 DEF Tick, SetStatus
  <2>5. ASSUME NEW w \in Workers, NEW i \in Jobs, ClaimRow(w, i) PROVE status'[j] # "pending"
    BY <1>2, <2>0, <2>5 DEF ClaimRow, RowInv
  <2>6. ASSUME NEW w \in Workers, NEW i \in Jobs, Resolve(w, i) PROVE FALSE
    <3>1. i \in exec[w] /\ \E S : i \in S /\ Return(w, S)
      BY <2>6 DEF Resolve, JobCompletes, JobFails, JobDefers, BillingBlocked, JobPostponed,
                  JobLeftRunning, Resolving
    <3>2. i \notin exec'[w]
      BY <1>2, <3>1 DEF Return, WorkerTypes
    <3> QED BY <1>2, <3>1, <3>2
  <2>7. CASE UNCHANGED vars
    BY <2>0, <2>7 DEF vars, rowVars
  <2> QED BY <1>2, <2>1, <2>2, <2>3, <2>4, <2>5, <2>6, <2>7 DEF Next
<1>3. WorkerTypes /\ [Next]_vars => WorkerTypes'
  BY WorkerTypesStep
<1>4. RowInv /\ WorkerTypes /\ ClaimsFollowStart /\ [Next]_vars => ClaimsFollowStart'
  BY StartsOnce
<1>5. RowInv /\ WorkerTypes /\ ClaimsFollowStart /\ [Next]_vars =>
        [exec' = exec =>
           \A j \in Is("running") : claimant[j] = pidFile => status'[j] # "pending"]_vars
  BY <1>2
<1> QED BY <1>1, <1>3, <1>4, <1>5, JobsRowInv, PTL DEF Spec, NamedWorkerKeepsItsRows

-----------------------------------------------------------------------------
(* Processes that do not overlap: launches do not race and no process is   *)
(* left working after SIGTERM.                                             *)

\* At most one process lives, and it is in the PID file once it has written it.
OneWorker ==
  /\ \A v \in Workers : phase[v] \in Live =>
       phase[v] = "spawned" \/ (phase[v] # "stopping" /\ pidFile = v)
  /\ \A v, w \in Workers : phase[v] \in Live /\ phase[w] \in Live => v = w

\* A step by which one process w moves from one phase to another.
LEMMA PhaseKeepsOne ==
  ASSUME WorkerTypes, OneWorker, NEW w \in Workers, phase[w] \in Live,
         \A v \in Workers \ {w} : phase'[v] = phase[v],
         \/ phase'[w] \notin Live
         \/ phase'[w] \in {"starting", "idle", "claiming", "busy"} /\ pidFile' = w
  PROVE  OneWorker'
<1>1. \A v \in Workers \ {w} : phase[v] \notin Live
  BY DEF OneWorker
<1>2. "stopping" \notin {"starting", "idle", "claiming", "busy"}
  OBVIOUS
<1> QED BY <1>1, <1>2 DEF OneWorker

\* Launches that do not race keep it so.
LEMMA OneWorkerStep ==
  ASSUME ~Racing, ~Signals, WorkerTypes, ClaimsFollowStart, OneWorker, [Next]_vars
  PROVE  OneWorker'
<1> USE DEF WorkerTypes
<1>1. ASSUME UNCHANGED <<phase, pidFile>> PROVE OneWorker'
  BY <1>1 DEF OneWorker
<1>2. ASSUME NEW j \in Jobs, Upsert(j) \/ BecomeDue(j) \/ Age(j) PROVE OneWorker'
  BY <1>1, <1>2 DEF Upsert, BecomeDue, Age, workerVars
<1>3. ASSUME NEW w \in Workers, SpawnWorker(w) PROVE OneWorker'
  <2>1. \A v \in Workers : phase[v] \notin Live
    BY <1>3 DEF SpawnWorker, OneWorker
  <2>2. phase'[w] = "spawned" /\ \A v \in Workers \ {w} : phase'[v] = phase[v]
    BY <1>3 DEF SpawnWorker
  <2> QED BY <2>1, <2>2 DEF OneWorker
<1>4. ASSUME NEW w \in Workers, WritePidFile(w) PROVE OneWorker'
  <2>1. /\ phase[w] \in Live /\ phase'[w] = "starting" /\ pidFile' = w
        /\ \A v \in Workers \ {w} : phase'[v] = phase[v]
    BY <1>4 DEF WritePidFile, Live
  <2> QED BY <2>1, PhaseKeepsOne
<1>5. ASSUME NEW w \in Workers, StartLoop(w) PROVE OneWorker'
  <2>1. /\ phase[w] \in Live /\ phase'[w] \in {"dead", "idle"} /\ pidFile' = pidFile
        /\ \A v \in Workers \ {w} : phase'[v] = phase[v]
        /\ phase'[w] = "idle" => pidFile = w
    BY <1>5 DEF StartLoop, Live
  <2>2. "dead" \notin Live
    BY DEF Live
  <2> QED BY <2>1, <2>2, PhaseKeepsOne
<1>6. ASSUME NEW w \in Workers, Evict(w) \/ Reaped(w) \/ Crash(w) PROVE OneWorker'
  <2>1. /\ phase[w] \in Live /\ phase'[w] = "dead"
        /\ \A v \in Workers \ {w} : phase'[v] = phase[v]
    BY <1>6 DEF Evict, Reaped, Crash, Exit, Live
  <2>2. "dead" \notin Live
    BY DEF Live
  <2> QED BY <2>1, <2>2, PhaseKeepsOne
<1>7. ASSUME NEW w \in Workers, phase[w] \in {"idle", "claiming", "busy"},
             phase'[w] \in {"idle", "claiming", "busy"}, pidFile' = pidFile,
             \A v \in Workers \ {w} : phase'[v] = phase[v]
      PROVE  OneWorker'
  <2>1. phase[w] \in Live /\ pidFile = w
    BY <1>7 DEF Live, OneWorker
  <2> QED BY <1>7, <2>1, PhaseKeepsOne
<1>8. ASSUME NEW w \in Workers, NEW limit \in LaneLimits, Tick(w, limit) PROVE OneWorker'
  BY <1>7, <1>8 DEF Tick
<1>9. ASSUME NEW w \in Workers, NEW j \in Jobs, ClaimRow(w, j) PROVE OneWorker'
  <2>1. phase[w] = "claiming" /\ pidFile' = pidFile
    BY <1>9 DEF ClaimRow, ClaimsFollowStart
  <2>2. /\ phase'[w] \in {"claiming", "busy", "idle"}
        /\ \A v \in Workers \ {w} : phase'[v] = phase[v]
    BY <1>9 DEF ClaimRow
  <2> QED BY <1>7, <2>1, <2>2
<1>10. ASSUME NEW w \in Workers, NEW j \in Jobs, Resolve(w, j) PROVE OneWorker'
  <2>1. PICK S : Return(w, S)
    BY <1>10 DEF Resolve, JobCompletes, JobFails, JobDefers, BillingBlocked, JobPostponed,
                JobLeftRunning
  <2>2. phase[w] \in {"busy", "stopping"}
    BY <1>10 DEF Resolve, JobCompletes, JobFails, JobDefers, BillingBlocked, JobPostponed,
                JobLeftRunning, Resolving
  <2>3. phase[w] = "busy"
    BY <2>2 DEF OneWorker, Live
  <2>4. /\ phase'[w] \in {"busy", "idle"} /\ pidFile' = pidFile
        /\ \A v \in Workers \ {w} : phase'[v] = phase[v]
    BY <2>1, <2>3 DEF Return
  <2> QED BY <1>7, <2>3, <2>4
<1>11. CASE UNCHANGED vars
  BY <1>1, <1>11 DEF vars, workerVars
<1>12. ASSUME NEW w \in Workers, Sigterm(w) PROVE OneWorker'
  BY <1>12 DEF Sigterm
<1> QED BY <1>2, <1>3, <1>4, <1>5, <1>6, <1>8, <1>9, <1>10, <1>11, <1>12 DEF Next

\* What executes is running; an execution that began before the last write of
\* its page is not the one that owes the write; and a row that owes a write is
\* not completed.
WriteInv ==
  /\ \A w \in Workers : exec[w] # {} => phase[w] \in {"claiming", "busy"}
  /\ \A w \in Workers : \A j \in exec[w] : status[j] = "running"
  /\ \A w \in Workers, j \in Jobs : <<w, j>> \in outdated => j \in exec[w] /\ j \notin carries
  /\ \A j \in carries : status[j] # "completed"

\* A write to a page enqueues a row that no execution has in hand.
LEMMA UpsertKeepsWrites ==
  ASSUME RowInv, WorkerTypes, WriteInv, NEW j \in Jobs, Upsert(j)
  PROVE  WriteInv'
<1> DEFINE rows == {i \in Jobs : Key[i] = Key[j]}
<1>1. /\ carries' = (carries \ rows) \cup {j}
      /\ outdated' = outdated \cup {p \in Workers \X rows : p[2] \in exec[p[1]]}
      /\ exec' = exec /\ phase' = phase
  BY DEF Upsert, workerVars
<1>2. /\ status[j] \in {"absent", "pending"} /\ status'[j] = "pending"
      /\ \A i \in Jobs \ {j} : status'[i] = status[i]
  BY DEF Upsert, SetStatus, rowVars, RowInv
<1>3. \A w \in Workers : j \notin exec[w]
  BY <1>2 DEF WriteInv
<1>4. \A w \in Workers : \A i \in exec[w] : status'[i] = "running"
  BY <1>2, <1>3 DEF WriteInv, WorkerTypes
<1>5. \A w \in Workers, i \in Jobs : <<w, i>> \in outdated' => i \in exec[w] /\ i \notin carries'
  <2> SUFFICES ASSUME NEW w \in Workers, NEW i \in Jobs, <<w, i>> \in outdated'
               PROVE  i \in exec[w] /\ i \notin carries'
    OBVIOUS
  <2>1. CASE <<w, i>> \in outdated
    BY <1>1, <1>3, <2>1 DEF WriteInv
  <2>2. CASE i \in rows /\ i \in exec[w]
    BY <1>1, <1>3, <2>2
  <2> QED BY <1>1, <2>1, <2>2
<1>6. \A i \in carries' : status'[i] # "completed"
  BY <1>1, <1>2 DEF WriteInv, WorkerTypes
<1> QED BY <1>1, <1>4, <1>5, <1>6 DEF WriteInv

\* A step of a process that executes nothing changes no row that executes.
LEMMA IdleKeepsWrites ==
  ASSUME WorkerTypes, OneWorker, WriteInv, NEW w \in Workers, phase[w] \in Live, exec[w] = {},
         exec' = exec, carries' = carries, outdated' \subseteq outdated,
         \A j \in Jobs : status'[j] \in {status[j], "pending", "failed"}
  PROVE  WriteInv'
<1>1. \A v \in Workers : exec[v] = {}
  BY DEF WriteInv, OneWorker, Live
<1> QED BY <1>1 DEF WriteInv, WorkerTypes

\* A claim takes a pending row into hand.
LEMMA ClaimKeepsWrites ==
  ASSUME RowInv, WorkerTypes, ClaimsFollowStart, WriteInv,
         NEW w \in Workers, NEW j \in Jobs, ClaimRow(w, j)
  PROVE  WriteInv'
<1>1. /\ phase[w] = "claiming" /\ carries' = carries /\ outdated' = outdated
      /\ \A v \in Workers \ {w} : phase'[v] = phase[v] /\ exec'[v] = exec[v]
      /\ exec'[w] # {} => phase'[w] \in {"claiming", "busy"}
  BY DEF ClaimRow, ClaimsFollowStart, WorkerTypes, writeVars
<1>2. CASE status[j] = "pending"
  <2>1. /\ status' = [status EXCEPT ![j] = "running"] /\ exec'[w] = exec[w] \cup {j}
    BY <1>2 DEF ClaimRow, WorkerTypes
  <2>2. status'[j] = "running" /\ \A i \in Jobs \ {j} : status'[i] = status[i]
    BY <2>1 DEF RowInv
  <2> QED BY <1>1, <2>1, <2>2 DEF WriteInv, WorkerTypes
<1>3. CASE status[j] # "pending"
  <2>1. status' = status /\ exec' = exec
    BY <1>3 DEF ClaimRow
  <2> QED BY <1>1, <2>1 DEF WriteInv
<1> QED BY <1>2, <1>3

\* The return of the executions of S: only rows of S change, and one that is
\* completed does not owe a write any more.
LEMMA ReturnKeepsWrites ==
  ASSUME WorkerTypes, OneWorker, WriteInv, NEW w \in Workers, NEW S, Return(w, S),
         phase[w] \in {"busy", "stopping"},
         \A j \in Jobs \ S : status'[j] = status[j],
         carries' \subseteq carries,
         \A j \in carries' : status'[j] = "completed" => status[j] = "completed"
  PROVE  WriteInv'
<1>1. phase[w] = "busy" /\ \A v \in Workers \ {w} : exec[v] = {}
  BY DEF OneWorker, WriteInv, Live
<1>2. /\ exec'[w] = exec[w] \ S /\ \A v \in Workers \ {w} : exec'[v] = {}
      /\ outdated' = outdated \ ({w} \X S)
      /\ exec'[w] # {} => phase'[w] = "busy"
  BY <1>1 DEF Return, WorkerTypes
<1>3. \A v \in Workers : \A j \in exec'[v] : status'[j] = "running"
  BY <1>2 DEF WriteInv, WorkerTypes
<1>4. \A v \in Workers, j \in Jobs : <<v, j>> \in outdated' => j \in exec'[v] /\ j \notin carries'
  <2> SUFFICES ASSUME NEW v \in Workers, NEW j \in Jobs, <<v, j>> \in outdated'
               PROVE  j \in exec'[v] /\ j \notin carries'
    OBVIOUS
  <2>1. j \in exec[v] /\ j \notin carries
    BY <1>2 DEF WriteInv
  <2>2. v = w
    BY <1>1, <2>1
  <2>3. j \notin S
    BY <1>2, <2>2
  <2> QED BY <1>2, <2>1, <2>2, <2>3
<1>5. \A j \in carries' : status'[j] # "completed"
  BY DEF WriteInv
<1>6. \A v \in Workers : exec'[v] # {} => phase'[v] \in {"claiming", "busy"}
  BY <1>2
<1> QED BY <1>3, <1>4, <1>5, <1>6 DEF WriteInv

\* The handlers' returns keep the writes.
LEMMA ResolveKeepsWrites ==
  ASSUME RowInv, WorkerTypes, OneWorker, WriteInv, NEW w \in Workers, NEW j \in Jobs, Resolve(w, j)
  PROVE  WriteInv'
<1>1. phase[w] \in {"busy", "stopping"} /\ j \in exec[w]
  BY DEF Resolve, JobCompletes, JobFails, JobDefers, BillingBlocked, JobPostponed,
         JobLeftRunning, Resolving
<1>2. CASE JobCompletes(w, j)
  <2>1. /\ Return(w, {j})
        /\ \A i \in Jobs \ {j} : status'[i] = status[i]
        /\ carries' \subseteq carries
        /\ <<w, j>> \notin outdated => j \notin carries'
    BY <1>2 DEF JobCompletes, completeMemoryJob, SetStatus
  <2>2. j \notin carries'
    BY <2>1 DEF WriteInv
  <2>3. \A i \in carries' : status'[i] = status[i]
    BY <2>1, <2>2 DEF WorkerTypes
  <2> QED BY <1>1, <2>1, <2>3, ReturnKeepsWrites
<1>3. ASSUME NEW S, NEW spent, GiveBack(S, spent), Return(w, S), carries' = carries
      PROVE  WriteInv'
  <2>1. \A i \in Jobs : status'[i] = status[i] \/ (i \in S /\ status'[i] \in {"failed", "pending"})
    BY <1>3 DEF GiveBack
  <2>2. \A i \in carries' : status'[i] = "completed" => status[i] = "completed"
    BY <1>3, <2>1 DEF WorkerTypes
  <2>3. \A i \in Jobs \ S : status'[i] = status[i]
    BY <2>1
  <2> QED BY <1>1, <1>3, <2>2, <2>3, ReturnKeepsWrites
<1>4. CASE JobFails(w, j)
  BY <1>3, <1>4 DEF JobFails, failMemoryJob
<1>5. CASE JobDefers(w, j)
  BY <1>3, <1>5 DEF JobDefers, deferMemoryJobs
<1>6. CASE BillingBlocked(w, j)
  BY <1>3, <1>6 DEF BillingBlocked, deferMemoryJobs
<1>7. CASE JobPostponed(w, j)
  BY <1>3, <1>7 DEF JobPostponed, rescheduleMemoryJob
<1>8. CASE JobLeftRunning(w, j)
  <2>1. Return(w, {j}) /\ status' = status /\ carries' = carries
    BY <1>8 DEF JobLeftRunning, rowVars
  <2> QED BY <1>1, <2>1, ReturnKeepsWrites
<1> QED BY <1>2, <1>4, <1>5, <1>6, <1>7, <1>8 DEF Resolve

\* Every step keeps the writes.
LEMMA WriteStep ==
  ASSUME ~Signals, RowInv, WorkerTypes, ClaimsFollowStart, OneWorker, WriteInv, [Next]_vars
  PROVE  WriteInv'
<1>1. ASSUME NEW w \in Workers, UNCHANGED <<status, exec, writeVars>>,
             phase[w] \notin {"claiming", "busy"} \/ phase' = phase,
             \A v \in Workers \ {w} : phase'[v] = phase[v]
      PROVE  WriteInv'
  BY <1>1 DEF WriteInv, writeVars
<1>2. ASSUME NEW j \in Jobs, BecomeDue(j) \/ Age(j) PROVE WriteInv'
  BY <1>2 DEF BecomeDue, Age, WriteInv, workerVars, writeVars
<1>3. ASSUME NEW w \in Workers, SpawnWorker(w) \/ WritePidFile(w) PROVE WriteInv'
  <2>1. UNCHANGED <<status, exec, writeVars>> /\ phase[w] \notin {"claiming", "busy"}
    BY <1>3 DEF SpawnWorker, WritePidFile, rowVars
  <2>2. \A v \in Workers \ {w} : phase'[v] = phase[v]
    BY <1>3 DEF SpawnWorker, WritePidFile, WorkerTypes
  <2> QED BY <1>1, <2>1, <2>2
<1>4. ASSUME NEW w \in Workers, Sigterm(w) PROVE WriteInv'
  BY <1>4 DEF Sigterm
<1>5. ASSUME NEW w \in Workers, StartLoop(w) PROVE WriteInv'
  <2>1. /\ phase[w] = "starting" /\ exec' = exec /\ carries' = carries /\ outdated' = outdated
        /\ \A j \in Jobs : status'[j] \in {status[j], "pending"}
    BY <1>5 DEF StartLoop, SetStatus, rowVars, writeVars
  <2>2. phase[w] \in Live /\ exec[w] = {}
    BY <2>1 DEF WriteInv, Live
  <2> QED BY <2>1, <2>2, IdleKeepsWrites
<1>6. ASSUME NEW w \in Workers, NEW limit \in LaneLimits, Tick(w, limit) PROVE WriteInv'
  <2>1. /\ phase[w] = "idle" /\ exec' = exec /\ carries' = carries /\ outdated' = outdated
        /\ \A j \in Jobs : status'[j] \in {status[j], "failed"}
    BY <1>6 DEF Tick, SetStatus, writeVars
  <2>2. phase[w] \in Live /\ exec[w] = {}
    BY <2>1 DEF WriteInv, Live
  <2> QED BY <2>1, <2>2, IdleKeepsWrites
<1>7. ASSUME NEW w \in Workers, Evict(w) \/ Reaped(w) \/ Crash(w) PROVE WriteInv'
  <2>1. Exit(w)
    BY <1>7 DEF Evict, Reaped, Crash
  <2>2. /\ exec'[w] = {} /\ status' = status /\ carries' = carries
        /\ \A v \in Workers \ {w} : exec'[v] = exec[v] /\ phase'[v] = phase[v]
    BY <2>1 DEF Exit, rowVars, WorkerTypes
  <2>3. \A v \in Workers, j \in Jobs : <<v, j>> \in outdated' => v # w /\ <<v, j>> \in outdated
    BY <2>1 DEF Exit
  <2> QED BY <2>2, <2>3 DEF WriteInv
<1>8. CASE UNCHANGED vars
  BY <1>8 DEF vars, rowVars, workerVars, writeVars, WriteInv
<1> QED
  BY <1>2, <1>3, <1>4, <1>5, <1>6, <1>7, <1>8, UpsertKeepsWrites, ClaimKeepsWrites,
     ResolveKeepsWrites
  DEF Next

\* No write of a page is lost where the worker processes run one after the
\* other, through retries, deferrals, billing blocks, stalls and deaths: the
\* row that owes the last write is not completed by an execution that began
\* before it (upsertEmbedConceptPageJob never reuses a running row).
THEOREM JobsKeepWrites ==
  ASSUME ~Racing, ~Signals
  PROVE  Spec => []WriteNotLost
<1>1. Init => WorkerTypes /\ ClaimsFollowStart /\ OneWorker /\ WriteInv
  BY DEF Init, WorkerTypes, ClaimsFollowStart, OneWorker, WriteInv, Live
<1>2. WorkerTypes /\ [Next]_vars => WorkerTypes'
  BY WorkerTypesStep
<1>3. RowInv /\ WorkerTypes /\ ClaimsFollowStart /\ [Next]_vars => ClaimsFollowStart'
  BY StartsOnce
<1>4. WorkerTypes /\ ClaimsFollowStart /\ OneWorker /\ [Next]_vars => OneWorker'
  BY OneWorkerStep
<1>5. RowInv /\ WorkerTypes /\ ClaimsFollowStart /\ OneWorker /\ WriteInv /\ [Next]_vars
        => WriteInv'
  BY WriteStep
<1>6. WriteInv => WriteNotLost
  BY DEF WriteInv, WriteNotLost
<1> QED BY <1>1, <1>2, <1>3, <1>4, <1>5, <1>6, JobsRowInv, PTL DEF Spec

=============================================================================
