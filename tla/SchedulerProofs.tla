-------------------------- MODULE SchedulerProofs --------------------------
(***************************************************************************)
(* The safety of the scheduler for every set of schedules, any number of   *)
(* worker processes and restarts, and every retry budget.                  *)
(***************************************************************************)
EXTENDS Scheduler, TLAPS

Rows == [status : Ended \cup {"active", "firing"}, enabled : BOOLEAN,
         next : {"zero", "later", "due"}, ver : Nat, retries : Nat]
Phases == {"unborn", "idle", "recurring", "oneshots", "dead"}

\* The types of every variable the other invariants speak of.
Types ==
  /\ kind \in Kinds
  /\ row \in [Jobs -> Rows]
  /\ left \in [Jobs -> Nat]
  /\ open \subseteq Jobs \X Procs
  /\ phase \in [Workers -> Phases]
  /\ cand \in [Workers -> SUBSET Snapshots]
  /\ batch \in [Workers -> SUBSET Snapshots]
  /\ task \in [Procs -> Tasks \cup {NoTask}]
  /\ daemon \in {"down", "recovering", "up"}
  /\ stale \subseteq [job : Jobs, run : Procs]
  /\ daemon = "recovering" \/ stale = {}
  /\ charges \in [Jobs -> Nat] /\ taken \in [Jobs -> Nat]

\* A worker's candidates are of the half of the tick it is in, and only a
\* living worker has anything in hand.
TickOrder ==
  \A w \in Workers :
    /\ phase[w] = "recurring" => \A s \in cand[w] : s.job \notin OneShots
    /\ phase[w] = "oneshots" => \A s \in cand[w] : s.job \in OneShots
    /\ phase[w] \notin {"recurring", "oneshots"} => cand[w] = {}
    /\ phase[w] \in {"unborn", "dead"} => batch[w] = {} /\ ~Busy(w)

\* A deleted schedule is the user's doing.
GoneByUser == \A j \in Jobs : Gone(j) => j \in userOff

\* The retry count of a row, and that of every snapshot of it, is at most what
\* has been charged to it.
ReadCounts ==
  /\ \A j \in OneShots : row[j].retries <= charges[j]
  /\ \A w \in Workers : \A s \in cand[w] \cup batch[w] :
       s.job \in OneShots => s.retries <= charges[s.job]
  /\ \A p \in Procs : Busy(p) /\ JobOf(p) \in OneShots =>
       task[p].snap.retries <= charges[JobOf(p)]

\* A failure that is about to be decided on has been charged.
ChargedBefore ==
  \A p \in Procs :
    /\ task[p].at = "settling" /\ ~task[p].ok
    /\ JobOf(p) \in OneShots /\ ~Gone(JobOf(p))
    => task[p].snap.retries < charges[JobOf(p)]

\* While no recovery has taken it from its worker, a one-shot in hand is in
\* hand once, and is not active for anyone to claim.
OneHolder ==
  \A j \in OneShots : taken[j] = 0 =>
    /\ \A w \in Workers : j \in HeldJobs(w) => row[j].status # "active"
    /\ \A v, w \in Workers : j \in HeldJobs(v) /\ j \in HeldJobs(w) => v = w
    /\ \A w \in Workers : \A s, t \in batch[w] : s.job = j /\ t.job = j => s = t
    /\ \A w \in Workers : \A s \in batch[w] : Busy(w) /\ JobOf(w) = j => s.job # j

\* The optimistic lock: an occurrence in hand has been passed by its row, and
\* no two workers have the same one.
OneOccurrence ==
  /\ \A w \in Workers : \A s \in Holds(w) :
       s.job \notin OneShots => s.ver < row[s.job].ver
  /\ \A v, w \in Workers : v # w =>
       \A s \in Holds(v), t \in Holds(w) :
         s.job = t.job /\ s.job \notin OneShots => s.ver # t.ver

-----------------------------------------------------------------------------
(* The writes of a row.                                                    *)

\* A write of nextRunAt sets the time and counts as a change of it.
LEMMA TimedRow ==
  ASSUME NEW r \in Rows, NEW next \in {"zero", "later", "due"}
  PROVE  /\ Timed(r, next) \in Rows
         /\ Timed(r, next).status = r.status /\ Timed(r, next).enabled = r.enabled
         /\ Timed(r, next).next = next /\ Timed(r, next).retries = r.retries
         /\ Timed(r, next).ver > r.ver
<1>1. [r EXCEPT !.next = next] \in Rows
  BY DEF Rows
<1>2. \A t \in Rows : [t EXCEPT !.ver = @ + 1] \in Rows
  BY DEF Rows
<1>3. [[r EXCEPT !.next = next] EXCEPT !.ver = @ + 1] = Timed(r, next)
  BY DEF Rows, Timed
<1>4. Timed(r, next) \in Rows
  BY <1>1, <1>2, <1>3
<1>. QED
  BY <1>4 DEF Rows, Timed

\* The writes that look for a firing row touch no other, and only its status.
LEMMA FiringRow ==
  ASSUME NEW r \in Rows, NEW to \in {"active", "fired", "cancelled"}
  PROVE  /\ FiringTo(r, to) \in Rows /\ FiringEnds(r, to) \in Rows
         /\ r.status # "firing" => FiringTo(r, to) = r /\ FiringEnds(r, to) = r
         /\ r.status = "firing" => FiringTo(r, to).status = to /\ FiringEnds(r, to).status = to
         /\ FiringTo(r, to).enabled = r.enabled /\ FiringTo(r, to).next = r.next
         /\ FiringTo(r, to).retries = r.retries /\ FiringTo(r, to).ver = r.ver
         /\ FiringEnds(r, to).retries = r.retries /\ FiringEnds(r, to).ver = r.ver
         /\ FiringEnds(r, to).next = r.next
  BY DEF FiringTo, FiringEnds, Rows, Ended

\* deferClaimedSchedule's first write.
LEMMA DeferRow ==
  ASSUME NEW r \in Rows
  PROVE  /\ DeferredRow(r) \in Rows
         /\ DeferredRow(r).status = r.status /\ DeferredRow(r).retries = r.retries
         /\ DeferredRow(r).enabled = TRUE /\ DeferredRow(r).next = "later"
         /\ DeferredRow(r).ver > r.ver
<1>1. PICK t \in Rows : t = Timed(r, "later") /\ t.status = r.status
                         /\ t.retries = r.retries /\ t.next = "later" /\ t.ver > r.ver
  BY TimedRow
<1>2. DeferredRow(r) = [t EXCEPT !.enabled = TRUE]
  BY <1>1 DEF DeferredRow
<1>. QED
  BY <1>1, <1>2 DEF Rows

\* The charge of a run to its row.
LEMMA ChargedRow ==
  ASSUME NEW r \in Rows, NEW n \in Nat
  PROVE  LET new == [r EXCEPT !.retries = n]
         IN  /\ new \in Rows /\ new.status = r.status /\ new.enabled = r.enabled
             /\ new.next = r.next /\ new.ver = r.ver /\ new.retries = n
  BY DEF Rows

\* The writes of the status and of the switch.
LEMMA StatusRow ==
  ASSUME NEW r \in Rows, NEW to \in Ended \cup {"active", "firing"}, NEW on \in BOOLEAN
  PROVE  /\ [r EXCEPT !.status = to] \in Rows
         /\ [r EXCEPT !.enabled = on] \in Rows
         /\ [r EXCEPT !.status = to, !.enabled = on] \in Rows
  BY DEF Rows

\* An UPDATE by id changes that row, if it still exists, and no other.
LEMMA UpdatedRow ==
  ASSUME Types, NEW j \in Jobs, NEW new \in Rows
  PROVE  /\ Updated(j, new) \in [Jobs -> Rows]
         /\ Updated(j, new)[j] = IF Gone(j) THEN row[j] ELSE new
         /\ \A i \in Jobs \ {j} : Updated(j, new)[i] = row[i]
  BY DEF Updated, Types

-----------------------------------------------------------------------------
(* Types.                                                                  *)

\* Nothing is claimed, running or recovered in the initial state.
LEMMA InitTypes == Init => Types
<1> SUFFICES ASSUME Init PROVE Types
  OBVIOUS
<1>1. row \in [Jobs -> Rows]
  BY DEF Init, Rows, Ended
<1>2. left \in [Jobs -> Nat] /\ charges \in [Jobs -> Nat] /\ taken \in [Jobs -> Nat]
  BY SchedulerAssumption DEF Init
<1>. QED
  BY <1>1, <1>2 DEF Init, Types, Phases

\* What the kinds give: which schedules are one-shots is fixed.
LEMMA OneShotsAre ==
  ASSUME Types, kind' = kind
  PROVE  OneShots' = OneShots /\ OneShots \subseteq Jobs
  BY DEF OneShots

\* A busy process has a task, and its schedule exists.
LEMMA BusyTask ==
  ASSUME Types, NEW p \in Procs, task[p].at # "none"
  PROVE  task[p] \in Tasks /\ JobOf(p) \in Jobs /\ Busy(p)
<1>1. task[p] \in Tasks
  BY DEF Types, NoTask
<1>. QED
  BY <1>1 DEF Tasks, Snapshots, JobOf, Busy

\* A snapshot of a row is one.
LEMMA SnapshotOf ==
  ASSUME Types, NEW j \in Jobs
  PROVE  /\ Snapshot(j) \in Snapshots /\ Snapshot(j).job = j
         /\ Snapshot(j).ver = row[j].ver /\ Snapshot(j).retries = row[j].retries
<1>1. row[j].ver \in Nat /\ row[j].retries \in Nat
  BY DEF Types, Rows
<1>. QED
  BY <1>1 DEF Snapshot, Snapshots

\* Whatever ends the ticks of some workers leaves the types.
LEMMA AbandonTypes ==
  ASSUME Types, NEW W \in SUBSET Workers, NEW to \in Phases, Abandon(W, to)
  PROVE  /\ phase' \in [Workers -> Phases]
         /\ cand' \in [Workers -> SUBSET Snapshots]
         /\ batch' \in [Workers -> SUBSET Snapshots]
         /\ task' \in [Procs -> Tasks \cup {NoTask}]
  BY DEF Abandon, Types

\* The ticks' selections and claims.
LEMMA ClaimTypes ==
  ASSUME Types, NEW w \in Workers,
         \/ ReadRecurring(w) \/ ReadOneShots(w)
         \/ \E s \in cand[w] : ClaimRecurring(w, s) \/ ClaimOneShot(w, s)
  PROVE  Types'
<1> USE DEF rowVars, workerVars, daemonVars, history
<1>2. CASE ReadRecurring(w)
  <2>1. {Snapshot(j) : j \in DueRecurring} \subseteq Snapshots
    BY SnapshotOf DEF DueRecurring
  <2>. QED BY <1>2, <2>1 DEF ReadRecurring, Types, Phases
<1>3. CASE ReadOneShots(w)
  <2>1. {Snapshot(j) : j \in DueOneShots} \subseteq Snapshots
    BY SnapshotOf DEF DueOneShots, OneShots
  <2>. QED BY <1>3, <2>1 DEF ReadOneShots, Types, Phases
<1>4. ASSUME NEW s \in cand[w], ClaimRecurring(w, s) PROVE Types'
  <2>1. s \in Snapshots /\ s.job \in Jobs /\ cand[w] \subseteq Snapshots
    BY DEF Types, Snapshots
  <2>2. cand' \in [Workers -> SUBSET Snapshots]
    BY <1>4, <2>1 DEF ClaimRecurring, Types
  <2>3. batch' \in [Workers -> SUBSET Snapshots]
    BY <1>4, <2>1 DEF ClaimRecurring, Types
  <2>4. row' \in [Jobs -> Rows]
    <3>1. /\ Timed(row[s.job], "later") \in Rows
          /\ [Timed(row[s.job], "zero") EXCEPT !.enabled = FALSE] \in Rows
      <4>1. Timed(row[s.job], "zero") \in Rows /\ Timed(row[s.job], "later") \in Rows
        BY <2>1, TimedRow DEF Types
      <4>. QED BY <4>1 DEF Rows
    <3>. QED BY <1>4, <2>1, <3>1 DEF ClaimRecurring, Types
  <2>5. left' \in [Jobs -> Nat]
    <3>1. left[s.job] \in Nat
      BY <2>1 DEF Types
    <3>2. (IF left[s.job] = 0 THEN 0 ELSE left[s.job] - 1) \in Nat
      BY <3>1
    <3>. QED BY <1>4, <2>1, <3>2 DEF ClaimRecurring, Types
  <2>. QED BY <1>4, <2>2, <2>3, <2>4, <2>5 DEF ClaimRecurring, Types
<1>5. ASSUME NEW s \in cand[w], ClaimOneShot(w, s) PROVE Types'
  <2>1. s \in Snapshots /\ s.job \in Jobs /\ cand[w] \subseteq Snapshots
    BY DEF Types, Snapshots
  <2>2. cand' \in [Workers -> SUBSET Snapshots]
    BY <1>5, <2>1 DEF ClaimOneShot, Types
  <2>3. batch' \in [Workers -> SUBSET Snapshots]
    BY <1>5, <2>1 DEF ClaimOneShot, Types
  <2>4. row' \in [Jobs -> Rows]
    <3>1. [row[s.job] EXCEPT !.status = "firing"] \in Rows
      BY <2>1, StatusRow DEF Types
    <3>2. row' = row \/ row' = [row EXCEPT ![s.job] = [row[s.job] EXCEPT !.status = "firing"]]
      BY <1>5, <2>1 DEF ClaimOneShot, Types
    <3>. QED BY <2>1, <3>1, <3>2 DEF Types
  <2>. QED BY <1>5, <2>2, <2>3, <2>4 DEF ClaimOneShot, Types
<1>. QED BY <1>2, <1>3, <1>4, <1>5

\* A step of one process changes its task only.
LEMMA TaskTypes ==
  ASSUME Types, NEW p \in Procs, NEW t \in Tasks \cup {NoTask},
         task' = [task EXCEPT ![p] = t]
  PROVE  task' \in [Procs -> Tasks \cup {NoTask}]
  BY DEF Types

\* A task goes on to another stage, with the same schedule and run.
LEMMA TaskAt ==
  ASSUME NEW t \in Tasks, NEW at \in Ats, NEW ok \in BOOLEAN
  PROVE  LET s == [t EXCEPT !.at = at]
             u == [t EXCEPT !.at = at, !.ok = ok]
         IN  /\ s \in Tasks /\ s.at = at /\ s.snap = t.snap /\ s.run = t.run
             /\ (s.ok <=> t.ok) /\ (s.manual <=> t.manual)
             /\ u \in Tasks /\ u.at = at /\ u.snap = t.snap /\ u.run = t.run
             /\ (u.ok <=> ok) /\ (u.manual <=> t.manual)
  BY DEF Tasks

\* The same, in or out of the try block.
LEMMA TaskTry ==
  ASSUME NEW t \in Tasks, NEW at \in Ats, NEW ok \in BOOLEAN, NEW b \in BOOLEAN
  PROVE  LET u == [t EXCEPT !.at = at, !.ok = ok, !.inTry = b]
         IN  u \in Tasks /\ u.at = at /\ u.snap = t.snap
  BY DEF Tasks

\* What a process takes in hand.
LEMMA TaskTaken ==
  ASSUME NEW s \in Snapshots, NEW at \in Ats, NEW p \in Procs, NEW manual \in BOOLEAN
  PROVE  LET t == TaskFor(s, at, p, manual)
         IN  /\ t \in Tasks /\ t.at = at /\ t.snap = s
             /\ [t EXCEPT !.ok = FALSE] \in Tasks
             /\ [t EXCEPT !.ok = FALSE].at = at /\ [t EXCEPT !.ok = FALSE].snap = s
<1>. DEFINE t == TaskFor(s, at, p, manual)
<1>1. t \in Tasks /\ t.at = at /\ t.snap = s
  BY DEF Tasks, TaskFor
<1>. HIDE DEF t
<1>2. /\ [t EXCEPT !.ok = FALSE] \in Tasks
      /\ [t EXCEPT !.ok = FALSE].at = at /\ [t EXCEPT !.ok = FALSE].snap = s
  BY <1>1 DEF Tasks
<1>. QED BY <1>1, <1>2 DEF t

\* A claimed row is started or put back, and the tick ends.
LEMMA StartTypes ==
  ASSUME Types, NEW w \in Workers,
         \/ \E s \in batch[w] : Start(w, s) \/ Skip(w, s) \/ Defer(w, s)
         \/ DeferStatus(w) \/ TickDone(w)
  PROVE  Types'
<1> USE DEF rowVars, workerVars, daemonVars, history
<1>0. w \in Procs
  BY DEF Procs
<1>1. ASSUME NEW s \in batch[w], Start(w, s) PROVE Types'
  <2>1. s \in Snapshots /\ s.job \in Jobs
    BY DEF Types, Snapshots
  <2>2. CASE RowFirst(s.job) /\ Gone(s.job)
    <3>1. Abandon({w}, "idle") /\ UNCHANGED open
      BY <1>1, <2>2 DEF Start
    <3>. QED BY <1>1, <3>1, AbandonTypes DEF Start, Types, Phases
  <2>3. CASE ~(RowFirst(s.job) /\ Gone(s.job))
    <3>. DEFINE t == TaskFor(s, "executing", w, FALSE)
    <3>1. t \in Tasks
      BY <1>0, <2>1, TaskTaken DEF Ats
    <3>2. task' = [task EXCEPT ![w] = t]
      BY <1>1, <2>3 DEF Start
    <3>. HIDE DEF t
    <3>3. task' \in [Procs -> Tasks \cup {NoTask}]
      BY <1>0, <3>1, <3>2, TaskTypes
    <3>4. batch' \in [Workers -> SUBSET Snapshots]
      BY <1>1, <2>3 DEF Start, Types
    <3>5. open' \subseteq Jobs \X Procs
      <4>1. open' = open \/ open' = open \cup {<<s.job, w>>}
        BY <1>1, <2>3 DEF Start
      <4>2. <<s.job, w>> \in Jobs \X Procs /\ open \subseteq Jobs \X Procs
        BY <1>0, <2>1 DEF Types
      <4>. QED BY <4>1, <4>2
    <3>. QED BY <1>1, <2>3, <3>3, <3>4, <3>5 DEF Start, Types
  <2>. QED BY <2>2, <2>3
<1>2. ASSUME NEW s \in batch[w], Defer(w, s) PROVE Types'
  <2>1. s \in Snapshots /\ s.job \in Jobs
    BY DEF Types, Snapshots
  <2>. DEFINE t == TaskFor(s, "deferring", w, FALSE)
  <2>2. t \in Tasks
    BY <1>0, <2>1, TaskTaken DEF Ats
  <2>3. task' = [task EXCEPT ![w] = t]
    BY <1>2 DEF Defer
  <2>. HIDE DEF t
  <2>4. task' \in [Procs -> Tasks \cup {NoTask}]
    BY <1>0, <2>2, <2>3, TaskTypes
  <2>5. batch' \in [Workers -> SUBSET Snapshots]
    BY <1>2 DEF Defer, Types
  <2>6. row' \in [Jobs -> Rows]
    <3>1. DeferredRow(row[s.job]) \in Rows
      BY <2>1, DeferRow DEF Types
    <3>. QED BY <1>2, <2>1, <3>1, UpdatedRow DEF Defer
  <2>. QED BY <1>2, <2>4, <2>5, <2>6 DEF Defer, Types
<1>3. CASE DeferStatus(w)
  <2>1. JobOf(w) \in Jobs
    BY <1>0, <1>3, BusyTask DEF DeferStatus
  <2>2. FiringTo(row[JobOf(w)], "active") \in Rows
    BY <2>1, FiringRow DEF Types
  <2>3. row' \in [Jobs -> Rows]
    BY <1>3, <2>1, <2>2, UpdatedRow DEF DeferStatus
  <2>4. task' \in [Procs -> Tasks \cup {NoTask}]
    BY <1>0, <1>3, TaskTypes DEF DeferStatus
  <2>. QED BY <1>3, <2>3, <2>4 DEF DeferStatus, Types
<1>4. CASE TickDone(w)
  BY <1>4 DEF TickDone, Types, Phases
<1>5. ASSUME NEW s \in batch[w], Skip(w, s) PROVE Types'
  BY <1>5 DEF Skip, Types
<1>. QED BY <1>1, <1>2, <1>3, <1>4, <1>5

\* A charge to a one-shot counts it.
LEMMA CountedTypes ==
  ASSUME NEW count \in [Jobs -> Nat], NEW j \in Jobs
  PROVE  /\ Counted(count, j) \in [Jobs -> Nat]
         /\ \A i \in Jobs : Counted(count, j)[i] >= count[i]
         /\ j \in OneShots => Counted(count, j)[j] = count[j] + 1
         /\ \A i \in Jobs \ {j} : Counted(count, j)[i] = count[i]
  BY DEF Counted

\* A claimed row is executed, and its run recorded.
LEMMA ExecuteTypes ==
  ASSUME Types, NEW w \in Workers,
         \/ \E ok \in BOOLEAN : Execute(w, ok)
         \/ WakeTimesOut(w) \/ WakeNotInvoked(w) \/ Record(w)
  PROVE  Types'
<1> USE DEF rowVars, workerVars, daemonVars, history
<1>0. w \in Procs
  BY DEF Procs
<1>1. task[w] \in Tasks /\ JobOf(w) \in Jobs
  BY <1>0, BusyTask DEF Execute, WakeTimesOut, WakeNotInvoked, Record
<1>2. row[JobOf(w)] \in Rows
  BY <1>1 DEF Types
<1>3. ASSUME NEW ok \in BOOLEAN, Execute(w, ok) PROVE Types'
  <2>0. PICK b \in BOOLEAN : task' = [task EXCEPT ![w] = AfterExecution(w, ok, b)]
    BY <1>3 DEF Execute, TryFor
  <2>3. \A at \in Ats : [task[w] EXCEPT !.at = at, !.ok = ok, !.inTry = b] \in Tasks
    BY <1>1, TaskTry
  <2>1. AfterExecution(w, ok, b) \in Tasks \cup {NoTask}
    BY <2>3 DEF AfterExecution, Ats
  <2>2. task' \in [Procs -> Tasks \cup {NoTask}]
    BY <1>0, <2>0, <2>1, TaskTypes
  <2>. QED BY <1>3, <2>2 DEF Execute, Types
<1>4. CASE WakeTimesOut(w)
  <2>. DEFINE j == JobOf(w)
  <2>1. row' \in [Jobs -> Rows]
    <3>1. FiringEnds(row[j], "cancelled") \in Rows
      BY <1>2, FiringRow
    <3>2. Updated(j, FiringEnds(row[j], "cancelled")) \in [Jobs -> Rows]
      BY <1>1, <3>1, UpdatedRow
    <3>3. [row EXCEPT ![j].status = "active", ![j].retries = @ + 1] \in [Jobs -> Rows]
      <4>1. \A n \in Nat : n + 1 \in Nat
        OBVIOUS
      <4>2. row[j].retries + 1 \in Nat
        BY <1>2, <4>1 DEF Rows
      <4>3. [[row[j] EXCEPT !.status = "active"] EXCEPT !.retries = row[j].retries + 1] \in Rows
        BY <1>2, <4>2, StatusRow, ChargedRow
      <4>4. [row EXCEPT ![j].status = "active", ![j].retries = @ + 1]
              = [row EXCEPT ![j] = [[row[j] EXCEPT !.status = "active"]
                                       EXCEPT !.retries = row[j].retries + 1]]
        BY <1>1, <1>2 DEF Types, Rows
      <4>. HIDE DEF j
      <4>. QED BY <1>1, <4>3, <4>4 DEF Types
    <3>4. row \in [Jobs -> Rows]
      BY DEF Types
    <3>. QED BY <1>4, <3>2, <3>3, <3>4 DEF WakeTimesOut
  <2>2. charges' \in [Jobs -> Nat]
    <3>1. Counted(charges, j) \in [Jobs -> Nat] /\ charges \in [Jobs -> Nat]
      BY <1>1, CountedTypes DEF Types
    <3>. QED BY <1>4, <3>1 DEF WakeTimesOut
  <2>3. task' \in [Procs -> Tasks \cup {NoTask}]
    BY <1>0, <1>4, TaskTypes DEF WakeTimesOut
  <2>. QED BY <1>4, <2>1, <2>2, <2>3 DEF WakeTimesOut, Types
<1>5. CASE WakeNotInvoked(w)
  <2>1. row' \in [Jobs -> Rows]
    <3>1. FiringEnds(row[JobOf(w)], "fired") \in Rows
      BY <1>2, FiringRow
    <3>2. Updated(JobOf(w), FiringEnds(row[JobOf(w)], "fired")) \in [Jobs -> Rows]
      BY <1>1, <3>1, UpdatedRow
    <3>. QED BY <1>5, <3>2 DEF WakeNotInvoked, Types
  <2>2. task' \in [Procs -> Tasks \cup {NoTask}]
    BY <1>0, <1>5, TaskTypes DEF WakeNotInvoked
  <2>. QED BY <1>5, <2>1, <2>2 DEF WakeNotInvoked, Types
<1>6. CASE Record(w)
  <2>1. CASE Gone(JobOf(w))
    BY <1>6, <2>1, AbandonTypes DEF Record, Types, Phases
  <2>2. CASE ~Gone(JobOf(w))
    <3>1. task' = [task EXCEPT ![w] = [task[w] EXCEPT !.at = "closing"]]
      BY <1>0, <1>6, <2>2 DEF Record, Types
    <3>2. task' \in [Procs -> Tasks \cup {NoTask}]
      BY <1>0, <1>1, <3>1, TaskAt, TaskTypes DEF Ats
    <3>3. open' \subseteq Jobs \X Procs
      BY <1>0, <1>1, <1>6, <2>2 DEF Record, Types
    <3>. QED BY <1>6, <2>2, <3>2, <3>3 DEF Record, Types
  <2>. QED BY <2>1, <2>2
<1>. QED BY <1>3, <1>4, <1>5, <1>6

\* completeScheduleRun and applyRetryDecision, by a worker or by the daemon.
LEMMA SettleTypes ==
  ASSUME Types, NEW p \in Procs, CloseRun(p) \/ Charge(p) \/ Settle(p) \/ Revert(p)
  PROVE  Types'
<1> USE DEF rowVars, workerVars, daemonVars, history
<1>1. task[p] \in Tasks /\ JobOf(p) \in Jobs
  BY BusyTask DEF CloseRun, Charge, Settle, Revert
<1>2. row[JobOf(p)] \in Rows /\ row[JobOf(p)].retries + 1 \in Nat
  <2>1. row[JobOf(p)] \in Rows
    BY <1>1 DEF Types
  <2>. QED BY <2>1 DEF Rows
<1>3. CASE CloseRun(p)
  <2>1. [task[p] EXCEPT !.at = "charging"] \in Tasks /\ [task[p] EXCEPT !.at = "settling"] \in Tasks
    BY <1>1, TaskAt DEF Ats
  <2>2. \E t \in Tasks \cup {NoTask} : task' = [task EXCEPT ![p] = t]
    BY <1>3, <2>1 DEF CloseRun
  <2>3. task' \in [Procs -> Tasks \cup {NoTask}]
    BY <2>2, TaskTypes
  <2>. QED BY <1>3, <2>3 DEF CloseRun, Types
<1>4. CASE Charge(p)
  <2>1. [task[p] EXCEPT !.at = "settling"] \in Tasks
    BY <1>1, TaskAt DEF Ats
  <2>2. \E t \in Tasks \cup {NoTask} : task' = [task EXCEPT ![p] = t]
    BY <1>4, <2>1 DEF Charge
  <2>3. task' \in [Procs -> Tasks \cup {NoTask}]
    BY <2>2, TaskTypes
  <2>4. PICK n \in Nat : row' = Updated(JobOf(p), [row[JobOf(p)] EXCEPT !.retries = n])
    BY <1>2, <1>4 DEF Charge
  <2>5. row' \in [Jobs -> Rows]
    BY <1>1, <1>2, <2>4, ChargedRow, UpdatedRow
  <2>6. charges' \in [Jobs -> Nat]
    BY <1>1, <1>4, CountedTypes DEF Charge, Types
  <2>. QED BY <1>4, <2>3, <2>5, <2>6 DEF Charge, Types
<1>5. CASE Settle(p)
  <2>1. [task[p] EXCEPT !.at = "reverting"] \in Tasks
    BY <1>1, TaskAt DEF Ats
  <2>2. \E t \in Tasks \cup {NoTask} : task' = [task EXCEPT ![p] = t]
    BY <1>5, <2>1 DEF Settle
  <2>3. task' \in [Procs -> Tasks \cup {NoTask}]
    BY <2>2, TaskTypes
  <2>4. /\ Timed(row[JobOf(p)], "later") \in Rows
        /\ FiringEnds(row[JobOf(p)], "fired") \in Rows
        /\ FiringEnds(row[JobOf(p)], "cancelled") \in Rows
        /\ [row[JobOf(p)] EXCEPT !.retries = 0] \in Rows
    BY <1>2, TimedRow, FiringRow, ChargedRow
  <2>5. \E new \in Rows : row' = Updated(JobOf(p), new)
    BY <1>2, <1>5, <2>4 DEF Settle
  <2>6. row' \in [Jobs -> Rows]
    BY <1>1, <2>5, UpdatedRow
  <2>. QED BY <1>5, <2>3, <2>6 DEF Settle, Types
<1>6. CASE Revert(p)
  <2>1. task' \in [Procs -> Tasks \cup {NoTask}]
    BY <1>6, TaskTypes DEF Revert
  <2>2. row' \in [Jobs -> Rows]
    BY <1>1, <1>2, <1>6, FiringRow, UpdatedRow DEF Revert, Reverted
  <2>3. taken' \in [Jobs -> Nat]
    BY <1>1, <1>6, CountedTypes DEF Revert, Types
  <2>. QED BY <1>6, <2>1, <2>2, <2>3 DEF Revert, Types
<1>. QED BY <1>3, <1>4, <1>5, <1>6

\* The daemon stops, starts, recovers, runs a schedule by hand and spawns
\* workers.
LEMMA DaemonTypes ==
  ASSUME Types,
         \/ \E survivors \in SUBSET Live : DaemonStops(survivors)
         \/ DaemonStarts \/ (\E e \in stale : Recover(e)) \/ RecoveryDone
         \/ \E w \in Workers : Spawn(w)
         \/ \E j \in Jobs : RunNow(j)
         \/ \E ok \in BOOLEAN : ManualRun(ok)
  PROVE  Types'
<1> USE DEF rowVars, workerVars, daemonVars, history
<1>0. Daemon \in Procs
  BY DEF Procs
<1>1. ASSUME NEW survivors \in SUBSET Live, DaemonStops(survivors) PROVE Types'
  <2>1. phase' \in [Workers -> Phases]
    BY <1>1 DEF DaemonStops, Types, Phases
  <2>2. cand' \in [Workers -> SUBSET Snapshots] /\ batch' \in [Workers -> SUBSET Snapshots]
    BY <1>1 DEF DaemonStops, Types
  <2>3. task' \in [Procs -> Tasks \cup {NoTask}]
    BY <1>1 DEF DaemonStops, Types
  <2>. QED BY <1>1, <2>1, <2>2, <2>3 DEF DaemonStops, Types
<1>2. CASE DaemonStarts
  <2>1. FindStale \subseteq [job : Jobs, run : Procs]
    <3>1. {[job |-> r[1], run |-> r[2]] : r \in open} \subseteq [job : Jobs, run : Procs]
      BY DEF Types
    <3>2. OneShots \subseteq Jobs
      BY DEF OneShots
    <3>3. \A j \in OneShots : [job |-> j, run |-> Daemon] \in [job : Jobs, run : Procs]
      BY <1>0, <3>2
    <3>. QED BY <3>1, <3>3 DEF FindStale
  <2>. QED BY <1>2, <2>1 DEF DaemonStarts, Types
<1>3. ASSUME NEW e \in stale, Recover(e) PROVE Types'
  <2>1. e.job \in Jobs /\ e.run \in Procs
    BY DEF Types
  <2>2. CASE Gone(e.job)
    BY <1>3, <2>2 DEF Recover, Types
  <2>3. CASE ~Gone(e.job)
    <3>. DEFINE t == [TaskFor(Snapshot(e.job), "closing", e.run, FALSE) EXCEPT !.ok = FALSE]
    <3>1. t \in Tasks
      BY <2>1, SnapshotOf, TaskTaken DEF Ats
    <3>2. task' = [task EXCEPT ![Daemon] = t]
      BY <1>3, <2>3 DEF Recover
    <3>. HIDE DEF t
    <3>3. task' \in [Procs -> Tasks \cup {NoTask}]
      BY <1>0, <3>1, <3>2, TaskTypes
    <3>4. open' \subseteq Jobs \X Procs
      BY <1>3, <2>1, <2>3 DEF Recover, Types
    <3>. QED BY <1>3, <2>3, <3>3, <3>4 DEF Recover, Types
  <2>. QED BY <2>2, <2>3
<1>4. CASE RecoveryDone
  BY <1>4 DEF RecoveryDone, Types
<1>5. ASSUME NEW w \in Workers, Spawn(w) PROVE Types'
  BY <1>5 DEF Spawn, Types, Phases
<1>6. ASSUME NEW j \in Jobs, RunNow(j) PROVE Types'
  <2>. DEFINE t == TaskFor(Snapshot(j), "executing", Daemon, TRUE)
  <2>1. t \in Tasks
    BY <1>0, SnapshotOf, TaskTaken DEF Ats
  <2>2. task' = [task EXCEPT ![Daemon] = t]
    BY <1>6 DEF RunNow
  <2>. HIDE DEF t
  <2>3. task' \in [Procs -> Tasks \cup {NoTask}]
    BY <1>0, <2>1, <2>2, TaskTypes
  <2>4. open' \subseteq Jobs \X Procs
    BY <1>0, <1>6 DEF RunNow, Types
  <2>. QED BY <1>6, <2>3, <2>4 DEF RunNow, Types
<1>7. ASSUME NEW ok \in BOOLEAN, ManualRun(ok) PROVE Types'
  <2>1. task[Daemon] \in Tasks
    BY <1>0, <1>7, BusyTask DEF ManualRun
  <2>2. task' = [task EXCEPT ![Daemon] = [task[Daemon] EXCEPT !.at = "closing", !.ok = ok]]
    BY <1>0, <1>7, <2>1 DEF ManualRun, Types, Tasks
  <2>3. task' \in [Procs -> Tasks \cup {NoTask}]
    BY <1>0, <2>1, <2>2, TaskAt, TaskTypes DEF Ats
  <2>. QED BY <1>7, <2>3 DEF ManualRun, Types
<1>. QED BY <1>1, <1>2, <1>3, <1>4, <1>5, <1>6, <1>7

\* The user's edits, the drain leases and the writes that fail.
LEMMA OtherTypes ==
  ASSUME Types,
         \/ \E j \in Jobs : Disable(j) \/ Enable(j) \/ Cancel(j) \/ Delete(j)
         \/ ArmLease \/ LeaseEnds
         \/ \E w \in Workers : WorkerEnds(w) \/ TickThrows(w) \/ CaughtThrow(w) \/ DeferThrows(w)
         \/ RecoveryThrows
  PROVE  Types'
<1> USE DEF rowVars, workerVars, daemonVars, history
<1>1. ASSUME NEW j \in Jobs, Disable(j) \/ Enable(j) \/ Cancel(j) \/ Delete(j) PROVE Types'
  <2>1. row[j] \in Rows
    BY DEF Types
  <2>2. Timed(row[j], "zero") \in Rows /\ Timed(row[j], "later") \in Rows
    BY <2>1, TimedRow
  <2>3. CASE Disable(j)
    <3>1. PICK r \in Rows : row' = [row EXCEPT ![j] = [r EXCEPT !.enabled = FALSE]]
      BY <2>1, <2>2, <2>3 DEF Disable
    <3>2. row' \in [Jobs -> Rows]
      BY <3>1, StatusRow DEF Types
    <3>. QED BY <2>3, <3>2 DEF Disable, Types
  <2>4. CASE Enable(j)
    <3>1. PICK r \in Rows : row' = [row EXCEPT ![j] = [r EXCEPT !.enabled = TRUE]]
      BY <2>1, <2>2, <2>4 DEF Enable
    <3>2. row' \in [Jobs -> Rows]
      BY <3>1, StatusRow DEF Types
    <3>3. left' \in [Jobs -> Nat]
      BY <2>4 DEF Enable, Types
    <3>. QED BY <2>4, <3>2, <3>3 DEF Enable, Types
  <2>5. CASE Cancel(j)
    <3>1. row' = [row EXCEPT ![j] = [row[j] EXCEPT !.status = "cancelled", !.enabled = FALSE]]
      BY <2>1, <2>5 DEF Cancel, Types, Rows
    <3>2. row' \in [Jobs -> Rows]
      BY <2>1, <3>1, StatusRow DEF Types, Ended
    <3>. QED BY <2>5, <3>2 DEF Cancel, Types
  <2>6. CASE Delete(j)
    <3>1. row' = [row EXCEPT ![j] = [row[j] EXCEPT !.status = "gone", !.enabled = FALSE]]
      BY <2>1, <2>6 DEF Delete, Types, Rows
    <3>2. row' \in [Jobs -> Rows]
      BY <2>1, <3>1, StatusRow DEF Types, Ended
    <3>. QED BY <2>6, <3>2 DEF Delete, Types
  <2>. QED BY <1>1, <2>3, <2>4, <2>5, <2>6
<1>2. CASE ArmLease \/ LeaseEnds
  BY <1>2 DEF ArmLease, LeaseEnds, Types
<1>3. ASSUME NEW w \in Workers, WorkerEnds(w) \/ TickThrows(w) PROVE Types'
  <2>1. PICK to \in Phases : Abandon({w}, to)
    BY <1>3 DEF WorkerEnds, TickThrows, Phases
  <2>. QED BY <1>3, <2>1, AbandonTypes DEF WorkerEnds, TickThrows, Types
<1>4. ASSUME NEW w \in Workers, CaughtThrow(w) PROVE Types'
  <2>1. w \in Procs /\ task[w] \in Tasks
    BY <1>4, BusyTask DEF CaughtThrow, InTry, Busy, Procs
  <2>2. PICK at \in Ats : task' = [task EXCEPT ![w].ok = FALSE, ![w].inTry = FALSE, ![w].at = at]
    BY <1>4 DEF CaughtThrow, Ats
  <2>4. task' = [task EXCEPT ![w] = [task[w] EXCEPT !.at = at, !.ok = FALSE, !.inTry = FALSE]]
    BY <2>1, <2>2 DEF Types, Tasks
  <2>3. task' \in [Procs -> Tasks \cup {NoTask}]
    BY <2>1, <2>4, TaskTry, TaskTypes
  <2>. QED BY <1>4, <2>3 DEF CaughtThrow, Types
<1>5. ASSUME NEW w \in Workers, DeferThrows(w) PROVE Types'
  <2>1. task' \in [Procs -> Tasks \cup {NoTask}]
    BY <1>5, TaskTypes DEF DeferThrows, Procs
  <2>. QED BY <1>5, <2>1 DEF DeferThrows, Types
<1>6. CASE RecoveryThrows
  <2>1. task' \in [Procs -> Tasks \cup {NoTask}]
    BY <1>6, TaskTypes DEF RecoveryThrows, Procs, Types
  <2>2. stale' \subseteq stale
    BY <1>6 DEF RecoveryThrows
  <2>. QED BY <1>6, <2>1, <2>2 DEF RecoveryThrows, Types
<1>. QED BY <1>1, <1>2, <1>3, <1>4, <1>5, <1>6

\* Every step keeps the types.
LEMMA NextTypes == Types /\ [Next]_vars => Types'
<1> SUFFICES ASSUME Types, [Next]_vars PROVE Types'
  OBVIOUS
<1>1. CASE UNCHANGED vars
  BY <1>1 DEF vars, rowVars, workerVars, daemonVars, history, Types
<1>2. ASSUME NEW j \in Jobs, Due(j) PROVE Types'
  <2>1. [row[j] EXCEPT !.next = "due"] \in Rows
    <3>1. row[j] \in Rows
      BY DEF Types
    <3>. QED BY <3>1 DEF Rows
  <2>2. row' = [row EXCEPT ![j] = [row[j] EXCEPT !.next = "due"]]
    BY <1>2 DEF Due, Types
  <2>3. row' \in [Jobs -> Rows]
    BY <2>1, <2>2 DEF Types
  <2>. QED BY <1>2, <2>3 DEF Due, Types, workerVars, daemonVars, history
<1>3. ASSUME NEW w \in Workers, WorkerStep(w) \/ Spawn(w) PROVE Types'
  <2>1. w \in Procs
    BY DEF Procs
  <2>. QED BY <1>3, <2>1, ClaimTypes, StartTypes, ExecuteTypes, SettleTypes, DaemonTypes
           DEF WorkerStep
<1>4. CASE DaemonStep
  <2>1. Daemon \in Procs
    BY DEF Procs
  <2>. QED BY <1>4, <2>1, SettleTypes, DaemonTypes DEF DaemonStep
<1>5. CASE Users
  BY <1>5, DaemonTypes, OtherTypes DEF Users
<1>6. CASE ArmLease \/ LeaseEnds
  BY <1>6, OtherTypes
<1>7. CASE Failures
  BY <1>7, DaemonTypes, OtherTypes DEF Failures
<1>. QED BY <1>1, <1>2, <1>3, <1>4, <1>5, <1>6, <1>7 DEF Next

-----------------------------------------------------------------------------
(* What a step does to the rows and to what is counted of them.            *)

\* The step writes no schedule.
NoWrite == UNCHANGED <<row, kind, charges, taken, deferred, userOff>>

\* The steps that do.
Write ==
  \/ \E j \in Jobs : Due(j) \/ Disable(j) \/ Enable(j) \/ Cancel(j) \/ Delete(j)
  \/ \E w \in Workers : \E s \in cand[w] : ClaimRecurring(w, s) \/ ClaimOneShot(w, s)
  \/ \E w \in Workers : \E s \in batch[w] : Defer(w, s)
  \/ \E w \in Workers : DeferStatus(w) \/ WakeTimesOut(w) \/ WakeNotInvoked(w)
  \/ \E p \in Procs : Charge(p) \/ Settle(p) \/ Revert(p)

\* Selections, executions, run rows, recoveries and the lives of the
\* processes write no schedule.
LEMMA Writes == [Next]_vars => Write \/ NoWrite
<1> SUFFICES ASSUME [Next]_vars, ~Write PROVE NoWrite
  OBVIOUS
<1> USE DEF NoWrite, rowVars, workerVars, daemonVars, history
<1>0. Workers \subseteq Procs /\ Daemon \in Procs
  BY DEF Procs
<1>1. CASE UNCHANGED vars
  BY <1>1 DEF vars
<1>2. ASSUME NEW w \in Workers, WorkerStep(w) \/ Spawn(w) PROVE NoWrite
  <2>1. CASE ReadRecurring(w) \/ ReadOneShots(w) \/ TickDone(w) \/ Spawn(w)
    BY <2>1 DEF ReadRecurring, ReadOneShots, TickDone, Spawn
  <2>2. ASSUME NEW s \in batch[w], Start(w, s) \/ Skip(w, s) PROVE NoWrite
    BY <2>2 DEF Start, Skip
  <2>3. ASSUME NEW ok \in BOOLEAN, Execute(w, ok) PROVE NoWrite
    BY <2>3 DEF Execute
  <2>4. CASE Record(w) \/ CloseRun(w)
    BY <2>4 DEF Record, CloseRun
  <2>. QED BY <1>0, <1>2, <2>1, <2>2, <2>3, <2>4 DEF WorkerStep, Write
<1>3. CASE DaemonStep
  <2>1. CASE DaemonStarts \/ RecoveryDone \/ CloseRun(Daemon)
    BY <2>1 DEF DaemonStarts, RecoveryDone, CloseRun
  <2>2. ASSUME NEW e \in stale, Recover(e) PROVE NoWrite
    BY <2>2 DEF Recover
  <2>3. ASSUME NEW ok \in BOOLEAN, ManualRun(ok) PROVE NoWrite
    BY <2>3 DEF ManualRun
  <2>. QED BY <1>0, <1>3, <2>1, <2>2, <2>3 DEF DaemonStep, Write
<1>4. CASE Users
  BY <1>4 DEF Users, RunNow, Write
<1>5. CASE ArmLease \/ LeaseEnds
  BY <1>5 DEF ArmLease, LeaseEnds
<1>6. CASE Failures
  BY <1>6 DEF Failures, DaemonStops, WorkerEnds, TickThrows, CaughtThrow, DeferThrows,
                RecoveryThrows
<1>. QED BY <1>1, <1>2, <1>3, <1>4, <1>5, <1>6 DEF Next, Write

\* The rules that every write of a status obeys.
StatusRules(j) ==
  /\ row[j].status \in Ended => row'[j].status \in {row[j].status, "gone"}
  /\ row'[j].status = "gone" => row[j].status = "gone" \/ j \in userOff'
  /\ row[j].status = "gone" /\ j \in userOff => j \in userOff'

\* An UPDATE with a row that obeys them does.
LEMMA UpdateRules ==
  ASSUME Types, NEW j \in Jobs, NEW new \in Rows,
         row' = Updated(j, new), UNCHANGED userOff,
         new.status # row[j].status =>
           row[j].status \in {"active", "firing"} /\ new.status # "gone"
  PROVE  \A i \in Jobs : StatusRules(i)
<1>1. \A i \in Jobs \ {j} : row'[i] = row[i]
  BY UpdatedRow
<1>2. row'[j] = row[j] \/ row'[j] = new
  BY UpdatedRow
<1>3. \A i \in Jobs \ {j} : StatusRules(i)
  BY <1>1 DEF StatusRules
<1>4. StatusRules(j)
  BY <1>2 DEF StatusRules, Ended
<1>. QED BY <1>3, <1>4

\* Only the user deletes a row, and an ended row is written no other status.
LEMMA StatusStep ==
  ASSUME Types, [Next]_vars, NEW i \in Jobs
  PROVE  StatusRules(i)
<1> USE DEF rowVars, workerVars, daemonVars, history
<1>1. CASE NoWrite
  BY <1>1 DEF NoWrite, StatusRules
<1>2. ASSUME NEW j \in Jobs, Due(j) \/ Disable(j) \/ Enable(j) \/ Cancel(j) \/ Delete(j)
      PROVE StatusRules(i)
  <2>0. row[j] \in Rows /\ row[i] \in Rows
    BY DEF Types
  <2>1. CASE Due(j)
    BY <2>0, <2>1 DEF Due, StatusRules, Types, Rows
  <2>2. CASE Disable(j)
    <3>1. PICK r \in Rows : row' = [row EXCEPT ![j] = [r EXCEPT !.enabled = FALSE]]
                            /\ r.status = row[j].status
      BY <2>0, <2>2, TimedRow DEF Disable
    <3>2. row'[i].status = row[i].status
      BY <2>0, <3>1 DEF Types, Rows
    <3>. QED BY <2>2, <3>2 DEF StatusRules, Disable
  <2>3. CASE Enable(j)
    <3>1. PICK r \in Rows : row' = [row EXCEPT ![j] = [r EXCEPT !.enabled = TRUE]]
                            /\ r.status = row[j].status
      BY <2>0, <2>3, TimedRow DEF Enable
    <3>2. row'[i].status = row[i].status
      BY <2>0, <3>1 DEF Types, Rows
    <3>. QED BY <2>3, <3>2 DEF StatusRules, Enable, Gone
  <2>4. CASE Cancel(j)
    BY <2>0, <2>4 DEF Cancel, StatusRules, Types, Rows, Ended
  <2>5. CASE Delete(j)
    BY <2>0, <2>5 DEF Delete, StatusRules, Types, Rows
  <2>. QED BY <1>2, <2>1, <2>2, <2>3, <2>4, <2>5
<1>3. ASSUME NEW w \in Workers, NEW s \in cand[w], ClaimRecurring(w, s) \/ ClaimOneShot(w, s)
      PROVE StatusRules(i)
  <2>1. s.job \in Jobs /\ row[s.job] \in Rows /\ row[i] \in Rows
    BY DEF Types, Snapshots
  <2>2. CASE ClaimRecurring(w, s)
    <3>1. PICK r \in Rows : r.status = row[s.job].status
                            /\ (row' = row \/ row' = [row EXCEPT ![s.job] = r])
      <4>1. /\ Timed(row[s.job], "later") \in Rows
            /\ Timed(row[s.job], "later").status = row[s.job].status
        BY <2>1, TimedRow
      <4>2. PICK t \in Rows : t = Timed(row[s.job], "zero") /\ t.status = row[s.job].status
        BY <2>1, TimedRow
      <4>3. [t EXCEPT !.enabled = FALSE] \in Rows /\ [t EXCEPT !.enabled = FALSE].status = t.status
        BY <4>2 DEF Rows
      <4>. QED BY <2>1, <2>2, <4>1, <4>2, <4>3 DEF ClaimRecurring, Types
    <3>2. row'[i].status = row[i].status
      BY <2>1, <3>1 DEF Types
    <3>. QED BY <2>2, <3>2 DEF StatusRules, ClaimRecurring
  <2>3. CASE ClaimOneShot(w, s)
    BY <2>1, <2>3 DEF StatusRules, ClaimOneShot, StillActive, Types, Rows, Ended
  <2>. QED BY <1>3, <2>2, <2>3
<1>4. ASSUME NEW w \in Workers, NEW s \in batch[w], Defer(w, s) PROVE StatusRules(i)
  <2>1. s.job \in Jobs /\ row[s.job] \in Rows
    BY DEF Types, Snapshots
  <2>2. DeferredRow(row[s.job]) \in Rows /\ DeferredRow(row[s.job]).status = row[s.job].status
    BY <2>1, DeferRow
  <2>. QED BY <1>4, <2>1, <2>2, UpdateRules DEF Defer
<1>5. ASSUME NEW p \in Procs,
             \/ p \in Workers /\ (DeferStatus(p) \/ WakeTimesOut(p) \/ WakeNotInvoked(p))
             \/ Charge(p) \/ Settle(p) \/ Revert(p)
      PROVE StatusRules(i)
  <2>1. task[p] \in Tasks /\ JobOf(p) \in Jobs
    BY <1>5, BusyTask DEF DeferStatus, WakeTimesOut, WakeNotInvoked, Charge, Settle, Revert
  <2>. DEFINE r == row[JobOf(p)]
  <2>2. r \in Rows
    BY <2>1 DEF Types
  <2>3. \A to \in {"active", "fired", "cancelled"} :
          /\ FiringTo(r, to) \in Rows /\ FiringEnds(r, to) \in Rows
          /\ FiringTo(r, to).status # r.status \/ FiringEnds(r, to).status # r.status =>
               /\ r.status = "firing"
               /\ FiringTo(r, to).status # "gone" /\ FiringEnds(r, to).status # "gone"
    BY <2>2, FiringRow
  <2>4. CASE DeferStatus(p)
    BY <2>1, <2>3, <2>4, UpdateRules DEF DeferStatus
  <2>5. CASE WakeTimesOut(p)
    <3>1. CASE row' = row
      BY <2>5, <3>1 DEF WakeTimesOut, StatusRules
    <3>2. CASE row' = Updated(JobOf(p), FiringEnds(r, "cancelled"))
      BY <2>1, <2>3, <2>5, <3>2, UpdateRules DEF WakeTimesOut
    <3>3. CASE r.status = "firing" /\ row' = [row EXCEPT ![JobOf(p)].status = "active",
                                                        ![JobOf(p)].retries = @ + 1]
      <4>1. row'[i] = row[i] \/ (i = JobOf(p) /\ row'[i].status = "active")
        BY <2>1, <2>2, <3>3 DEF Types, Rows
      <4>. QED BY <2>5, <3>3, <4>1 DEF WakeTimesOut, StatusRules, Ended
    <3>. QED BY <2>5, <3>1, <3>2, <3>3 DEF WakeTimesOut
  <2>6. CASE WakeNotInvoked(p)
    <3>1. CASE row' = row
      BY <2>6, <3>1 DEF WakeNotInvoked, StatusRules
    <3>2. CASE row' = Updated(JobOf(p), FiringEnds(r, "fired"))
      BY <2>1, <2>3, <2>6, <3>2, UpdateRules DEF WakeNotInvoked
    <3>. QED BY <2>6, <3>1, <3>2 DEF WakeNotInvoked
  <2>7. CASE Charge(p)
    <3>1. \A n \in Nat : [r EXCEPT !.retries = n] \in Rows /\ [r EXCEPT !.retries = n].status = r.status
      BY <2>2, ChargedRow
    <3>2. r.retries + 1 \in Nat
      BY <2>2 DEF Rows
    <3>3. PICK n \in Nat : row' = Updated(JobOf(p), [r EXCEPT !.retries = n])
      BY <2>7, <3>2 DEF Charge
    <3>. HIDE DEF r
    <3>. QED BY <2>1, <2>7, <3>1, <3>3, UpdateRules DEF Charge, r
  <2>8. CASE Settle(p)
    <3>1. Timed(r, "later") \in Rows /\ Timed(r, "later").status = r.status
      BY <2>2, TimedRow
    <3>2. [r EXCEPT !.retries = 0] \in Rows /\ [r EXCEPT !.retries = 0].status = r.status
      BY <2>2, ChargedRow
    <3>3. \E new \in Rows :
            /\ row' = Updated(JobOf(p), new)
            /\ new.status # r.status => r.status = "firing" /\ new.status # "gone"
      BY <2>2, <2>3, <2>8, <3>1, <3>2 DEF Settle
    <3>. QED BY <2>1, <2>8, <3>3, UpdateRules DEF Settle
  <2>9. CASE Revert(p)
    BY <2>1, <2>3, <2>9, UpdateRules DEF Revert, Reverted
  <2>. QED BY <1>5, <2>4, <2>5, <2>6, <2>7, <2>8, <2>9
<1>. QED BY <1>1, <1>2, <1>3, <1>4, <1>5, Writes DEF Write, Procs

\* The rows and every process's bookkeeping are what the schema and the tick
\* say they are, and workers are started only once recovery is done.
THEOREM SchedulerTypes == Spec => []TypeOK
<1>1. Types => TypeOK
  BY DEF Types, TypeOK, Rows
<1>. QED BY InitTypes, NextTypes, <1>1, PTL DEF Spec

\* A fired, cancelled or deleted schedule is not brought back by a late write
\* of a worker, a recovery or a retry: each compares the status or the id.
THEOREM EndedForGood == Spec => EndedStaysEnded
<1>1. Types /\ [Next]_vars =>
        [\A j \in OneShots : row[j].status \in Ended =>
           row'[j].status \in {row[j].status, "gone"}]_vars
  <2> SUFFICES ASSUME Types, [Next]_vars, NEW j \in OneShots, row[j].status \in Ended
               PROVE  row'[j].status \in {row[j].status, "gone"}
    OBVIOUS
  <2>1. j \in Jobs
    BY DEF OneShots
  <2>. QED BY <2>1, StatusStep DEF StatusRules
<1>. QED BY InitTypes, NextTypes, <1>1, PTL DEF Spec, EndedStaysEnded

-----------------------------------------------------------------------------
(* Deferred occurrences.                                                   *)

\* A deferred occurrence is one of a schedule, and a schedule that is gone was
\* deleted by the user.
DeferInv == deferred \subseteq Jobs /\ GoneByUser /\ DeferredComesBack

\* Whether a schedule recurs never changes.
LEMMA KindFixed ==
  ASSUME Types, [Next]_vars
  PROVE  kind' = kind /\ OneShots' = OneShots /\ OneShots \subseteq Jobs
<1>1. kind' = kind
  BY Writes DEF NoWrite, Write, Due, Disable, Enable, Cancel, Delete, ClaimRecurring,
     ClaimOneShot, Defer, DeferStatus, WakeTimesOut, WakeNotInvoked, Charge, Settle, Revert
<1>. QED BY <1>1, OneShotsAre

\* Every deleted schedule is one the user deleted.
LEMMA GoneStep ==
  ASSUME Types, GoneByUser, [Next]_vars
  PROVE  GoneByUser'
  BY StatusStep DEF GoneByUser, StatusRules, Gone

\* A recurring schedule that a drain put back stays on and timed under every
\* write but a claim of it or the user's.
LEMMA DeferStep ==
  ASSUME Types, DeferInv, [Next]_vars
  PROVE  DeferInv'
<1> USE DEF rowVars, workerVars, daemonVars, history
<1>0. OneShots' = OneShots
  BY KindFixed
<1>a. GoneByUser'
  BY GoneStep DEF DeferInv
<1>b. \A i \in Jobs : row[i] \in Rows
  BY DEF Types
<1>c. ASSUME NEW i \in Jobs, i \in deferred, i \notin userOff, i \notin OneShots
      PROVE  row[i].enabled /\ row[i].next # "zero"
  BY <1>c DEF DeferInv, DeferredComesBack
\* A step that takes no schedule from userOff and adds none to deferred.
<1>d. ASSUME deferred' \subseteq deferred, userOff \subseteq userOff',
             \A i \in Jobs \ OneShots :
               \/ i \in userOff' \/ i \notin deferred'
               \/ row[i].enabled => row'[i].enabled /\ row'[i].next \in {row[i].next, "later", "due"}
      PROVE  DeferInv'
  BY <1>0, <1>a, <1>d DEF DeferInv, DeferredComesBack
<1>1. CASE NoWrite
  BY <1>1, <1>d DEF NoWrite
<1>2. ASSUME NEW j \in Jobs, Due(j) \/ Disable(j) \/ Enable(j) \/ Cancel(j) \/ Delete(j)
      PROVE DeferInv'
  <2>1. CASE Due(j)
    BY <1>b, <1>d, <2>1 DEF Due, Types, Rows
  <2>2. CASE Disable(j)
    <3>1. \A i \in Jobs \ {j} : row'[i] = row[i]
      BY <2>2 DEF Disable, Types
    <3>. QED BY <1>d, <2>2, <3>1 DEF Disable
  <2>3. CASE Enable(j)
    <3>1. \A i \in Jobs \ {j} : row'[i] = row[i]
      BY <2>3 DEF Enable, Types
    <3>2. j \notin OneShots => row'[j].enabled = TRUE /\ row'[j].next = "later"
      BY <1>b, <2>3, TimedRow DEF Enable, Types, Rows
    <3>. QED BY <1>0, <1>a, <2>3, <3>1, <3>2 DEF Enable, DeferInv, DeferredComesBack
  <2>4. CASE Cancel(j)
    <3>1. \A i \in Jobs \ {j} : row'[i] = row[i]
      BY <2>4 DEF Cancel, Types
    <3>. QED BY <1>d, <2>4, <3>1 DEF Cancel
  <2>5. CASE Delete(j)
    <3>1. \A i \in Jobs \ {j} : row'[i] = row[i]
      BY <2>5 DEF Delete, Types
    <3>. QED BY <1>d, <2>5, <3>1 DEF Delete
  <2>. QED BY <1>2, <2>1, <2>2, <2>3, <2>4, <2>5
<1>3. ASSUME NEW w \in Workers, NEW s \in cand[w], ClaimRecurring(w, s) \/ ClaimOneShot(w, s)
      PROVE DeferInv'
  <2>1. s.job \in Jobs
    BY DEF Types, Snapshots
  <2>2. \A i \in Jobs : \/ row'[i] = row[i]
                        \/ i = s.job /\ i \notin deferred'
    BY <1>3, <2>1 DEF ClaimRecurring, ClaimOneShot, Types
  <2>3. deferred' \subseteq deferred /\ userOff' = userOff
    BY <1>3 DEF ClaimRecurring, ClaimOneShot
  <2>. QED BY <1>d, <2>2, <2>3
<1>4. ASSUME NEW w \in Workers, NEW s \in batch[w], Defer(w, s) PROVE DeferInv'
  <2>1. s.job \in Jobs /\ row[s.job] \in Rows
    BY DEF Types, Snapshots
  <2>2. PICK new \in Rows : new = DeferredRow(row[s.job]) /\ new.enabled = TRUE /\ new.next = "later"
    BY <2>1, DeferRow
  <2>3. row' = Updated(s.job, new)
    BY <1>4, <2>2 DEF Defer
  <2>4. /\ row'[s.job] = IF Gone(s.job) THEN row[s.job] ELSE new
        /\ \A i \in Jobs \ {s.job} : row'[i] = row[i]
    BY <2>1, <2>3, UpdatedRow
  <2>5. deferred' = deferred \cup {s.job} /\ userOff' = userOff
    BY <1>4 DEF Defer
  <2>. QED BY <1>0, <1>a, <2>1, <2>2, <2>4, <2>5 DEF DeferInv, DeferredComesBack, GoneByUser
<1>5. ASSUME NEW p \in Procs,
             \/ p \in Workers /\ (DeferStatus(p) \/ WakeTimesOut(p) \/ WakeNotInvoked(p))
             \/ Charge(p) \/ Settle(p) \/ Revert(p)
      PROVE DeferInv'
  <2>1. task[p] \in Tasks /\ JobOf(p) \in Jobs
    BY <1>5, BusyTask DEF DeferStatus, WakeTimesOut, WakeNotInvoked, Charge, Settle, Revert
  <2>. DEFINE r == row[JobOf(p)]
  <2>2. r \in Rows
    BY <2>1 DEF Types
  <2>3. UNCHANGED <<deferred, userOff>>
    BY <1>5 DEF DeferStatus, WakeTimesOut, WakeNotInvoked, Charge, Settle, Revert
  <2>4. \A new \in Rows :
          /\ row' = Updated(JobOf(p), new)
          /\ JobOf(p) \notin OneShots =>
               new.enabled = r.enabled /\ new.next \in {r.next, "later"}
          => DeferInv'
    <3> SUFFICES ASSUME NEW new \in Rows, row' = Updated(JobOf(p), new),
                        JobOf(p) \notin OneShots =>
                          new.enabled = r.enabled /\ new.next \in {r.next, "later"}
                 PROVE  DeferInv'
      OBVIOUS
    <3>1. \A i \in Jobs \ {JobOf(p)} : row'[i] = row[i]
      BY <2>1, UpdatedRow
    <3>2. row'[JobOf(p)] = row[JobOf(p)] \/ row'[JobOf(p)] = new
      BY <2>1, UpdatedRow
    <3>. QED BY <1>d, <2>3, <3>1, <3>2
  <2>5. FiringTo(r, "active") \in Rows /\ FiringTo(r, "active").enabled = r.enabled
        /\ FiringTo(r, "active").next = r.next
    BY <2>2, FiringRow
  <2>6. CASE DeferStatus(p)
    BY <2>4, <2>5, <2>6 DEF DeferStatus
  <2>7. CASE WakeTimesOut(p) \/ WakeNotInvoked(p)
    <3>1. \A i \in Jobs \ OneShots : row'[i] = row[i]
      <4>1. JobOf(p) \notin OneShots => row' = row
        BY <2>7 DEF WakeTimesOut, WakeNotInvoked
      <4>2. \A i \in Jobs : i # JobOf(p) => row'[i] = row[i]
        BY <2>7 DEF WakeTimesOut, WakeNotInvoked, Updated, Types
      <4>. QED BY <4>1, <4>2
    <3>. QED BY <1>d, <2>3, <3>1
  <2>8. CASE Charge(p)
    <3>1. \A n \in Nat : /\ [r EXCEPT !.retries = n] \in Rows
                         /\ [r EXCEPT !.retries = n].enabled = r.enabled
                         /\ [r EXCEPT !.retries = n].next = r.next
      BY <2>2, ChargedRow
    <3>2. r.retries + 1 \in Nat
      BY <2>2 DEF Rows
    <3>3. PICK n \in Nat : row' = Updated(JobOf(p), [r EXCEPT !.retries = n])
      BY <2>8, <3>2 DEF Charge
    <3>. HIDE DEF r
    <3>. QED BY <2>4, <3>1, <3>3
  <2>9. CASE Settle(p)
    <3>1. Timed(r, "later") \in Rows /\ Timed(r, "later").enabled = r.enabled
          /\ Timed(r, "later").next = "later"
      BY <2>2, TimedRow
    <3>2. [r EXCEPT !.retries = 0] \in Rows /\ [r EXCEPT !.retries = 0].enabled = r.enabled
          /\ [r EXCEPT !.retries = 0].next = r.next
      BY <2>2, ChargedRow
    <3>3. \A to \in {"fired", "cancelled"} : FiringEnds(r, to) \in Rows
      BY <2>2, FiringRow
    <3>4. \E new \in Rows :
            /\ row' = Updated(JobOf(p), new)
            /\ JobOf(p) \notin OneShots =>
                 new.enabled = r.enabled /\ new.next \in {r.next, "later"}
      BY <2>2, <2>9, <3>1, <3>2, <3>3 DEF Settle
    <3>. QED BY <2>4, <3>4
  <2>10. CASE Revert(p)
    BY <2>4, <2>5, <2>10 DEF Revert, Reverted
  <2>. QED BY <1>5, <2>6, <2>7, <2>8, <2>9, <2>10
<1>. QED BY <1>1, <1>2, <1>3, <1>4, <1>5, Writes DEF Write, Procs

\* What a drain puts back is claimed again unless the user switched it off.
THEOREM SchedulerDeferral == Spec => []DeferredComesBack
<1>1. Init => DeferInv
  BY DEF Init, DeferInv, GoneByUser, Gone, DeferredComesBack
<1>2. Types /\ DeferInv /\ [Next]_vars => DeferInv'
  BY DeferStep
<1>3. DeferInv => DeferredComesBack
  BY DEF DeferInv
<1>. QED BY InitTypes, NextTypes, <1>1, <1>2, <1>3, PTL DEF Spec

-----------------------------------------------------------------------------
(* What a step does to what the processes have in hand.                    *)

\* Where a process's task comes from: it goes on with the one it had, takes a
\* row it claimed, or the daemon reads one.
TaskStep(p) ==
  \/ task'[p] = task[p]
  \/ task'[p] = NoTask
  \/ /\ Busy(p) /\ task'[p].snap = task[p].snap
     /\ task'[p].at = "settling" => CloseRun(p) \/ Charge(p)
  \/ /\ p \in Workers /\ ~Busy(p) /\ task'[p].at # "settling"
     /\ task'[p].snap \in batch[p] \ batch'[p]
  \/ p = Daemon /\ (\E j \in Jobs : task'[p].snap = Snapshot(j)) /\ task'[p].at # "settling"

\* A tick that ends has nothing in hand any more.
LEMMA AbandonTask ==
  ASSUME NEW W, NEW to, Abandon(W, to), NEW p \in Procs
  PROVE  TaskStep(p)
  BY DEF Abandon, TaskStep

\* A step of the process q that replaces its task.
LEMMA OneTask ==
  ASSUME Types, NEW q \in Procs, NEW t, task' = [task EXCEPT ![q] = t], NEW p \in Procs
  PROVE  task'[p] = (IF p = q THEN t ELSE task[p])
  BY DEF Types

\* The bookkeeping of a worker or of the daemon.
LEMMA SettleTask ==
  ASSUME Types, NEW q \in Procs, CloseRun(q) \/ Charge(q) \/ Settle(q) \/ Revert(q),
         NEW p \in Procs
  PROVE  TaskStep(p)
<1>1. task[q] \in Tasks /\ Busy(q)
  BY BusyTask DEF CloseRun, Charge, Settle, Revert
<1>2. PICK t : /\ task' = [task EXCEPT ![q] = t]
               /\ \/ t = NoTask
                  \/ \E at \in Ats : t = [task[q] EXCEPT !.at = at]
                                     /\ (at = "settling" => CloseRun(q) \/ Charge(q))
  BY <1>1 DEF CloseRun, Charge, Settle, Revert, Ats
<1>3. task'[p] = (IF p = q THEN t ELSE task[p])
  BY <1>2, OneTask
<1>4. \/ t = NoTask
      \/ t.snap = task[q].snap /\ (t.at = "settling" => CloseRun(q) \/ Charge(q))
  <2>1. ASSUME NEW at \in Ats, t = [task[q] EXCEPT !.at = at]
        PROVE  t.snap = task[q].snap /\ t.at = at
    BY <1>1, <2>1 DEF Tasks
  <2>2. CASE t = NoTask
    BY <2>2
  <2>3. ASSUME NEW at \in Ats, t = [task[q] EXCEPT !.at = at],
               at = "settling" => CloseRun(q) \/ Charge(q)
        PROVE  t.snap = task[q].snap /\ (t.at = "settling" => CloseRun(q) \/ Charge(q))
    BY <2>1, <2>3
  <2>. QED BY <1>2, <2>2, <2>3, Zenon
<1>. QED BY <1>1, <1>3, <1>4 DEF TaskStep

\* A worker's own steps.
LEMMA WorkerTask ==
  ASSUME Types, NEW w \in Workers, WorkerStep(w), NEW p \in Procs
  PROVE  TaskStep(p)
<1> USE DEF rowVars, workerVars, daemonVars, history
<1>0. w \in Procs
  BY DEF Procs
<1>1. CASE \/ ReadRecurring(w) \/ ReadOneShots(w) \/ TickDone(w)
           \/ (\E s \in cand[w] : ClaimRecurring(w, s) \/ ClaimOneShot(w, s))
           \/ \E s \in batch[w] : Skip(w, s)
  BY <1>1 DEF ReadRecurring, ReadOneShots, TickDone, ClaimRecurring, ClaimOneShot, Skip,
              TaskStep
<1>2. ASSUME NEW s \in batch[w], Start(w, s) \/ Defer(w, s) PROVE TaskStep(p)
  <2>1. CASE Abandon({w}, "idle")
    BY <2>1, AbandonTask
  <2>2. CASE ~Abandon({w}, "idle")
    <3>1. PICK at \in {"executing", "deferring"} :
            task' = [task EXCEPT ![w] = TaskFor(s, at, w, FALSE)]
      BY <1>2, <2>2 DEF Start, Defer
    <3>2. p # w => task'[p] = task[p]
      BY <1>0, <3>1, OneTask
    <3>3. task'[w].snap = s /\ task'[w].at # "settling"
      BY <1>0, <3>1 DEF Types, TaskFor
    <3>4. ~Busy(w) /\ s \notin batch'[w]
      BY <1>2, <2>2 DEF Start, Defer, Types
    <3>. QED BY <3>2, <3>3, <3>4 DEF TaskStep
  <2>. QED BY <2>1, <2>2
<1>3. CASE DeferStatus(w) \/ WakeTimesOut(w) \/ WakeNotInvoked(w)
  BY <1>0, <1>3, OneTask DEF DeferStatus, WakeTimesOut, WakeNotInvoked, TaskStep
<1>4. ASSUME NEW ok \in BOOLEAN, Execute(w, ok) PROVE TaskStep(p)
  <2>1. task[w] \in Tasks /\ Busy(w)
    BY <1>0, <1>4, BusyTask DEF Execute
  <2>3. PICK b \in BOOLEAN : task' = [task EXCEPT ![w] = AfterExecution(w, ok, b)]
    BY <1>4 DEF Execute, TryFor
  <2>2. \/ AfterExecution(w, ok, b) = NoTask
        \/ /\ AfterExecution(w, ok, b).snap = task[w].snap
           /\ AfterExecution(w, ok, b).at # "settling"
    BY <2>1 DEF AfterExecution, Tasks
  <2>4. task'[p] = (IF p = w THEN AfterExecution(w, ok, b) ELSE task[p])
    BY <1>0, <2>3, OneTask
  <2>. QED BY <2>1, <2>2, <2>4 DEF TaskStep
<1>5. CASE Record(w)
  <2>1. CASE Abandon({w}, "idle")
    BY <2>1, AbandonTask
  <2>2. CASE ~Abandon({w}, "idle")
    <3>1. task[w] \in Tasks /\ Busy(w)
      BY <1>0, <1>5, BusyTask DEF Record
    <3>2. task' = [task EXCEPT ![w] = [task[w] EXCEPT !.at = "closing"]]
      BY <1>0, <1>5, <2>2 DEF Record, Types
    <3>3. task'[p] = (IF p = w THEN [task[w] EXCEPT !.at = "closing"] ELSE task[p])
      BY <1>0, <3>2, OneTask
    <3>4. p = w => task'[p].snap = task[w].snap /\ task'[p].at # "settling"
      BY <3>1, <3>3 DEF Tasks
    <3>. QED BY <3>1, <3>3, <3>4 DEF TaskStep
  <2>. QED BY <2>1, <2>2
<1>6. CASE CloseRun(w) \/ Charge(w) \/ Settle(w) \/ Revert(w)
  BY <1>0, <1>6, SettleTask
<1>. QED BY <1>1, <1>2, <1>3, <1>4, <1>5, <1>6 DEF WorkerStep

\* Every step of every process.
LEMMA AnyTask ==
  ASSUME Types, [Next]_vars, NEW p \in Procs
  PROVE  TaskStep(p)
<1> USE DEF rowVars, workerVars, daemonVars, history
<1>0. Daemon \in Procs /\ Workers \subseteq Procs
  BY DEF Procs
<1>1. CASE \/ UNCHANGED vars \/ ArmLease \/ LeaseEnds \/ DaemonStarts \/ RecoveryDone
           \/ (\E w \in Workers : Spawn(w))
           \/ \E j \in Jobs : Due(j) \/ Disable(j) \/ Enable(j) \/ Cancel(j) \/ Delete(j)
  <2>1. UNCHANGED task
    BY <1>1 DEF vars, ArmLease, LeaseEnds, DaemonStarts, RecoveryDone, Spawn, Due, Disable,
                Enable, Cancel, Delete
  <2>. QED BY <2>1 DEF TaskStep
<1>2. ASSUME NEW e \in stale, Recover(e) PROVE TaskStep(p)
  <2>1. e.job \in Jobs
    BY DEF Types
  <2>2. CASE UNCHANGED task
    BY <2>2 DEF TaskStep
  <2>3. CASE ~UNCHANGED task
    <3>1. task' = [task EXCEPT ![Daemon] =
                     [TaskFor(Snapshot(e.job), "closing", e.run, FALSE) EXCEPT !.ok = FALSE]]
      BY <1>2, <2>3 DEF Recover
    <3>2. p # Daemon => task'[p] = task[p]
      BY <1>0, <3>1, OneTask
    <3>3. task'[Daemon].snap = Snapshot(e.job) /\ task'[Daemon].at # "settling"
      BY <1>0, <3>1 DEF Types, TaskFor
    <3>. QED BY <2>1, <3>2, <3>3 DEF TaskStep
  <2>. QED BY <2>2, <2>3
<1>3. ASSUME NEW j \in Jobs, RunNow(j) PROVE TaskStep(p)
  <2>1. task' = [task EXCEPT ![Daemon] = TaskFor(Snapshot(j), "executing", Daemon, TRUE)]
    BY <1>3 DEF RunNow
  <2>2. p # Daemon => task'[p] = task[p]
    BY <1>0, <2>1, OneTask
  <2>3. task'[Daemon].snap = Snapshot(j) /\ task'[Daemon].at # "settling"
    BY <1>0, <2>1 DEF Types, TaskFor
  <2>. QED BY <2>2, <2>3 DEF TaskStep
<1>4. ASSUME NEW ok \in BOOLEAN, ManualRun(ok) PROVE TaskStep(p)
  <2>1. task[Daemon] \in Tasks /\ Busy(Daemon)
    BY <1>0, <1>4, BusyTask DEF ManualRun
  <2>2. p # Daemon => task'[p] = task[p]
    BY <1>0, <1>4 DEF ManualRun, Types
  <2>3. task'[Daemon].snap = task[Daemon].snap /\ task'[Daemon].at # "settling"
    BY <1>0, <1>4, <2>1 DEF ManualRun, Types, Tasks
  <2>. QED BY <2>1, <2>2, <2>3 DEF TaskStep
<1>5. CASE CloseRun(Daemon) \/ Charge(Daemon) \/ Settle(Daemon) \/ Revert(Daemon)
  BY <1>0, <1>5, SettleTask
<1>6. ASSUME NEW survivors \in SUBSET Live, DaemonStops(survivors) PROVE TaskStep(p)
  BY <1>6 DEF DaemonStops, TaskStep
<1>7. ASSUME NEW w \in Workers, WorkerEnds(w) \/ TickThrows(w) PROVE TaskStep(p)
  BY <1>7, AbandonTask DEF WorkerEnds, TickThrows
<1>8. ASSUME NEW w \in Workers, CaughtThrow(w) PROVE TaskStep(p)
  <2>1. task[w] \in Tasks /\ Busy(w)
    BY <1>0, <1>8, BusyTask DEF CaughtThrow, InTry, Busy
  <2>2. PICK at \in {"closing", "recording"} :
          task' = [task EXCEPT ![w].ok = FALSE, ![w].inTry = FALSE, ![w].at = at]
    BY <1>8 DEF CaughtThrow
  <2>3. p # w => task'[p] = task[p]
    BY <1>0, <2>2 DEF Types
  <2>4. task'[w].snap = task[w].snap /\ task'[w].at # "settling"
    BY <1>0, <2>1, <2>2 DEF Types, Tasks
  <2>. QED BY <2>1, <2>3, <2>4 DEF TaskStep
<1>9. ASSUME NEW w \in Workers, DeferThrows(w) PROVE TaskStep(p)
  BY <1>0, <1>9, OneTask DEF DeferThrows, TaskStep
<1>10. CASE RecoveryThrows
  BY <1>0, <1>10, OneTask DEF RecoveryThrows, TaskStep
<1>. QED BY <1>1, <1>2, <1>3, <1>4, <1>5, <1>6, <1>7, <1>8, <1>9, <1>10, WorkerTask
         DEF Next, DaemonStep, Users, Failures

\* A tick's candidates are what its SELECT returned, and its claims are of them.
SnapStep(w) ==
  /\ cand'[w] \subseteq cand[w] \cup {Snapshot(j) : j \in Jobs}
  /\ \/ batch'[w] \subseteq batch[w]
     \/ \E s \in cand[w] : /\ batch'[w] = batch[w] \cup {s}
                           /\ ClaimRecurring(w, s) \/ ClaimOneShot(w, s)

\* Every step of every process.
LEMMA AnySnap ==
  ASSUME Types, [Next]_vars, NEW w \in Workers
  PROVE  SnapStep(w)
<1> USE DEF rowVars, workerVars, daemonVars, history
<1>0. DueRecurring \subseteq Jobs /\ DueOneShots \subseteq Jobs
  BY DEF DueRecurring, DueOneShots, OneShots
<1>a. ASSUME NEW W, NEW to, Abandon(W, to) PROVE SnapStep(w)
  BY <1>a DEF Abandon, SnapStep
<1>1. CASE UNCHANGED workerVars \/ UNCHANGED <<cand, batch>>
  BY <1>1 DEF SnapStep
<1>2. ASSUME NEW v \in Workers, ReadRecurring(v) \/ ReadOneShots(v) PROVE SnapStep(w)
  BY <1>0, <1>2 DEF ReadRecurring, ReadOneShots, SnapStep, Types
<1>3. ASSUME NEW v \in Workers, NEW s \in cand[v], ClaimRecurring(v, s) \/ ClaimOneShot(v, s)
      PROVE SnapStep(w)
  <2>1. cand'[w] \subseteq cand[w] /\ (w # v => batch'[w] = batch[w])
    BY <1>3 DEF ClaimRecurring, ClaimOneShot, Types
  <2>2. batch'[v] = batch[v] \/ batch'[v] = batch[v] \cup {s}
    BY <1>3 DEF ClaimRecurring, ClaimOneShot, Types
  <2>. QED BY <1>3, <2>1, <2>2 DEF SnapStep
<1>4. ASSUME NEW v \in Workers, NEW s \in batch[v], Start(v, s) \/ Skip(v, s) \/ Defer(v, s)
      PROVE SnapStep(w)
  <2>1. CASE Abandon({v}, "idle")
    BY <2>1, <1>a
  <2>2. CASE ~Abandon({v}, "idle")
    BY <1>4, <2>2 DEF Start, Skip, Defer, SnapStep, Types
  <2>. QED BY <2>1, <2>2
<1>5. ASSUME NEW v \in Workers, Record(v) PROVE SnapStep(w)
  BY <1>5, <1>1, <1>a DEF Record
<1>6. ASSUME NEW survivors \in SUBSET Live, DaemonStops(survivors) PROVE SnapStep(w)
  BY <1>6 DEF DaemonStops, SnapStep
<1>7. ASSUME NEW v \in Workers, WorkerEnds(v) \/ TickThrows(v) PROVE SnapStep(w)
  BY <1>7, <1>a DEF WorkerEnds, TickThrows
<1>8. ASSUME NEW v \in Workers, TickDone(v) \/ Spawn(v) PROVE SnapStep(w)
  BY <1>1, <1>8 DEF TickDone, Spawn
<1>9. ASSUME NEW v \in Workers,
             DeferStatus(v) \/ (\E ok \in BOOLEAN : Execute(v, ok)) \/ WakeTimesOut(v)
             \/ WakeNotInvoked(v) \/ CaughtThrow(v) \/ DeferThrows(v)
      PROVE SnapStep(w)
  BY <1>1, <1>9 DEF DeferStatus, Execute, WakeTimesOut, WakeNotInvoked, CaughtThrow, DeferThrows
<1>10. ASSUME NEW p, CloseRun(p) \/ Charge(p) \/ Settle(p) \/ Revert(p) PROVE SnapStep(w)
  BY <1>1, <1>10 DEF CloseRun, Charge, Settle, Revert
<1>11. ASSUME NEW j \in Jobs, \/ Due(j) \/ Disable(j) \/ Enable(j) \/ Cancel(j) \/ Delete(j)
                              \/ RunNow(j)
       PROVE SnapStep(w)
  BY <1>1, <1>11 DEF Due, Disable, Enable, Cancel, Delete, RunNow
<1>12. CASE DaemonStarts \/ RecoveryDone \/ ArmLease \/ LeaseEnds \/ RecoveryThrows
            \/ (\E e \in stale : Recover(e)) \/ (\E ok \in BOOLEAN : ManualRun(ok))
  BY <1>1, <1>12 DEF DaemonStarts, RecoveryDone, ArmLease, LeaseEnds, Recover, ManualRun,
                     RecoveryThrows
<1>13. CASE UNCHANGED vars
  BY <1>1, <1>13 DEF vars
<1>14. ASSUME NEW v \in Workers, WorkerStep(v) PROVE SnapStep(w)
  BY <1>2, <1>3, <1>4, <1>5, <1>8, <1>9, <1>10, <1>14 DEF WorkerStep
<1>15. CASE DaemonStep
  BY <1>10, <1>12, <1>15 DEF DaemonStep
<1>16. CASE Users
  BY <1>11, <1>16 DEF Users
<1>17. CASE Failures
  BY <1>6, <1>7, <1>9, <1>12, <1>17 DEF Failures
<1>. QED BY <1>8, <1>11, <1>12, <1>13, <1>14, <1>15, <1>16, <1>17 DEF Next

-----------------------------------------------------------------------------
(* The retry budget.                                                       *)

BudgetInv == GoneByUser /\ ReadCounts /\ ChargedBefore /\ GivenUpWhenSpent

\* What a write may do to the count of a one-shot, and to its status.
BudgetRules(j) ==
  /\ charges'[j] >= charges[j]
  /\ row[j].retries <= charges[j] => row'[j].retries <= charges'[j]
  /\ \/ row'[j].status # "cancelled" \/ j \in userOff'
     \/ row[j].status = "cancelled" /\ j \notin userOff
     \/ charges[j] > MaxRetries
     \/ kind[j].mode = "wake" /\ charges[j] >= WakeMaxRetries

\* An UPDATE by the bookkeeping of a process, with what was charged.
LEMMA UpdateBudget ==
  ASSUME Types, NEW j \in Jobs, NEW new \in Rows, row' = Updated(j, new), UNCHANGED userOff,
         \/ UNCHANGED charges /\ (Gone(j) \/ new.retries <= row[j].retries \/ new.retries = 0)
         \/ ~Gone(j) /\ charges' = Counted(charges, j) /\ new.retries = row[j].retries + 1,
         \/ Gone(j) \/ new.status = row[j].status \/ new.status # "cancelled"
         \/ charges[j] > MaxRetries
         \/ kind[j].mode = "wake" /\ charges[j] >= WakeMaxRetries,
         NEW i \in OneShots
  PROVE  BudgetRules(i)
<1>1. i \in Jobs /\ charges \in [Jobs -> Nat] /\ row[i].retries \in Nat
  BY DEF OneShots, Types, Rows
<1>a. Counted(charges, j) \in [Jobs -> Nat] /\ Counted(charges, j)[i] >= charges[i]
  BY <1>1, CountedTypes
<1>2. /\ charges'[i] \in Nat /\ charges[i] \in Nat
      /\ charges'[i] >= charges[i] /\ (i # j => row'[i] = row[i])
  <2>1. charges' = charges \/ charges' = Counted(charges, j)
    OBVIOUS
  <2>2. i # j => row'[i] = row[i]
    BY <1>1, UpdatedRow
  <2>. QED BY <1>1, <1>a, <2>1, <2>2
<1>3. CASE i # j
  BY <1>1, <1>2, <1>3 DEF BudgetRules
<1>4. CASE i = j
  <2>1. row'[j] = IF Gone(j) THEN row[j] ELSE new
    BY UpdatedRow
  <2>2. row[j].retries <= charges[j] => row'[j].retries <= charges'[j]
    BY <1>1, <1>4, <2>1, CountedTypes DEF Rows
  <2>3. \/ row'[j].status = row[j].status \/ row'[j].status # "cancelled"
        \/ charges[j] > MaxRetries
        \/ kind[j].mode = "wake" /\ charges[j] >= WakeMaxRetries
    BY <2>1
  <2>. QED BY <1>2, <1>4, <2>2, <2>3 DEF BudgetRules
<1>. QED BY <1>3, <1>4

\* Every write obeys the rules of the budget.
LEMMA BudgetStep ==
  ASSUME Types, BudgetInv, [Next]_vars, NEW i \in OneShots
  PROVE  BudgetRules(i)
<1> USE DEF rowVars, workerVars, daemonVars, history
<1>0. i \in Jobs /\ charges[i] \in Nat /\ row[i].retries \in Nat /\ row[i] \in Rows
  BY DEF OneShots, Types, Rows
<1>1. CASE NoWrite
  BY <1>0, <1>1 DEF NoWrite, BudgetRules
<1>2. ASSUME NEW j \in Jobs, Due(j) \/ Disable(j) \/ Enable(j) \/ Cancel(j) \/ Delete(j)
      PROVE BudgetRules(i)
  <2>0. row[j] \in Rows
    BY DEF Types
  <2>1. CASE Due(j)
    BY <1>0, <2>0, <2>1 DEF Due, BudgetRules, Types, Rows
  <2>2. CASE Disable(j)
    <3>1. PICK r \in Rows : row' = [row EXCEPT ![j] = [r EXCEPT !.enabled = FALSE]]
                            /\ r.retries = row[j].retries /\ r.status = row[j].status
      BY <2>0, <2>2, TimedRow DEF Disable
    <3>2. row'[i].retries = row[i].retries /\ row'[i].status = row[i].status
      BY <1>0, <2>0, <3>1 DEF Types, Rows
    <3>. QED BY <1>0, <2>2, <3>2 DEF BudgetRules, Disable
  <2>3. CASE Enable(j)
    <3>1. PICK r \in Rows : row' = [row EXCEPT ![j] = [r EXCEPT !.enabled = TRUE]]
                            /\ r.retries = row[j].retries /\ r.status = row[j].status
      BY <2>0, <2>3, TimedRow DEF Enable
    <3>2. row'[i].retries = row[i].retries /\ row'[i].status = row[i].status
      BY <1>0, <2>0, <3>1 DEF Types, Rows
    <3>. QED BY <1>0, <2>3, <3>2 DEF BudgetRules, Enable
  <2>4. CASE Cancel(j)
    BY <1>0, <2>0, <2>4 DEF Cancel, BudgetRules, Types, Rows
  <2>5. CASE Delete(j)
    BY <1>0, <2>0, <2>5 DEF Delete, BudgetRules, Types, Rows
  <2>. QED BY <1>2, <2>1, <2>2, <2>3, <2>4, <2>5
<1>3. ASSUME NEW w \in Workers, NEW s \in cand[w], ClaimRecurring(w, s) \/ ClaimOneShot(w, s)
      PROVE BudgetRules(i)
  <2>1. s.job \in Jobs /\ row[s.job] \in Rows
    BY DEF Types, Snapshots
  <2>2. UNCHANGED <<charges, userOff>>
    BY <1>3 DEF ClaimRecurring, ClaimOneShot
  <2>3. CASE ClaimRecurring(w, s)
    <3>1. PICK r \in Rows : r.retries = row[s.job].retries /\ r.status = row[s.job].status
                            /\ (row' = row \/ row' = [row EXCEPT ![s.job] = r])
      <4>1. /\ Timed(row[s.job], "later") \in Rows
            /\ Timed(row[s.job], "later").status = row[s.job].status
            /\ Timed(row[s.job], "later").retries = row[s.job].retries
        BY <2>1, TimedRow
      <4>2. PICK t \in Rows : t = Timed(row[s.job], "zero") /\ t.status = row[s.job].status
                              /\ t.retries = row[s.job].retries
        BY <2>1, TimedRow
      <4>3. [t EXCEPT !.enabled = FALSE] \in Rows /\ [t EXCEPT !.enabled = FALSE].status = t.status
            /\ [t EXCEPT !.enabled = FALSE].retries = t.retries
        BY <4>2 DEF Rows
      <4>. QED BY <2>1, <2>3, <4>1, <4>2, <4>3 DEF ClaimRecurring, Types
    <3>2. row'[i].retries = row[i].retries /\ row'[i].status = row[i].status
      BY <1>0, <2>1, <3>1 DEF Types
    <3>. QED BY <1>0, <2>2, <3>2 DEF BudgetRules
  <2>4. CASE ClaimOneShot(w, s)
    <3>1. /\ row'[i].retries = row[i].retries
          /\ row'[i].status = row[i].status \/ row'[i].status = "firing"
      BY <1>0, <2>1, <2>4 DEF ClaimOneShot, Types, Rows
    <3>. QED BY <1>0, <2>2, <3>1 DEF BudgetRules
  <2>. QED BY <1>3, <2>3, <2>4
<1>4. ASSUME NEW w \in Workers, NEW s \in batch[w], Defer(w, s) PROVE BudgetRules(i)
  <2>1. s.job \in Jobs /\ row[s.job] \in Rows /\ row[s.job].retries \in Nat
    BY DEF Types, Snapshots, Rows
  <2>2. /\ DeferredRow(row[s.job]) \in Rows /\ DeferredRow(row[s.job]).status = row[s.job].status
        /\ DeferredRow(row[s.job]).retries = row[s.job].retries
    BY <2>1, DeferRow
  <2>. QED BY <1>4, <2>1, <2>2, UpdateBudget DEF Defer
<1>5. ASSUME NEW p \in Procs,
             \/ p \in Workers /\ (DeferStatus(p) \/ WakeTimesOut(p) \/ WakeNotInvoked(p))
             \/ Charge(p) \/ Settle(p) \/ Revert(p)
      PROVE BudgetRules(i)
  <2>1. task[p] \in Tasks /\ JobOf(p) \in Jobs /\ Busy(p)
    BY <1>5, BusyTask DEF DeferStatus, WakeTimesOut, WakeNotInvoked, Charge, Settle, Revert
  <2>. DEFINE j == JobOf(p)
              r == row[j]
  <2>2. r \in Rows /\ r.retries \in Nat /\ charges[j] \in Nat /\ task[p].snap.retries \in Nat
    BY <2>1 DEF Types, Rows, Tasks, Snapshots
  <2>3. \A to \in {"active", "fired", "cancelled"} :
          /\ FiringTo(r, to) \in Rows /\ FiringEnds(r, to) \in Rows
          /\ FiringTo(r, to).status = r.status \/ FiringTo(r, to).status = to
          /\ FiringEnds(r, to).status = r.status \/ FiringEnds(r, to).status = to
          /\ FiringTo(r, to).retries = r.retries /\ FiringEnds(r, to).retries = r.retries
    BY <2>2, FiringRow
  <2>4. CASE DeferStatus(p)
    BY <2>1, <2>2, <2>3, <2>4, UpdateBudget DEF DeferStatus
  <2>5. CASE WakeTimesOut(p)
    <3>1. CASE row' = row /\ charges' = charges
      <4>1. UNCHANGED userOff
        BY <2>5 DEF WakeTimesOut
      <4>. QED BY <1>0, <3>1, <4>1 DEF BudgetRules
    <3>2. CASE /\ j \in OneShots /\ task[p].snap.retries >= WakeMaxRetries
               /\ row' = Updated(j, FiringEnds(r, "cancelled")) /\ charges' = charges
      <4>1. kind[j].mode = "wake" /\ charges[j] >= WakeMaxRetries
        BY <2>1, <2>2, <2>5, <3>2, SchedulerAssumption DEF WakeTimesOut, BudgetInv, ReadCounts
      <4>2. UNCHANGED userOff
        BY <2>5 DEF WakeTimesOut
      <4>. QED BY <2>1, <2>2, <2>3, <3>2, <4>1, <4>2, UpdateBudget
    <3>3. CASE /\ j \in OneShots /\ charges' = Counted(charges, j)
               /\ row' = [row EXCEPT ![j].status = "active", ![j].retries = @ + 1]
      <4>1. i = j => row'[i].status = "active" /\ row'[i].retries = row[i].retries + 1
        BY <2>1, <2>2, <3>3 DEF Types, Rows
      <4>2. i # j => row'[i] = row[i]
        BY <1>0, <2>1, <3>3 DEF Types
      <4>3. charges'[i] = IF i = j THEN charges[i] + 1 ELSE charges[i]
        BY <1>0, <2>1, <3>3, CountedTypes DEF Types
      <4>4. UNCHANGED userOff
        BY <2>5 DEF WakeTimesOut
      <4>. HIDE DEF j, r
      <4>. QED BY <1>0, <4>1, <4>2, <4>3, <4>4 DEF BudgetRules
    <3>. QED BY <2>5, <3>1, <3>2, <3>3 DEF WakeTimesOut
  <2>6. CASE WakeNotInvoked(p)
    <3>1. CASE row' = row
      BY <1>0, <2>6, <3>1 DEF WakeNotInvoked, BudgetRules
    <3>2. CASE row' = Updated(j, FiringEnds(r, "fired"))
      BY <2>1, <2>2, <2>3, <2>6, <3>2, UpdateBudget DEF WakeNotInvoked
    <3>. QED BY <2>6, <3>1, <3>2 DEF WakeNotInvoked
  <2>7. CASE Charge(p)
    <3>1. \A n \in Nat : /\ [r EXCEPT !.retries = n] \in Rows
                         /\ [r EXCEPT !.retries = n].status = r.status
                         /\ [r EXCEPT !.retries = n].retries = n
      BY <2>2, ChargedRow
    <3>2. r.retries + 1 \in Nat
      BY <2>2
    <3>3. PICK n \in Nat : /\ row' = Updated(j, [r EXCEPT !.retries = n])
                           /\ \/ n = 0 /\ charges' = charges
                              \/ Gone(j) /\ charges' = charges
                              \/ n = r.retries + 1 /\ ~Gone(j) /\ charges' = Counted(charges, j)
      BY <2>7, <3>2 DEF Charge
    <3>4. UNCHANGED userOff
      BY <2>7 DEF Charge
    <3>5. PICK new \in Rows : new = [r EXCEPT !.retries = n] /\ new.status = r.status
                              /\ new.retries = n
      BY <3>1
    <3>. QED BY <2>1, <3>3, <3>4, <3>5, UpdateBudget
  <2>8. CASE Settle(p)
    <3>1. Timed(r, "later") \in Rows /\ Timed(r, "later").status = r.status
          /\ Timed(r, "later").retries = r.retries
      BY <2>2, TimedRow
    <3>2. [r EXCEPT !.retries = 0] \in Rows /\ [r EXCEPT !.retries = 0].status = r.status
          /\ [r EXCEPT !.retries = 0].retries = 0
      BY <2>2, ChargedRow
    <3>3. ~Gone(j) /\ ~task[p].ok /\ ~MayRetry(task[p].snap) /\ j \in OneShots
            => charges[j] > MaxRetries
      BY <2>1, <2>2, <2>8, SchedulerAssumption DEF Settle, MayRetry, BudgetInv, ChargedBefore
    <3>4. \E new \in Rows :
            /\ row' = Updated(j, new)
            /\ new.retries = r.retries \/ new.retries = 0
            /\ \/ Gone(j) \/ new.status = r.status \/ new.status # "cancelled"
               \/ charges[j] > MaxRetries
      BY <2>2, <2>3, <2>8, <3>1, <3>2, <3>3 DEF Settle
    <3>5. UNCHANGED <<charges, userOff>>
      BY <2>8 DEF Settle
    <3>. QED BY <2>1, <2>2, <3>4, <3>5, UpdateBudget
  <2>9. CASE Revert(p)
    BY <2>1, <2>2, <2>3, <2>9, UpdateBudget DEF Revert, Reverted
  <2>. QED BY <1>5, <2>4, <2>5, <2>6, <2>7, <2>8, <2>9
<1>. QED BY <1>1, <1>2, <1>3, <1>4, <1>5, Writes DEF Write, Procs

\* Counts that were read are at most what is charged, and a failure is
\* charged before it is decided on.
LEMMA BudgetNext ==
  ASSUME Types, BudgetInv, [Next]_vars
  PROVE  BudgetInv'
<1>0. Types' /\ kind' = kind /\ OneShots' = OneShots /\ OneShots \subseteq Jobs
  BY NextTypes, KindFixed
<1>1. \A i \in OneShots : BudgetRules(i) /\ charges[i] \in Nat /\ charges'[i] \in Nat
  BY <1>0, BudgetStep DEF Types
<1>2. \A j \in Jobs : j \in OneShots =>
        Snapshot(j).job = j /\ Snapshot(j).retries <= charges[j]
  BY SnapshotOf DEF BudgetInv, ReadCounts
<1>3. GoneByUser'
  BY GoneStep DEF BudgetInv
<1>4. GivenUpWhenSpent'
  BY <1>0, <1>1, SchedulerAssumption DEF BudgetRules, BudgetInv, GivenUpWhenSpent
<1>5. \A j \in OneShots : row'[j].retries <= charges'[j]
  BY <1>1 DEF BudgetRules, BudgetInv, ReadCounts
<1>6. ASSUME NEW w \in Workers, NEW s \in cand'[w] \cup batch'[w], s.job \in OneShots
      PROVE  s.retries <= charges'[s.job]
  <2>1. SnapStep(w)
    BY AnySnap
  <2>2. s \in Snapshots /\ s.retries \in Nat
    BY <1>0 DEF Types, Snapshots
  <2>3. s \in cand[w] \cup batch[w] \/ \E j \in Jobs : s = Snapshot(j)
    <3>1. /\ cand'[w] \subseteq cand[w] \cup {Snapshot(j) : j \in Jobs}
          /\ \/ batch'[w] \subseteq batch[w]
             \/ \E c \in cand[w] : batch'[w] = batch[w] \cup {c}
      <4>1. ASSUME NEW c \in cand[w], batch'[w] = batch[w] \cup {c}
            PROVE  \E d \in cand[w] : batch'[w] = batch[w] \cup {d}
        BY <4>1
      <4>. QED BY <2>1, <4>1, Zenon DEF SnapStep
    <3>. QED BY <3>1
  <2>4. s.retries <= charges[s.job]
    BY <1>2, <1>6, <2>3, SnapshotOf DEF BudgetInv, ReadCounts
  <2>. QED BY <1>1, <1>6, <2>2, <2>4 DEF BudgetRules
<1>7. ASSUME NEW p \in Procs, Busy(p)', JobOf(p)' \in OneShots
      PROVE  /\ task'[p].snap.retries <= charges[task'[p].snap.job]
             /\ task'[p].snap.retries <= charges'[task'[p].snap.job]
             /\ task'[p].snap.retries \in Nat
  <2>1. TaskStep(p)
    BY AnyTask
  <2>2. task'[p].snap \in Snapshots /\ task'[p].snap.retries \in Nat
    <3>1. task'[p] \in Tasks
      BY <1>0, <1>7 DEF Types, Busy, NoTask
    <3>. QED BY <3>1 DEF Tasks, Snapshots
  <2>3. task'[p] # NoTask
    BY <1>7 DEF Busy, NoTask
  <2>4. \/ Busy(p) /\ task'[p].snap = task[p].snap
        \/ p \in Workers /\ task'[p].snap \in batch[p]
        \/ \E j \in Jobs : task'[p].snap = Snapshot(j)
    BY <1>7, <2>1, <2>3 DEF TaskStep, Busy
  <2>5. task'[p].snap.job \in OneShots
    BY <1>7 DEF JobOf
  <2>6. task'[p].snap.retries <= charges[task'[p].snap.job]
    BY <1>2, <2>4, <2>5, SnapshotOf DEF BudgetInv, ReadCounts, JobOf
  <2>. QED BY <1>1, <2>2, <2>5, <2>6 DEF BudgetRules
<1>8. ReadCounts'
  BY <1>0, <1>5, <1>6, <1>7 DEF ReadCounts, JobOf
<1>9. ChargedBefore'
  <2> SUFFICES ASSUME NEW p \in Procs, task'[p].at = "settling", ~task'[p].ok,
                      JobOf(p)' \in OneShots, ~Gone(JobOf(p))'
               PROVE  task'[p].snap.retries < charges'[task'[p].snap.job]
    BY <1>0 DEF ChargedBefore, JobOf
  <2>1. TaskStep(p)
    BY AnyTask
  <2>2. \/ task'[p] = task[p]
        \/ Busy(p) /\ task'[p].snap = task[p].snap /\ (CloseRun(p) \/ Charge(p))
    BY <2>1 DEF TaskStep, NoTask
  <2>3. JobOf(p)' = JobOf(p) /\ JobOf(p) \in OneShots /\ task'[p].snap = task[p].snap
    BY <2>2 DEF JobOf
  <2>4. ~Gone(JobOf(p))
    <3>1. JobOf(p) \in Jobs
      BY <1>0, <2>3
    <3>2. StatusRules(JobOf(p))
      BY <3>1, StatusStep
    <3>. QED BY <2>3, <3>2 DEF StatusRules, Gone, Ended
  <2>5. CASE task'[p] = task[p]
    <3>1. task[p].snap.retries < charges[JobOf(p)]
      BY <2>3, <2>4, <2>5 DEF BudgetInv, ChargedBefore
    <3>2. charges'[JobOf(p)] >= charges[JobOf(p)]
      BY <1>1, <2>3 DEF BudgetRules
    <3>3. task[p].snap.retries \in Nat
      BY <1>7, <2>3 DEF Busy
    <3>. QED BY <1>1, <2>3, <3>1, <3>2, <3>3 DEF JobOf
  <2>6. CASE CloseRun(p)
    <3>1. task[p] \in Tasks
      BY <2>6, BusyTask DEF CloseRun
    <3>2. task' = [task EXCEPT ![p] = [task[p] EXCEPT !.at = "charging"]]
      BY <2>4, <2>6 DEF CloseRun
    <3>3. task'[p].at = "charging"
      BY <3>1, <3>2 DEF Types, Tasks
    <3>. QED BY <3>3
  <2>7. CASE Charge(p)
    <3>1. task[p] \in Tasks /\ Busy(p)
      BY <2>7, BusyTask DEF Charge
    <3>2. ~task[p].ok
      <4>1. task'[p] = NoTask \/ task'[p] = [task[p] EXCEPT !.at = "settling"]
        BY <2>7 DEF Charge, Types
      <4>2. task'[p] # NoTask
        BY DEF NoTask
      <4>3. task'[p].ok <=> task[p].ok
        BY <3>1, <4>1, <4>2 DEF Tasks
      <4>. QED BY <4>3
    <3>3. charges' = Counted(charges, JobOf(p))
      BY <2>4, <2>7, <3>2 DEF Charge
    <3>4. charges'[JobOf(p)] = charges[JobOf(p)] + 1
      BY <1>0, <2>3, <3>3, CountedTypes DEF Types
    <3>5. task[p].snap.retries <= charges[JobOf(p)]
      BY <2>3, <3>1 DEF BudgetInv, ReadCounts
    <3>6. task[p].snap.retries \in Nat
      BY <1>7, <2>3 DEF Busy
    <3>. QED BY <1>1, <2>3, <3>4, <3>5, <3>6 DEF JobOf
  <2>. QED BY <2>2, <2>5, <2>6, <2>7
<1>. QED BY <1>3, <1>4, <1>8, <1>9 DEF BudgetInv

\* The engine gives a one-shot up only after maxRetries charged retries.
THEOREM SchedulerBudget == Spec => []GivenUpWhenSpent
<1>1. Init => BudgetInv
  BY DEF Init, BudgetInv, GoneByUser, Gone, ReadCounts, ChargedBefore, GivenUpWhenSpent, Busy,
         NoTask, OneShots
<1>2. Types /\ BudgetInv /\ [Next]_vars => BudgetInv'
  BY BudgetNext
<1>3. BudgetInv => GivenUpWhenSpent
  BY DEF BudgetInv
<1>. QED BY InitTypes, NextTypes, <1>1, <1>2, <1>3, PTL DEF Spec

-----------------------------------------------------------------------------
(* No occurrence is claimed twice.                                         *)

ClaimInv == TickOrder /\ OneHolder /\ OneOccurrence

\* A worker that holds a schedule lives.
LEMMA HoldersLive ==
  ASSUME Types, TickOrder, NEW w \in Workers, Holds(w) # {}
  PROVE  w \in Live
  BY DEF TickOrder, Holds, Live

\* What a tick finds due is of the half of the tick it is in.
LEMMA DueKinds ==
  ASSUME Types
  PROVE  /\ \A s \in {Snapshot(j) : j \in DueRecurring} : s.job \notin OneShots
         /\ \A s \in {Snapshot(j) : j \in DueOneShots} : s.job \in OneShots
<1>1. DueRecurring \subseteq Jobs \ OneShots /\ DueOneShots \subseteq OneShots /\ OneShots \subseteq Jobs
  BY DEF DueRecurring, DueOneShots, OneShots
<1>2. \A j \in Jobs : Snapshot(j).job = j
  BY SnapshotOf
<1>. QED BY <1>1, <1>2

\* A worker's part of TickOrder.
Orderly(w) ==
  /\ phase[w] = "recurring" => \A s \in cand[w] : s.job \notin OneShots
  /\ phase[w] = "oneshots" => \A s \in cand[w] : s.job \in OneShots
  /\ phase[w] \notin {"recurring", "oneshots"} => cand[w] = {}
  /\ phase[w] \in {"unborn", "dead"} => batch[w] = {} /\ ~Busy(w)

\* Every step leaves the ticks in order.
LEMMA OrderStep ==
  ASSUME Types, TickOrder, [Next]_vars
  PROVE  TickOrder'
<1> USE DEF rowVars, workerVars, daemonVars, history
<1>0. /\ OneShots' = OneShots /\ Workers \subseteq Procs
      /\ \A w \in Workers : Orderly(w)
  BY KindFixed DEF Procs, TickOrder, Orderly
<1> SUFFICES ASSUME NEW w \in Workers PROVE Orderly(w)'
  BY DEF TickOrder, Orderly
\* A step that leaves w's tick alone, and does not start a task of w.
<1>1. ASSUME phase'[w] = phase[w], cand'[w] \subseteq cand[w],
             batch'[w] \subseteq batch[w], Busy(w)' => Busy(w) \/ batch[w] # {}
      PROVE  Orderly(w)'
  BY <1>0, <1>1 DEF Orderly
<1>2. ASSUME NEW W, NEW to \in {"idle", "dead"}, Abandon(W, to) PROVE Orderly(w)'
  <2>1. CASE w \in W
    <3>1. phase'[w] = to /\ cand'[w] = {} /\ batch'[w] = {} /\ task'[w] = NoTask
      BY <1>0, <1>2, <2>1 DEF Abandon
    <3>. QED BY <3>1 DEF Orderly, Busy, NoTask
  <2>2. CASE w \notin W
    <3>1. phase'[w] = phase[w] /\ cand'[w] = cand[w] /\ batch'[w] = batch[w] /\ task'[w] = task[w]
      BY <1>0, <1>2, <2>2 DEF Abandon
    <3>. QED BY <1>1, <3>1 DEF Busy
  <2>. QED BY <2>1, <2>2
<1>3. Busy(w)' => Busy(w) \/ batch[w] # {}
  <2>1. TaskStep(w)
    BY <1>0, AnyTask
  <2>2. w # Daemon
    BY SchedulerAssumption DEF Daemon
  <2>. QED BY <2>1, <2>2 DEF TaskStep, Busy, NoTask
<1>4. CASE UNCHANGED workerVars
  BY <1>1, <1>3, <1>4
<1>5. ASSUME NEW v \in Workers, ReadRecurring(v) \/ ReadOneShots(v) \/ TickDone(v) \/ Spawn(v)
      PROVE  Orderly(w)'
  <2>1. CASE w # v
    BY <1>1, <1>3, <1>5, <2>1 DEF ReadRecurring, ReadOneShots, TickDone, Spawn, Types
  <2>2. CASE w = v /\ ReadRecurring(v)
    <3>1. phase'[w] = "recurring" /\ cand'[w] = {Snapshot(j) : j \in DueRecurring}
      BY <1>5, <2>2 DEF ReadRecurring, Types
    <3>. QED BY <1>0, <3>1, DueKinds DEF Orderly
  <2>3. CASE w = v /\ ReadOneShots(v)
    <3>1. phase'[w] = "oneshots" /\ cand'[w] = {Snapshot(j) : j \in DueOneShots}
      BY <1>5, <2>3 DEF ReadOneShots, Types
    <3>. QED BY <1>0, <3>1, DueKinds DEF Orderly
  <2>4. CASE w = v /\ (TickDone(v) \/ Spawn(v))
    <3>1. phase'[w] = "idle" /\ cand'[w] = {}
      BY <1>0, <1>5, <2>4 DEF TickDone, Spawn, Spare, Orderly, Types
    <3>. QED BY <3>1 DEF Orderly
  <2>. QED BY <1>5, <2>1, <2>2, <2>3, <2>4
<1>6. ASSUME NEW v \in Workers, NEW s \in cand[v], ClaimRecurring(v, s) \/ ClaimOneShot(v, s)
      PROVE  Orderly(w)'
  <2>1. phase' = phase /\ cand'[w] \subseteq cand[w] /\ task' = task
    BY <1>6 DEF ClaimRecurring, ClaimOneShot, Types
  <2>2. CASE w # v
    BY <1>1, <1>3, <1>6, <2>1, <2>2 DEF ClaimRecurring, ClaimOneShot, Types
  <2>3. CASE w = v
    <3>1. phase[w] \in {"recurring", "oneshots"}
      BY <1>6, <2>3 DEF ClaimRecurring, ClaimOneShot
    <3>. QED BY <1>0, <2>1, <3>1 DEF Orderly
  <2>. QED BY <2>2, <2>3
<1>7. ASSUME NEW v \in Workers, NEW s \in batch[v], Start(v, s) \/ Skip(v, s) \/ Defer(v, s)
      PROVE  Orderly(w)'
  <2>1. CASE Abandon({v}, "idle")
    BY <1>2, <2>1
  <2>2. CASE ~Abandon({v}, "idle")
    <3>1. phase' = phase /\ cand' = cand /\ batch'[w] \subseteq batch[w]
      BY <1>7, <2>2 DEF Start, Skip, Defer, Types
    <3>. QED BY <1>1, <1>3, <3>1
  <2>. QED BY <2>1, <2>2
<1>8. ASSUME NEW v \in Workers, Record(v) PROVE Orderly(w)'
  BY <1>2, <1>4, <1>8 DEF Record
<1>9. ASSUME NEW survivors \in SUBSET Live, DaemonStops(survivors) PROVE Orderly(w)'
  <2>1. CASE w \in Live \ survivors
    <3>1. phase'[w] = "dead" /\ cand'[w] = {} /\ batch'[w] = {} /\ task'[w] = NoTask
      BY <1>0, <1>9, <2>1 DEF DaemonStops
    <3>. QED BY <3>1 DEF Orderly, Busy, NoTask
  <2>2. CASE w \notin Live \ survivors
    <3>1. phase'[w] = phase[w] /\ cand'[w] = cand[w] /\ batch'[w] = batch[w]
      BY <1>9, <2>2 DEF DaemonStops
    <3>. QED BY <1>1, <1>3, <3>1
  <2>. QED BY <2>1, <2>2
<1>10. ASSUME NEW v \in Workers, WorkerEnds(v) \/ TickThrows(v) PROVE Orderly(w)'
  BY <1>2, <1>10 DEF WorkerEnds, TickThrows
<1>11. ASSUME NEW v \in Workers,
              DeferStatus(v) \/ (\E ok \in BOOLEAN : Execute(v, ok)) \/ WakeTimesOut(v)
              \/ WakeNotInvoked(v) \/ CaughtThrow(v) \/ DeferThrows(v)
       PROVE Orderly(w)'
  BY <1>4, <1>11 DEF DeferStatus, Execute, WakeTimesOut, WakeNotInvoked, CaughtThrow, DeferThrows
<1>12. ASSUME NEW p, CloseRun(p) \/ Charge(p) \/ Settle(p) \/ Revert(p) PROVE Orderly(w)'
  BY <1>4, <1>12 DEF CloseRun, Charge, Settle, Revert
<1>13. ASSUME NEW j \in Jobs, \/ Due(j) \/ Disable(j) \/ Enable(j) \/ Cancel(j) \/ Delete(j)
                              \/ RunNow(j)
       PROVE Orderly(w)'
  BY <1>4, <1>13 DEF Due, Disable, Enable, Cancel, Delete, RunNow
<1>14. CASE DaemonStarts \/ RecoveryDone \/ ArmLease \/ LeaseEnds \/ RecoveryThrows
            \/ (\E e \in stale : Recover(e)) \/ (\E ok \in BOOLEAN : ManualRun(ok))
  BY <1>4, <1>14 DEF DaemonStarts, RecoveryDone, ArmLease, LeaseEnds, Recover, ManualRun,
                     RecoveryThrows
<1>15. CASE UNCHANGED vars
  BY <1>4, <1>15 DEF vars
<1>16. ASSUME NEW v \in Workers, WorkerStep(v) PROVE Orderly(w)'
  BY <1>5, <1>6, <1>7, <1>8, <1>11, <1>12, <1>16 DEF WorkerStep
<1>17. CASE DaemonStep
  BY <1>12, <1>14, <1>17 DEF DaemonStep
<1>18. CASE Users
  BY <1>13, <1>18 DEF Users
<1>19. CASE Failures
  BY <1>9, <1>10, <1>11, <1>14, <1>19 DEF Failures
<1>. QED BY <1>5, <1>13, <1>14, <1>15, <1>16, <1>17, <1>18, <1>19 DEF Next

\* The second writes of a deferral and of a retry, and a wake that is put off,
\* free a one-shot: they make its row active again.
Frees(p) == (p \in Workers /\ (DeferStatus(p) \/ WakeTimesOut(p))) \/ Revert(p)

\* What a write may do to the lock of a row: its version only grows, and a
\* process that frees it had it in hand.
LockRules(j) ==
  /\ row'[j].ver >= row[j].ver
  /\ taken'[j] >= taken[j]
  /\ row'[j].status = "active" => \/ row[j].status = "active"
                                  \/ \E p \in Procs : Frees(p) /\ JobOf(p) = j /\ Busy(p)

\* An UPDATE with a row of that kind.
LEMMA UpdateLock ==
  ASSUME Types, NEW p \in Procs, JobOf(p) \in Jobs, Busy(p), NEW new \in Rows,
         row' = Updated(JobOf(p), new),
         taken' = taken \/ taken' = Counted(taken, JobOf(p)),
         new.ver >= row[JobOf(p)].ver,
         \/ new.status = row[JobOf(p)].status \/ new.status # "active" \/ Frees(p),
         NEW i \in Jobs
  PROVE  LockRules(i)
<1>1. taken[i] \in Nat /\ row[i].ver \in Nat /\ row[i] \in Rows
  BY DEF Types, Rows
<1>2. taken'[i] >= taken[i]
  <2>1. taken \in [Jobs -> Nat] /\ Counted(taken, JobOf(p))[i] >= taken[i]
    BY CountedTypes DEF Types
  <2>. QED BY <1>1, <2>1
<1>3. /\ row'[JobOf(p)] = IF Gone(JobOf(p)) THEN row[JobOf(p)] ELSE new
      /\ i # JobOf(p) => row'[i] = row[i]
  BY UpdatedRow
<1>4. row'[i].ver >= row[i].ver
  BY <1>1, <1>3
<1>5. row'[i].status = "active" => \/ row[i].status = "active"
                                   \/ Frees(p) /\ JobOf(p) = i /\ Busy(p)
  BY <1>3
<1>. QED BY <1>2, <1>4, <1>5 DEF LockRules

\* The claim of a recurring schedule passes the version it compared.
LEMMA ClaimedRow ==
  ASSUME NEW r \in Rows
  PROVE  /\ Timed(r, "later") \in Rows /\ Timed(r, "later").status = r.status
         /\ Timed(r, "later").ver > r.ver
         /\ [Timed(r, "zero") EXCEPT !.enabled = FALSE] \in Rows
         /\ [Timed(r, "zero") EXCEPT !.enabled = FALSE].status = r.status
         /\ [Timed(r, "zero") EXCEPT !.enabled = FALSE].ver > r.ver
<1>1. PICK t \in Rows : t = Timed(r, "zero") /\ t.status = r.status /\ t.ver > r.ver
  BY TimedRow
<1>2. [t EXCEPT !.enabled = FALSE] \in Rows /\ [t EXCEPT !.enabled = FALSE].status = t.status
      /\ [t EXCEPT !.enabled = FALSE].ver = t.ver
  BY <1>1 DEF Rows
<1>. QED BY <1>1, <1>2, TimedRow

\* Every write obeys the rules of the lock.
LEMMA LockStep ==
  ASSUME Types, [Next]_vars, NEW i \in Jobs
  PROVE  LockRules(i)
<1> USE DEF rowVars, workerVars, daemonVars, history
<1>0. taken[i] \in Nat /\ row[i] \in Rows /\ row[i].ver \in Nat
  BY DEF Types, Rows
<1>a. ASSUME UNCHANGED taken, row'[i].ver >= row[i].ver,
             row'[i].status \in {row[i].status, "firing", "cancelled", "gone"}
      PROVE  LockRules(i)
  BY <1>0, <1>a DEF LockRules
<1>1. CASE NoWrite
  <2>1. UNCHANGED <<row, taken>>
    BY <1>1 DEF NoWrite
  <2>. QED BY <1>0, <1>a, <2>1
<1>2. ASSUME NEW j \in Jobs, Due(j) \/ Disable(j) \/ Enable(j) \/ Cancel(j) \/ Delete(j)
      PROVE LockRules(i)
  <2>0. row[j] \in Rows /\ row[j].ver \in Nat
    BY DEF Types, Rows
  <2>a. UNCHANGED taken
    BY <1>2 DEF Due, Disable, Enable, Cancel, Delete
  <2>1. CASE Due(j)
    BY <1>0, <1>a, <2>0, <2>a, <2>1 DEF Due, Types, Rows
  <2>2. CASE Disable(j) \/ Enable(j)
    <3>1. PICK r \in Rows, on \in BOOLEAN :
            /\ row' = [row EXCEPT ![j] = [r EXCEPT !.enabled = on]]
            /\ r.status = row[j].status /\ r.ver >= row[j].ver
      <4>1. \A next \in {"zero", "later"} :
              /\ Timed(row[j], next) \in Rows /\ Timed(row[j], next).status = row[j].status
              /\ Timed(row[j], next).ver >= row[j].ver
        <5>1. \A next \in {"zero", "later"} :
                /\ Timed(row[j], next) \in Rows /\ Timed(row[j], next).status = row[j].status
                /\ Timed(row[j], next).ver > row[j].ver
          BY <2>0, TimedRow
        <5>2. \A t \in Rows : t.ver \in Nat
          BY DEF Rows
        <5>. QED BY <2>0, <5>1, <5>2
      <4>2. row[j].ver >= row[j].ver
        BY <2>0
      <4>3. CASE Disable(j)
        <5>1. \E r \in {row[j], Timed(row[j], "zero")} :
                row' = [row EXCEPT ![j] = [r EXCEPT !.enabled = FALSE]]
          BY <4>3 DEF Disable
        <5>. QED BY <2>0, <4>1, <4>2, <5>1
      <4>4. CASE Enable(j)
        <5>1. \E r \in {row[j], Timed(row[j], "later")} :
                row' = [row EXCEPT ![j] = [r EXCEPT !.enabled = TRUE]]
          BY <4>4 DEF Enable
        <5>. QED BY <2>0, <4>1, <4>2, <5>1
      <4>. QED BY <2>2, <4>3, <4>4
    <3>2. row'[i].status = row[i].status /\ row'[i].ver >= row[i].ver
      BY <1>0, <2>0, <3>1 DEF Types, Rows
    <3>. QED BY <1>a, <2>a, <3>2
  <2>3. CASE Cancel(j) \/ Delete(j)
    <3>1. row'[i].ver = row[i].ver /\ row'[i].status \in {row[i].status, "cancelled", "gone"}
      <4>1. CASE Cancel(j)
        BY <1>0, <2>0, <4>1 DEF Cancel, Types, Rows
      <4>2. CASE Delete(j)
        BY <1>0, <2>0, <4>2 DEF Delete, Types, Rows
      <4>. QED BY <2>3, <4>1, <4>2
    <3>. QED BY <1>0, <1>a, <2>a, <3>1
  <2>. QED BY <1>2, <2>1, <2>2, <2>3
<1>3. ASSUME NEW w \in Workers, NEW s \in cand[w], ClaimRecurring(w, s) \/ ClaimOneShot(w, s)
      PROVE LockRules(i)
  <2>0. s.job \in Jobs /\ row[s.job] \in Rows /\ row[s.job].ver \in Nat
    BY DEF Types, Snapshots, Rows
  <2>a. UNCHANGED taken
    BY <1>3 DEF ClaimRecurring, ClaimOneShot
  <2>1. CASE ClaimRecurring(w, s)
    <3>1. row' = row \/ \E r \in Rows : /\ r.status = row[s.job].status /\ r.ver > row[s.job].ver
                                        /\ row' = [row EXCEPT ![s.job] = r]
      BY <2>0, <2>1, ClaimedRow DEF ClaimRecurring
    <3>2. row'[i].status = row[i].status /\ row'[i].ver >= row[i].ver
      BY <1>0, <2>0, <3>1 DEF Types, Rows
    <3>. QED BY <1>a, <2>a, <3>2
  <2>2. CASE ClaimOneShot(w, s)
    <3>1. row'[i].ver = row[i].ver /\ row'[i].status \in {row[i].status, "firing"}
      BY <1>0, <2>0, <2>2 DEF ClaimOneShot, Types, Rows
    <3>. QED BY <1>0, <1>a, <2>a, <3>1
  <2>. QED BY <1>3, <2>1, <2>2
<1>4. ASSUME NEW w \in Workers, NEW s \in batch[w], Defer(w, s) PROVE LockRules(i)
  <2>1. s.job \in Jobs /\ row[s.job] \in Rows /\ row[s.job].ver \in Nat
    BY DEF Types, Snapshots, Rows
  <2>2. PICK new \in Rows : /\ new = DeferredRow(row[s.job])
                            /\ new.status = row[s.job].status /\ new.ver > row[s.job].ver
    BY <2>1, DeferRow
  <2>3. row' = Updated(s.job, new)
    BY <1>4, <2>2 DEF Defer
  <2>4. /\ row'[s.job] = IF Gone(s.job) THEN row[s.job] ELSE new
        /\ \A k \in Jobs \ {s.job} : row'[k] = row[k]
    <3>1. /\ Updated(s.job, new)[s.job] = IF Gone(s.job) THEN row[s.job] ELSE new
          /\ \A k \in Jobs \ {s.job} : Updated(s.job, new)[k] = row[k]
      BY <2>1, UpdatedRow
    <3>. QED BY <2>3, <3>1
  <2>6. UNCHANGED taken
    BY <1>4 DEF Defer
  <2>5. row'[i].status = row[i].status /\ row'[i].ver >= row[i].ver
    BY <1>0, <2>1, <2>2, <2>4 DEF Rows
  <2>. QED BY <1>a, <2>5, <2>6
<1>5. ASSUME NEW p \in Procs,
             \/ p \in Workers /\ (DeferStatus(p) \/ WakeTimesOut(p) \/ WakeNotInvoked(p))
             \/ Charge(p) \/ Settle(p) \/ Revert(p)
      PROVE LockRules(i)
  <2>1. task[p] \in Tasks /\ JobOf(p) \in Jobs /\ Busy(p)
    BY <1>5, BusyTask DEF DeferStatus, WakeTimesOut, WakeNotInvoked, Charge, Settle, Revert
  <2>. DEFINE j == JobOf(p)
              r == row[j]
  <2>2. r \in Rows /\ r.ver \in Nat /\ r.retries \in Nat
    BY <2>1 DEF Types, Rows
  <2>3. \A to \in {"active", "fired", "cancelled"} :
          /\ FiringTo(r, to) \in Rows /\ FiringEnds(r, to) \in Rows
          /\ FiringEnds(r, to).status = r.status \/ FiringEnds(r, to).status = to
          /\ FiringTo(r, to).ver = r.ver /\ FiringEnds(r, to).ver = r.ver
    BY <2>2, FiringRow
  <2>4. CASE p \in Workers /\ DeferStatus(p)
    <3>1. row' = Updated(j, FiringTo(r, "active")) /\ UNCHANGED taken /\ Frees(p)
      BY <2>4 DEF DeferStatus, Frees
    <3>. QED BY <2>1, <2>2, <2>3, <3>1, UpdateLock
  <2>5. CASE p \in Workers /\ WakeTimesOut(p)
    <3>0. UNCHANGED taken /\ Frees(p)
      BY <2>5 DEF WakeTimesOut, Frees
    <3>1. CASE row' = row
      BY <1>0, <1>a, <3>0, <3>1
    <3>2. CASE row' = Updated(j, FiringEnds(r, "cancelled"))
      BY <2>1, <2>2, <2>3, <3>0, <3>2, UpdateLock
    <3>3. CASE row' = [row EXCEPT ![j].status = "active", ![j].retries = @ + 1]
      <4>1. row'[i].ver = row[i].ver /\ (i # j => row'[i] = row[i])
        BY <1>0, <2>1, <2>2, <3>3 DEF Types, Rows
      <4>2. row'[i].ver >= row[i].ver
        BY <1>0, <4>1
      <4>3. taken'[i] >= taken[i]
        BY <1>0, <3>0
      <4>. QED BY <2>1, <3>0, <4>1, <4>2, <4>3 DEF LockRules
    <3>. QED BY <2>5, <3>1, <3>2, <3>3 DEF WakeTimesOut
  <2>6. CASE WakeNotInvoked(p)
    <3>0. UNCHANGED taken
      BY <2>6 DEF WakeNotInvoked
    <3>1. CASE row' = row
      BY <1>0, <1>a, <3>0, <3>1
    <3>2. CASE row' = Updated(j, FiringEnds(r, "fired"))
      BY <2>1, <2>2, <2>3, <3>0, <3>2, UpdateLock
    <3>. QED BY <2>6, <3>1, <3>2 DEF WakeNotInvoked
  <2>7. CASE Charge(p)
    <3>1. r.retries + 1 \in Nat
      BY <2>2
    <3>2. PICK n \in Nat : row' = Updated(j, [r EXCEPT !.retries = n])
      BY <2>7, <3>1 DEF Charge
    <3>3. PICK new \in Rows : new = [r EXCEPT !.retries = n] /\ new.status = r.status
                              /\ new.ver = r.ver
      BY <2>2, ChargedRow
    <3>4. UNCHANGED taken
      BY <2>7 DEF Charge
    <3>5. new.ver >= r.ver
      BY <2>2, <3>3
    <3>. QED BY <2>1, <3>2, <3>3, <3>4, <3>5, UpdateLock
  <2>8. CASE Settle(p)
    <3>1. Timed(r, "later") \in Rows /\ Timed(r, "later").status = r.status
          /\ Timed(r, "later").ver > r.ver
      BY <2>2, TimedRow
    <3>2. [r EXCEPT !.retries = 0] \in Rows /\ [r EXCEPT !.retries = 0].status = r.status
          /\ [r EXCEPT !.retries = 0].ver = r.ver
      BY <2>2, ChargedRow
    <3>3. \E new \in Rows : /\ row' = Updated(j, new)
                            /\ new.ver = r.ver \/ new.ver > r.ver
                            /\ new.status = r.status \/ new.status # "active"
      BY <2>2, <2>3, <2>8, <3>1, <3>2 DEF Settle
    <3>4. \A new \in Rows : new.ver \in Nat
      BY DEF Rows
    <3>5. \E new \in Rows : /\ row' = Updated(j, new)
                            /\ new.ver >= r.ver
                            /\ new.status = r.status \/ new.status # "active"
      BY <2>2, <3>3, <3>4
    <3>6. UNCHANGED taken
      BY <2>8 DEF Settle
    <3>. QED BY <2>1, <3>5, <3>6, UpdateLock
  <2>9. CASE Revert(p)
    <3>1. row' = Updated(j, FiringTo(r, "active")) /\ Frees(p)
      BY <2>9 DEF Revert, Reverted, Frees
    <3>2. taken' = taken \/ taken' = Counted(taken, j)
      BY <2>9 DEF Revert
    <3>. QED BY <2>1, <2>2, <2>3, <3>1, <3>2, UpdateLock
  <2>. QED BY <1>5, <2>4, <2>5, <2>6, <2>7, <2>8, <2>9
<1>. QED BY <1>1, <1>2, <1>3, <1>4, <1>5, Writes DEF Write, Procs

\* What a worker holds is a row as it read it.
LEMMA HeldSnapshot ==
  ASSUME Types, NEW w \in Workers, NEW s \in Holds(w)
  PROVE  s \in Snapshots /\ s.job \in Jobs /\ s.ver \in Nat
<1>1. w \in Procs
  BY DEF Procs
<1>2. Busy(w) => task[w] \in Tasks
  BY <1>1, BusyTask DEF Busy
<1>3. s \in Snapshots
  BY <1>2 DEF Holds, Types, Tasks
<1>. QED BY <1>3 DEF Snapshots

\* A worker that claims nothing in the step holds what it held, or less.
LEMMA HoldStep ==
  ASSUME Types, [Next]_vars, NEW w \in Workers, batch'[w] \subseteq batch[w]
  PROVE  /\ Holds(w)' \subseteq Holds(w)
         /\ Busy(w)' => \/ Busy(w) /\ task'[w].snap = task[w].snap
                        \/ ~Busy(w) /\ task'[w].snap \in batch[w] \ batch'[w]
<1>1. w \in Procs /\ w # Daemon
  BY SchedulerAssumption DEF Procs, Daemon
<1>2. TaskStep(w)
  BY <1>1, AnyTask
<1>3. Busy(w)' => \/ Busy(w) /\ task'[w].snap = task[w].snap
                  \/ ~Busy(w) /\ task'[w].snap \in batch[w] \ batch'[w]
  BY <1>1, <1>2 DEF TaskStep, Busy, NoTask
<1>4. Holds(w)' = batch'[w] \cup (IF Busy(w)' THEN {task'[w].snap} ELSE {})
  BY DEF Holds
<1>. QED BY <1>3, <1>4 DEF Holds

\* A process that frees a one-shot lets go of it in the same step, and when it
\* is in another worker's hands that is recorded.
LEMMA FreeStep ==
  ASSUME Types, ClaimInv, NEW p \in Procs, Frees(p), Busy(p),
         NEW j \in OneShots, JobOf(p) = j, taken[j] = 0, taken'[j] = 0,
         row[j].status # "active", row'[j].status = "active",
         NEW w \in Workers, Holds(w)' \subseteq Holds(w)
  PROVE  j \notin HeldJobs(w)'
<1> USE DEF workerVars
<1>0. task[p] \in Tasks /\ j \in Jobs
  BY BusyTask DEF Busy
<1>1. batch' = batch /\ task'[p] = NoTask
  BY DEF Frees, DeferStatus, WakeTimesOut, Revert, Types
<1>2. CASE p \in Workers
  <2>1. j \in HeldJobs(p)
    BY <1>2 DEF HeldJobs, Holds, JobOf
  <2>2. w # p => j \notin HeldJobs(w)
    BY <1>2, <2>1 DEF ClaimInv, OneHolder
  <2>3. \A s \in batch[p] : s.job # j
    BY <1>2 DEF ClaimInv, OneHolder
  <2>4. Holds(p)' = batch[p]
    BY <1>1 DEF Holds, Busy, NoTask
  <2>5. CASE w = p
    BY <2>3, <2>4, <2>5 DEF HeldJobs
  <2>6. CASE w # p
    BY <2>2, <2>6 DEF HeldJobs
  <2>. QED BY <2>5, <2>6
<1>3. CASE p \notin Workers
  <2> SUFFICES ASSUME j \in HeldJobs(w)' PROVE FALSE
    OBVIOUS
  <2>1. Revert(p)
    BY <1>3 DEF Frees
  <2>2. j \in HeldJobs(w) /\ w \in Live \ {p}
    <3>1. j \in HeldJobs(w) /\ Holds(w) # {}
      BY DEF HeldJobs
    <3>. QED BY <1>3, <3>1, HoldersLive DEF ClaimInv
  <2>3. row[j] \in Rows
    BY <1>0 DEF Types
  <2>4. row[j].status = "firing"
    <3> SUFFICES ASSUME row[j].status # "firing" PROVE FALSE
      OBVIOUS
    <3>1. Reverted(row[j]) = row[j]
      BY DEF Reverted, FiringTo
    <3>2. row' = Updated(j, row[j])
      BY <2>1, <3>1 DEF Revert
    <3>3. row'[j] = row[j]
      BY <1>0, <3>2 DEF Updated, Types
    <3>. QED BY <3>3
  <2>5. taken' = Counted(taken, j)
    BY <2>1, <2>2, <2>4 DEF Revert
  <2>6. Counted(taken, j)[j] = taken[j] + 1
    BY <1>0, CountedTypes DEF Types
  <2>. QED BY <2>5, <2>6
<1>. QED BY <1>2, <1>3

\* Steps without a claim.
LEMMA NoClaimStep ==
  ASSUME Types, ClaimInv, [Next]_vars, \A w \in Workers : batch'[w] \subseteq batch[w]
  PROVE  OneHolder' /\ OneOccurrence'
<1>0. /\ OneShots' = OneShots /\ OneShots \subseteq Jobs /\ Types'
      /\ \A j \in Jobs : LockRules(j)
  BY KindFixed, NextTypes, LockStep
<1>1. \A w \in Workers :
        /\ Holds(w)' \subseteq Holds(w)
        /\ Busy(w)' => \/ Busy(w) /\ task'[w].snap = task[w].snap
                       \/ ~Busy(w) /\ task'[w].snap \in batch[w] \ batch'[w]
  BY HoldStep
<1>2. \A w \in Workers : HeldJobs(w)' \subseteq HeldJobs(w)
  BY <1>1 DEF HeldJobs
<1>3. ASSUME NEW j \in OneShots, taken'[j] = 0
      PROVE  /\ \A w \in Workers : j \in HeldJobs(w)' => row'[j].status # "active"
             /\ \A v, w \in Workers : j \in HeldJobs(v)' /\ j \in HeldJobs(w)' => v = w
             /\ \A w \in Workers : \A s, t \in batch'[w] : s.job = j /\ t.job = j => s = t
             /\ \A w \in Workers : \A s \in batch'[w] : Busy(w)' /\ JobOf(w)' = j => s.job # j
  <2>1. taken[j] = 0
    <3>1. taken[j] \in Nat /\ taken'[j] >= taken[j]
      BY <1>0 DEF LockRules, Types
    <3>. QED BY <1>3, <3>1
  <2>2. /\ \A w \in Workers : j \in HeldJobs(w) => row[j].status # "active"
        /\ \A v, w \in Workers : j \in HeldJobs(v) /\ j \in HeldJobs(w) => v = w
        /\ \A w \in Workers : \A s, t \in batch[w] : s.job = j /\ t.job = j => s = t
        /\ \A w \in Workers : \A s \in batch[w] : Busy(w) /\ JobOf(w) = j => s.job # j
    BY <2>1 DEF ClaimInv, OneHolder
  <2>3. ASSUME NEW w \in Workers, j \in HeldJobs(w)' PROVE row'[j].status # "active"
    <3> SUFFICES ASSUME row'[j].status = "active" PROVE FALSE
      OBVIOUS
    <3>1. row[j].status # "active"
      BY <1>2, <2>2, <2>3
    <3>2. PICK p \in Procs : Frees(p) /\ JobOf(p) = j /\ Busy(p)
      BY <1>0, <3>1 DEF LockRules
    <3>. QED BY <1>1, <1>3, <2>1, <2>3, <3>1, <3>2, FreeStep
  <2>4. \A v, w \in Workers : j \in HeldJobs(v)' /\ j \in HeldJobs(w)' => v = w
    BY <1>2, <2>2
  <2>5. \A w \in Workers : \A s, t \in batch'[w] : s.job = j /\ t.job = j => s = t
    BY <2>2
  <2>6. ASSUME NEW w \in Workers, NEW s \in batch'[w], Busy(w)', JobOf(w)' = j, s.job = j
        PROVE  FALSE
    <3>1. s \in batch[w] /\ task'[w].snap.job = j
      BY <2>6 DEF JobOf
    <3>2. CASE Busy(w) /\ task'[w].snap = task[w].snap
      BY <2>2, <2>6, <3>1, <3>2 DEF JobOf
    <3>3. CASE task'[w].snap \in batch[w] \ batch'[w]
      BY <2>2, <2>6, <3>1, <3>3
    <3>. QED BY <1>1, <2>6, <3>2, <3>3
  <2>. QED BY <2>3, <2>4, <2>5, <2>6
<1>4. OneHolder'
  BY <1>0, <1>3 DEF OneHolder
<1>5. ASSUME NEW w \in Workers, NEW s \in Holds(w)', s.job \notin OneShots
      PROVE  s.ver < row'[s.job].ver
  <2>1. s \in Holds(w)
    BY <1>1
  <2>2. s.ver < row[s.job].ver
    BY <1>5, <2>1 DEF ClaimInv, OneOccurrence
  <2>3. s.job \in Jobs /\ s.ver \in Nat
    BY <2>1, HeldSnapshot
  <2>4. row[s.job].ver \in Nat /\ row'[s.job].ver \in Nat /\ row'[s.job].ver >= row[s.job].ver
    BY <1>0, <2>3 DEF LockRules, Types, Rows
  <2>. QED BY <2>2, <2>3, <2>4
<1>6. OneOccurrence'
  BY <1>0, <1>1, <1>5 DEF ClaimInv, OneOccurrence
<1>. QED BY <1>4, <1>6

\* Steps with one: the row was active, or its occurrence was the current one.
LEMMA ClaimStep ==
  ASSUME Types, ClaimInv, [Next]_vars, NEW w \in Workers, NEW c \in cand[w],
         batch'[w] = batch[w] \cup {c}, c \notin batch[w],
         ClaimRecurring(w, c) \/ ClaimOneShot(w, c)
  PROVE  OneHolder' /\ OneOccurrence'
<1> USE DEF rowVars, workerVars, daemonVars, history
<1>0. /\ OneShots' = OneShots /\ OneShots \subseteq Jobs /\ Types'
      /\ \A j \in Jobs : LockRules(j)
  BY KindFixed, NextTypes, LockStep
<1>1. /\ UNCHANGED <<task, taken>>
      /\ \A v \in Workers \ {w} : batch'[v] = batch[v]
  BY DEF ClaimRecurring, ClaimOneShot, Types
<1>2. \A v \in Workers : /\ v # w => Holds(v)' = Holds(v)
                         /\ Busy(v)' = Busy(v) /\ JobOf(v)' = JobOf(v)
                         /\ Holds(w)' = Holds(w) \cup {c}
  BY <1>1 DEF Holds, Busy, JobOf
<1>3. c \in Snapshots /\ c.job \in Jobs /\ c.ver \in Nat
  BY DEF Types, Snapshots
<1>4. \A v \in Workers : /\ v # w => HeldJobs(v)' = HeldJobs(v)
                         /\ HeldJobs(w)' = HeldJobs(w) \cup {c.job}
  BY <1>2 DEF HeldJobs
<1>5. CASE ClaimRecurring(w, c)
  <2>1. c.job \notin OneShots
    BY <1>5 DEF ClaimRecurring, ClaimInv, TickOrder
  <2>2. LockHolds(c)
    BY <1>5 DEF ClaimRecurring
  <2>3. \A j \in Jobs \ {c.job} : row'[j] = row[j]
    BY <1>3, <1>5 DEF ClaimRecurring, Types
  <2>4. c.ver < row'[c.job].ver
    <3>1. row[c.job] \in Rows
      BY <1>3 DEF Types
    <3>2. \E r \in Rows : r.ver > row[c.job].ver /\ row' = [row EXCEPT ![c.job] = r]
      BY <1>5, <2>2, <3>1, ClaimedRow DEF ClaimRecurring
    <3>3. row'[c.job].ver > row[c.job].ver /\ row'[c.job].ver \in Nat
      BY <1>3, <3>2 DEF Types, Rows
    <3>. QED BY <1>3, <2>2, <3>3 DEF LockHolds
  <2>5. OneHolder'
    <3> SUFFICES ASSUME NEW j \in OneShots, taken'[j] = 0
                 PROVE  /\ \A v \in Workers : j \in HeldJobs(v)' => row'[j].status # "active"
                        /\ \A u, v \in Workers : j \in HeldJobs(u)' /\ j \in HeldJobs(v)' => u = v
                        /\ \A v \in Workers : \A s, t \in batch'[v] : s.job = j /\ t.job = j => s = t
                        /\ \A v \in Workers : \A s \in batch'[v] :
                             Busy(v)' /\ JobOf(v)' = j => s.job # j
      BY <1>0 DEF OneHolder
    <3>1. j # c.job /\ taken[j] = 0 /\ row'[j] = row[j]
      BY <1>0, <1>1, <2>1, <2>3
    <3>2. \A v \in Workers : j \in HeldJobs(v)' => j \in HeldJobs(v)
      BY <1>4, <3>1
    <3>3. \A v \in Workers : \A s \in batch'[v] : s.job = j => s \in batch[v]
      BY <1>1, <3>1
    <3>. QED BY <1>2, <3>1, <3>2, <3>3 DEF ClaimInv, OneHolder
  <2>6. \A v \in Workers : \A s \in Holds(v)' :
          s.job \notin OneShots => s.ver < row'[s.job].ver
    <3> SUFFICES ASSUME NEW v \in Workers, NEW s \in Holds(v)', s.job \notin OneShots
                 PROVE  s.ver < row'[s.job].ver
      OBVIOUS
    <3>1. CASE s = c
      BY <2>4, <3>1
    <3>2. CASE s \in Holds(v)
      <4>1. s.ver < row[s.job].ver
        BY <3>2 DEF ClaimInv, OneOccurrence
      <4>2. s.job \in Jobs /\ s.ver \in Nat
        BY <3>2, HeldSnapshot
      <4>3. row[s.job].ver \in Nat /\ row'[s.job].ver \in Nat /\ row'[s.job].ver >= row[s.job].ver
        BY <1>0, <4>2 DEF LockRules, Types, Rows
      <4>. QED BY <4>1, <4>2, <4>3
    <3>. QED BY <1>2, <3>1, <3>2
  <2>7. \A v \in Workers \ {w} : \A s \in Holds(v) : s.job = c.job => s.ver # c.ver
    <3> SUFFICES ASSUME NEW v \in Workers \ {w}, NEW s \in Holds(v), s.job = c.job
                 PROVE  s.ver # c.ver
      OBVIOUS
    <3>1. s.ver < row[s.job].ver
      BY <2>1 DEF ClaimInv, OneOccurrence
    <3>2. s.ver \in Nat
      BY HeldSnapshot
    <3>. QED BY <1>3, <2>2, <3>1, <3>2 DEF LockHolds
  <2>8. OneOccurrence'
    <3>1. \A u, v \in Workers : u # v =>
            \A s \in Holds(u)', t \in Holds(v)' :
              s.job = t.job /\ s.job \notin OneShots => s.ver # t.ver
      <4> SUFFICES ASSUME NEW u \in Workers, NEW v \in Workers, u # v,
                          NEW s \in Holds(u)', NEW t \in Holds(v)',
                          s.job = t.job, s.job \notin OneShots
                   PROVE  s.ver # t.ver
        OBVIOUS
      <4>1. CASE s \in Holds(u) /\ t \in Holds(v)
        BY <4>1 DEF ClaimInv, OneOccurrence
      <4>2. CASE u = w /\ s = c
        BY <1>2, <2>7, <4>2
      <4>3. CASE v = w /\ t = c
        BY <1>2, <2>7, <4>3
      <4>. QED BY <1>2, <4>1, <4>2, <4>3
    <3>. QED BY <1>0, <2>6, <3>1 DEF OneOccurrence
  <2>. QED BY <2>5, <2>8
<1>6. CASE ClaimOneShot(w, c)
  <2>1. c.job \in OneShots
    BY <1>6 DEF ClaimOneShot, ClaimInv, TickOrder
  <2>2. row[c.job].status = "active"
    BY <1>6 DEF ClaimOneShot, StillActive
  <2>3. /\ row'[c.job].status = "firing"
        /\ \A j \in Jobs \ {c.job} : row'[j] = row[j]
    <3>1. row[c.job] \in Rows
      BY <1>3 DEF Types
    <3>2. row' = [row EXCEPT ![c.job].status = "firing"]
      BY <1>6, <2>2 DEF ClaimOneShot, StillActive
    <3>. QED BY <1>3, <3>1, <3>2 DEF Types, Rows
  <2>4. taken[c.job] = 0 => \A v \in Workers : c.job \notin HeldJobs(v)
    BY <2>1, <2>2 DEF ClaimInv, OneHolder
  <2>5. OneHolder'
    <3> SUFFICES ASSUME NEW j \in OneShots, taken'[j] = 0
                 PROVE  /\ \A v \in Workers : j \in HeldJobs(v)' => row'[j].status # "active"
                        /\ \A u, v \in Workers : j \in HeldJobs(u)' /\ j \in HeldJobs(v)' => u = v
                        /\ \A v \in Workers : \A s, t \in batch'[v] : s.job = j /\ t.job = j => s = t
                        /\ \A v \in Workers : \A s \in batch'[v] :
                             Busy(v)' /\ JobOf(v)' = j => s.job # j
      BY <1>0 DEF OneHolder
    <3>1. CASE j # c.job
      <4>1. taken[j] = 0 /\ row'[j] = row[j]
        BY <1>0, <1>1, <2>3, <3>1
      <4>2. \A v \in Workers : j \in HeldJobs(v)' => j \in HeldJobs(v)
        BY <1>4, <3>1
      <4>3. \A v \in Workers : \A s \in batch'[v] : s.job = j => s \in batch[v]
        BY <1>1, <3>1
      <4>. QED BY <1>2, <4>1, <4>2, <4>3 DEF ClaimInv, OneHolder
    <3>2. CASE j = c.job
      <4>1. \A v \in Workers : j \notin HeldJobs(v)
        BY <1>1, <2>4, <3>2
      <4>2. \A v \in Workers : j \in HeldJobs(v)' => v = w
        BY <1>4, <4>1
      <4>3. \A v \in Workers : \A s \in batch[v] : s.job # j
        BY <4>1 DEF HeldJobs, Holds
      <4>4. \A v \in Workers : ~(Busy(v) /\ JobOf(v) = j)
        BY <4>1 DEF HeldJobs, Holds, JobOf
      <4>5. \A v \in Workers : \A s \in batch'[v] : s.job = j => s = c
        BY <1>1, <4>3
      <4>. QED BY <1>2, <2>3, <3>2, <4>2, <4>4, <4>5
    <3>. QED BY <3>1, <3>2
  <2>6. \A v \in Workers : \A s \in Holds(v)' : s.job \notin OneShots =>
          s \in Holds(v) /\ row'[s.job] = row[s.job]
    BY <1>2, <2>1, <2>3, HeldSnapshot
  <2>7. OneOccurrence'
    BY <1>0, <2>6 DEF ClaimInv, OneOccurrence
  <2>. QED BY <2>5, <2>7
<1>. QED BY <1>5, <1>6

\* Every step.
LEMMA ClaimNext ==
  ASSUME Types, ClaimInv, [Next]_vars
  PROVE  ClaimInv'
<1>1. TickOrder'
  BY OrderStep DEF ClaimInv
<1>2. CASE \A w \in Workers : batch'[w] \subseteq batch[w]
  BY <1>1, <1>2, NoClaimStep DEF ClaimInv
<1>3. ASSUME NEW w \in Workers, ~(batch'[w] \subseteq batch[w]) PROVE ClaimInv'
  <2>1. SnapStep(w)
    BY AnySnap
  <2>2. PICK c \in cand[w] : /\ batch'[w] = batch[w] \cup {c}
                             /\ ClaimRecurring(w, c) \/ ClaimOneShot(w, c)
    BY <1>3, <2>1, Zenon DEF SnapStep
  <2>3. c \notin batch[w]
    BY <1>3, <2>2
  <2>. QED BY <1>1, <2>2, <2>3, ClaimStep DEF ClaimInv
<1>. QED BY <1>2, <1>3

\* No two workers have the same one-shot or the same occurrence in hand, unless
\* a recovery took it from one of them.
THEOREM SchedulerClaims == Spec => []ClaimedOnce
<1>1. Init => ClaimInv
  BY DEF Init, ClaimInv, TickOrder, OneHolder, OneOccurrence, Holds, HeldJobs, Busy, NoTask, Procs
<1>2. Types /\ ClaimInv /\ [Next]_vars => ClaimInv'
  BY ClaimNext
<1>3. Types /\ ClaimInv => ClaimedOnce
  <2> SUFFICES ASSUME Types, ClaimInv, NEW v \in Live, NEW w \in Live, v # w,
                      NEW s \in Holds(v), NEW t \in Holds(w), s.job = t.job,
                      s.job \in OneShots \/ s.ver = t.ver
               PROVE  taken[s.job] > 0
    BY DEF ClaimedOnce
  <2>1. v \in Workers /\ w \in Workers /\ s.job \in Jobs
    BY HeldSnapshot DEF Live
  <2>2. s.job \in HeldJobs(v) /\ s.job \in HeldJobs(w)
    BY DEF HeldJobs
  <2>3. s.job \in OneShots => taken[s.job] # 0
    BY <2>1, <2>2 DEF ClaimInv, OneHolder
  <2>4. s.job \in OneShots
    BY <2>1 DEF ClaimInv, OneOccurrence
  <2>5. taken[s.job] \in Nat
    BY <2>1 DEF Types
  <2>. QED BY <2>3, <2>4, <2>5
<1>. QED BY InitTypes, NextTypes, <1>1, <1>2, <1>3, PTL DEF Spec
=============================================================================
