----------------------- MODULE ChannelDeliveryProofs -----------------------
(***************************************************************************)
(* Replies are posted once and a message on record as delivered was        *)
(* answered, for any number of events, messages, segments, attempts and    *)
(* crashes.                                                                *)
(*                                                                         *)
(* Both rest on who may still post a turn's reply. At most one event has a *)
(* claim to a turn that nobody took over and that has something to post    *)
(* (OneStake), and what was acknowledged is counted on some row or about   *)
(* to be (AckedCounted), but for what a crash tore, so a post that resumes *)
(* starts after it. A settled event is answered or has a sibling that owes *)
(* the answer (SiblingAnswers), and a turn that was cut off before it said *)
(* anything has an event that runs it again (CutShort). A step moves one   *)
(* process and one row: Frame carries everything else over.                *)
(***************************************************************************)
EXTENDS ChannelDelivery, Integers, SequenceTheorems, TLAPS

Contents == {f[e] : f \in Messages, e \in Events}
Before   == {"ingress", "waiting", "processing"}
Posting  == {"posting", "posted", "acknowledged"}
Stages   == Before \cup {"looping", "bookkeeping", "deciding"} \cup Posting

Rows == [proc : {"none", "pending", "failed", "processed", "dead_letter"},
         deliv : {"pending", "failed", "delivered", "dead_letter"},
         payload : BOOLEAN, reply : Nat, link : Nat, left : Int, dleft : Int,
         count : Nat, old : BOOLEAN]
Works == [at : Stages, ev : Events, turn : Nat, reply : Nat, seg : Nat,
          dedup : BOOLEAN, fresh : BOOLEAN, write : 1..3]
UserRows == [msg : Contents, keyed : BOOLEAN, size : Nat, end : {"none", "silent", "ended"}]
Snapshots == [ev : Events, reply : Nat, link : Nat, count : Nat]

Types ==
  /\ carries \in Messages
  /\ row \in [Events -> Rows]
  /\ turns \in Seq(UserRows)
  /\ task \in [Procs -> Works \cup {NoTask}]
  /\ replays \subseteq Events /\ redeliver \subseteq Snapshots
  /\ acked \subseteq Nat \X Nat

-----------------------------------------------------------------------------
(* Where the work is.                                                      *)

Active(p) == ~At(p, "none")
On(p, e)  == Active(p) /\ Ev(p) = e

\* p has written that its event is processed.
Marked(p) == \/ task[p].at \in {"deciding"} \cup Posting
             \/ p = Sweep /\ At(p, "bookkeeping") /\ task[p].write = 3

\* A live dispatch works on its own event, a row of this boot; the status of
\* the row is that of the stage, but for a recovery beside the sweep.
WorkAt(p) ==
  /\ p \in Events => Ev(p) = p /\ ~row[p].old /\ ~task[p].fresh /\ row[p].deliv = "pending"
  /\ task[p].at \in {"ingress", "waiting"} => p \in Events
  /\ row[Ev(p)].proc = IF Marked(p) THEN "processed" ELSE IF p = Sweep THEN "failed" ELSE "pending"
  /\ row[Ev(p)].deliv \in {"pending", "failed"}
  /\ task[p].at \notin Posting => row[Ev(p)].deliv = "pending" \/ row[Ev(p)].reply # 0
WorkOK == \A p \in Procs : Active(p) => WorkAt(p)

\* The sweep has an event to itself, and what it selected stays as it was read.
SweepAlone ==
  /\ Active(Sweep) =>
       /\ \A e \in Events : Active(e) => Ev(Sweep) # e
       /\ Ev(Sweep) \notin replays
       /\ \A s \in redeliver : s.ev # Ev(Sweep)
  /\ \A e \in replays : row[e].proc = "failed"
  /\ \A s \in redeliver :
       /\ row[s.ev].proc = "processed" /\ row[s.ev].deliv = "failed"
       /\ s.reply = row[s.ev].reply /\ s.link = row[s.ev].link /\ s.count = row[s.ev].count

\* A loop holds the flag.
LoopHoldsLock == \A p \in Procs : At(p, "looping") <=> lock = p

\* A row has a delivery only once it is processed, an age and a reply once it is
\* there.
MarkedAt(e) ==
  /\ (row[e].deliv # "pending" \/ row[e].count # 0) => row[e].proc = "processed"
  /\ row[e].old => row[e].proc # "none"
  /\ row[e].proc = "none" => row[e].reply = 0
MarkedFirst == \A e \in Events : MarkedAt(e)

WorkInv == WorkOK /\ SweepAlone /\ LoopHoldsLock /\ MarkedFirst

-----------------------------------------------------------------------------
(* What rows and tasks refer to.                                           *)

\* t is a turn of the message that e carries.
TurnOf(e, t) == t \in Turns /\ turns[t].msg = carries[e]
IsKeyed(t)   == turns[t].keyed
\* A turn with something to post that several events may be linked to.
Shared(t)    == IsKeyed(t) /\ turns[t].size > 0
\* The row names no other turn's reply.
Plain(e)     == row[e].reply \in {0, row[e].link}

KeyedOnce ==
  /\ \A t \in Turns : IsKeyed(t) => turns[t].msg \in Keyed
  /\ \A t, u \in Turns : (IsKeyed(t) /\ IsKeyed(u) /\ turns[t].msg = turns[u].msg) => t = u

RowRefAt(e) ==
  /\ row[e].link # 0 => TurnOf(e, row[e].link)
  /\ row[e].reply # 0 => TurnOf(e, row[e].reply) /\ Said(row[e].reply)
  /\ (row[e].reply # 0 /\ Shared(row[e].reply)) => row[e].link = row[e].reply
  /\ (row[e].reply # 0 /\ row[e].proc # "processed" /\ carries[e] \in Keyed)
       => IsKeyed(row[e].reply)
RowRefs == \A e \in Events : RowRefAt(e)

\* The turn of a task whose loop is over said something or nothing; only a live
\* dispatch may go on with a turn that was cut off before.
TaskRefAt(p) ==
  LET k == task[p]
      r == row[Ev(p)] IN
  /\ k.at \in Before <=> k.turn = 0
  /\ k.turn # 0 => TurnOf(Ev(p), k.turn)
  /\ (k.turn # 0 /\ r.reply # 0 /\ Shared(r.reply)) => k.turn = r.reply
  /\ p # Sweep => r.reply \in {0, k.turn}
  /\ (p # Sweep /\ k.turn # 0 /\ carries[p] \in Keyed) => IsKeyed(k.turn)
  /\ k.at \in Before \cup {"looping"} => ~k.dedup /\ k.write = 1 /\ k.reply = 0
  /\ k.at \notin Before \cup {"looping"} => Said(k.turn) \/ (p # Sweep /\ IsKeyed(k.turn))
  /\ k.at \in {"bookkeeping", "deciding"} =>
       /\ k.dedup => IsKeyed(k.turn) /\ k.reply = 0 /\ r.reply \in {0, k.turn}
       /\ ~k.dedup => k.reply \in {0, k.turn} /\ Said(k.turn)
       /\ r.count = 0
  /\ (k.at = "bookkeeping" /\ k.write > 1) => r.link = k.turn
  /\ k.at = "deciding" => r.link = k.turn
  /\ k.at \in Posting =>
       /\ k.seg = r.count + 1
       /\ k.turn = r.link \/ (p = Sweep /\ k.turn = r.reply /\ r.deliv = "failed")
  /\ k.at \in {"posted", "acknowledged"} => turns[k.turn].size > 0
  /\ k.at = "acknowledged" => <<k.turn, k.seg>> \in acked
TaskRefs == \A p \in Procs : Active(p) => TaskRefAt(p)

\* A turn whose loop runs has said nothing and is nobody's yet; the original of
\* a second run has nothing to post and will not get it.
LoopAt(q) ==
  /\ ~Said(task[q].turn)
  /\ \A e \in Events : row[e].link # task[q].turn
  /\ \A p \in Procs \ {q} : Active(p) => task[p].turn # task[q].turn
FreshAt(p) ==
  /\ Original(Msg(p)) # {}
  /\ \A t \in Original(Msg(p)) :
       /\ turns[t].size = 0
       /\ \A q \in Procs : At(q, "looping") => task[q].turn # t
LoopsAlone ==
  /\ \A q \in Procs : At(q, "looping") => LoopAt(q)
  /\ \A p \in Procs : (At(p, "processing") /\ task[p].fresh) => FreshAt(p)

RefInv == KeyedOnce /\ RowRefs /\ TaskRefs /\ LoopsAlone

-----------------------------------------------------------------------------
(* Who posts a turn.                                                       *)

\* e may post the reply of t, or has.
Stake(e, t) ==
  \/ row[e].reply = t
  \/ \E p \in Procs : On(p, e) /\ task[p].turn = t /\ (task[p].dedup => task[p].at \in Posting)
  \/ row[e].link = t /\ ~Plain(e)
  \/ /\ row[e].proc = "processed" /\ row[e].link = t
     /\ row[e].count # 0 \/ row[e].deliv \in {"failed", "dead_letter"}

OneStake ==
  \A t \in Turns \ taken : turns[t].size > 0 =>
    \A e, f \in Events : (Stake(e, t) /\ Stake(f, t)) => e = f

\* A process on e has the answer for segment i of t and not yet counted it.
Counting(e, t, i) ==
  \E p \in Procs : On(p, e) /\ At(p, "acknowledged") /\ task[p].turn = t /\ task[p].seg = i
CountedOn(e, t, i) ==
  /\ t \in {row[e].reply, row[e].link} /\ row[e].proc = "processed" /\ i > 0
  /\ i <= row[e].count \/ Counting(e, t, i)

\* Each acknowledged segment is on the count of some event, or about to be, if
\* no crash came between.
AckedCounted ==
  \A t \in Nat, i \in Nat : <<t, i>> \in acked \ torn =>
    t \in Turns /\ \E e \in Events : CountedOn(e, t, i)

StakeInv == OneStake /\ AckedCounted

-----------------------------------------------------------------------------
(* Who owes an answer.                                                     *)

Answered(m) ==
  \E t \in Turns : turns[t].msg = m /\ Said(t) /\ \A i \in 1..turns[t].size : <<t, i>> \in acked

CountedAcked ==
  \A e \in Events : Plain(e) => \A i \in 1..row[e].count : <<row[e].link, i>> \in acked

\* h is only settled by posting a whole reply, or names another turn's.
Owes(h) ==
  /\ row[h].proc = "processed" /\ (row[h].deliv \in {"failed", "dead_letter"} \/ ~Plain(h))
  /\ \A p \in Procs : On(p, h) => task[p].at \in Posting

Resolved(m) == Answered(m) \/ \E h \in Events : carries[h] = m /\ Owes(h)

\* A sibling on record as delivered was, or another one owes it.
SiblingAnswers ==
  \A g \in Events :
    (row[g].link # 0 /\ Said(row[g].link) /\ row[g].deliv = "delivered") => Resolved(carries[g])

\* r will run its turn again, or runs t.
Reruns(r, t) ==
  /\ row[r].proc # "none" /\ row[r].deliv # "delivered"
  /\ \A p \in Procs : On(p, r) =>
       /\ ~task[p].dedup
       /\ p # Sweep => At(p, "looping") /\ task[p].turn = t

\* A turn that was cut off before it said anything leaves an event to run it
\* again.
CutShort ==
  \A t \in Turns : (IsKeyed(t) /\ ~Said(t)) =>
    Resolved(turns[t].msg) \/ \E r \in Events : carries[r] = turns[t].msg /\ Reruns(r, t)

AnswerInv == CountedAcked /\ SiblingAnswers /\ CutShort /\ DeliveredMeansAnswered

IInv == Types /\ WorkInv /\ RefInv /\ StakeInv /\ AnswerInv

-----------------------------------------------------------------------------
(* The frame of a step: process p works on the row of event e, and leaves   *)
(* the other processes, their rows and what they refer to alone.            *)

TurnsGrow ==
  \A t \in Turns :
    /\ t \in 1..Len(turns')
    /\ turns'[t].msg = turns[t].msg /\ turns'[t].keyed = turns[t].keyed
    /\ Said(t) => turns'[t] = turns[t]

Frame(p, e) ==
  /\ \A q \in Procs \ {p} : task'[q] = task[q] /\ ~On(q, e)
  /\ (Active(p) => Ev(p) = e) /\ (Active(p)' => Ev(p)' = e)
  /\ \A f \in Events \ {e} : row'[f] = row[f]
  /\ carries' = carries /\ TurnsGrow
  /\ taken \subseteq taken' /\ acked \subseteq acked' /\ torn \subseteq torn'
  /\ replays' \subseteq replays \ {e}
  /\ redeliver' \subseteq redeliver /\ \A s \in redeliver' : s.ev # e

\* The flag is left alone, or the loop of p gives it back.
LockKept(p) == lock' = IF At(p, "looping") THEN NoOne ELSE lock

\* No loop is started; only the turn whose loop p runs changes.
RepliesKept(p) ==
  /\ Len(turns') = Len(turns)
  /\ \A t \in Turns : turns'[t] = turns[t] \/ (At(p, "looping") /\ t = task[p].turn)

\* The names of the processes and of the holders of the flag.
LEMMA Names ==
  /\ Sweep \in Procs /\ Sweep \notin Events
  /\ NoOne \notin Procs /\ "other" \notin Procs /\ NoOne # "other"
  /\ \A p \in Procs : p # Sweep => p \in Events
  /\ \A e \in Events : e \in Procs /\ e # Sweep
BY DeliveryAssumption DEF Procs, Sweep, NoOne

\* A row is worked on by one process at a time, and by none while it waits in
\* one of the sweep's selections.
LEMMA OneWorker ==
  ASSUME Types, WorkInv, NEW p \in Procs, Active(p)
  PROVE  /\ task[p] \in Works /\ Ev(p) \in Events
         /\ \A q \in Procs \ {p} : ~On(q, Ev(p))
         /\ Ev(p) \notin replays
         /\ \A s \in redeliver : s.ev # Ev(p)
<1>1. task[p] \in Works /\ Ev(p) \in Events
  BY DEF Types, Active, At, NoTask, Works, Ev
<1>2. ASSUME NEW q \in Procs \ {p}, On(q, Ev(p)) PROVE FALSE
  <2>1. CASE p = Sweep
    BY <2>1, <1>2, Names DEF On, WorkInv, SweepAlone, WorkOK, WorkAt
  <2>2. CASE p # Sweep
    BY <2>2, <1>2, Names DEF On, WorkInv, SweepAlone, WorkOK, WorkAt
  <2>3. QED BY <2>1, <2>2
<1>3. Ev(p) \notin replays /\ \A s \in redeliver : s.ev # Ev(p)
  <2>1. CASE p = Sweep
    BY <2>1 DEF WorkInv, SweepAlone
  <2>2. CASE p # Sweep
    BY <2>2, Names DEF WorkInv, SweepAlone, WorkOK, WorkAt
  <2>3. QED BY <2>1, <2>2
<1>4. QED BY <1>1, <1>2, <1>3

\* The parts of WorkInv that a step leaves to show.
LEMMA FrameWork ==
  ASSUME Types, WorkInv, NEW p \in Procs, NEW e \in Events, Frame(p, e),
         p # Sweep => p = e,
         Active(p)' => WorkAt(p)', MarkedAt(e)', LoopHoldsLock'
  PROVE  WorkInv'
<1>1. ASSUME NEW q \in Procs, Active(q)' PROVE WorkAt(q)'
  <2>1. CASE q = p BY <1>1, <2>1
  <2>2. CASE q # p
    <3>1. task'[q] = task[q] /\ Active(q) /\ Ev(q) # e
      BY <1>1, <2>2 DEF Frame, Active, On, At
    <3>2. Ev(q) \in Events BY <3>1, OneWorker
    <3>3. WorkAt(q) BY <3>1 DEF WorkInv, WorkOK
    <3>4. row'[Ev(q)] = row[Ev(q)] BY <3>1, <3>2 DEF Frame
    <3>5. q \in Events => Ev(q) = q BY <3>3 DEF WorkAt
    <3>6. QED BY <3>1, <3>3, <3>4, <3>5 DEF WorkAt, Marked, Ev, At
  <2>3. QED BY <2>1, <2>2
<1>2. SweepAlone'
  <2>1. Active(Sweep)' => \A f \in Events : Active(f)' => Ev(Sweep)' # f
    <3>1. SUFFICES ASSUME Active(Sweep)', NEW f \in Events, Active(f)', Ev(Sweep)' = f
                   PROVE  FALSE
      OBVIOUS
    <3>2. f \in Procs /\ f # Sweep /\ Sweep \in Procs BY Names
    <3>3. CASE p = Sweep
      BY <3>1, <3>2, <3>3, OneWorker DEF Frame, On, Active, At, WorkInv, WorkOK, WorkAt
    <3>4. CASE p # Sweep
      <4>1. task'[Sweep] = task[Sweep] /\ ~On(Sweep, e) BY <3>2, <3>4 DEF Frame
      <4>2. Active(Sweep) /\ Ev(Sweep) = f BY <4>1, <3>1 DEF Active, At, Ev
      <4>3. f # p BY <4>1, <4>2, <3>4 DEF On
      <4>4. Active(f) BY <4>3, <3>1, <3>2 DEF Frame, Active, At
      <4>5. QED BY <4>2, <4>4 DEF WorkInv, SweepAlone
    <3>5. QED BY <3>3, <3>4
  <2>2. Active(Sweep)' => Ev(Sweep)' \notin replays' /\ \A s \in redeliver' : s.ev # Ev(Sweep)'
    <3>1. CASE p = Sweep BY <3>1 DEF Frame
    <3>2. CASE p # Sweep
      BY <3>2, Names DEF Frame, Active, At, Ev, WorkInv, SweepAlone
    <3>3. QED BY <3>1, <3>2
  <2>3. \A f \in replays' : row'[f].proc = "failed"
    BY DEF Frame, WorkInv, SweepAlone, Types
  <2>4. ASSUME NEW s \in redeliver'
        PROVE  /\ row'[s.ev].proc = "processed" /\ row'[s.ev].deliv = "failed"
               /\ s.reply = row'[s.ev].reply /\ s.link = row'[s.ev].link
               /\ s.count = row'[s.ev].count
    <3>1. s \in redeliver /\ s.ev # e BY <2>4 DEF Frame
    <3>2. s.ev \in Events BY <3>1 DEF Types, Snapshots
    <3>3. row'[s.ev] = row[s.ev] BY <3>1, <3>2 DEF Frame
    <3>4. QED BY <3>1, <3>3 DEF WorkInv, SweepAlone
  <2>5. QED BY <2>1, <2>2, <2>3, <2>4 DEF SweepAlone
<1>3. MarkedFirst'
  BY DEF MarkedFirst, MarkedAt, WorkInv, Frame
<1>4. QED BY <1>1, <1>2, <1>3 DEF WorkInv, WorkOK

\* A process that works on another row keeps its references.
LEMMA FrameOthers ==
  ASSUME Types, WorkInv, NEW p \in Procs, NEW e \in Events, Frame(p, e),
         NEW q \in Procs \ {p}, Active(q)'
  PROVE  /\ task'[q] = task[q] /\ Active(q) /\ Ev(q) # e /\ Ev(q) \in Events
         /\ Ev(q)' = Ev(q) /\ row'[Ev(q)] = row[Ev(q)] /\ WorkAt(q)
<1>1. task'[q] = task[q] /\ Active(q) /\ Ev(q) # e
  BY DEF Frame, Active, On, At
<1>2. Ev(q) \in Events BY <1>1, OneWorker
<1>3. QED BY <1>1, <1>2 DEF Frame, Ev, WorkInv, WorkOK

\* The parts of RefInv that a step leaves to show.
LEMMA FrameRefs ==
  ASSUME Types, WorkInv, RefInv, NEW p \in Procs, NEW e \in Events, Frame(p, e),
         KeyedOnce', LoopsAlone', RowRefAt(e)', Active(p)' => TaskRefAt(p)'
  PROVE  RefInv'
<1>1. ASSUME NEW f \in Events PROVE RowRefAt(f)'
  <2>1. CASE f = e BY <2>1
  <2>2. CASE f # e
    <3>1. row'[f] = row[f] /\ carries' = carries /\ RowRefAt(f) /\ TurnsGrow
      BY <2>2 DEF Frame, RefInv, RowRefs
    <3>2. \A t : TurnOf(f, t) => /\ TurnOf(f, t)' /\ (IsKeyed(t)' <=> IsKeyed(t))
                                 /\ Said(t) => turns'[t] = turns[t]
      BY <3>1 DEF TurnOf, IsKeyed, Turns, TurnsGrow
    <3>3. PICK t : t = row[f].reply OBVIOUS
    <3>4. t # 0 => TurnOf(f, t) /\ Said(t) BY <3>1, <3>3 DEF RowRefAt
    <3>5. t # 0 => TurnOf(f, t)' /\ Said(t)' /\ (Shared(t)' <=> Shared(t)) /\ (IsKeyed(t)' <=> IsKeyed(t))
      BY <3>2, <3>4 DEF Said, Shared, IsKeyed
    <3>6. row[f].link # 0 => TurnOf(f, row[f].link)' BY <3>1, <3>2 DEF RowRefAt, TurnOf
    <3>7. QED BY <3>1, <3>3, <3>5, <3>6 DEF RowRefAt, TurnOf, Said, Shared, IsKeyed
  <2>3. QED BY <2>1, <2>2
<1>2. ASSUME NEW q \in Procs, Active(q)' PROVE TaskRefAt(q)'
  <2>1. CASE q = p BY <1>2, <2>1
  <2>2. CASE q # p
    <3>1. /\ task'[q] = task[q] /\ Active(q) /\ Ev(q) \in Events /\ Ev(q)' = Ev(q)
          /\ row'[Ev(q)] = row[Ev(q)] /\ WorkAt(q)
      BY <1>2, <2>2, FrameOthers
    <3>2. TaskRefAt(q) /\ RowRefAt(Ev(q)) /\ carries' = carries /\ TurnsGrow
      BY <3>1 DEF RefInv, TaskRefs, RowRefs, Frame
    <3>3. task[q] \in Works BY <3>1, OneWorker
    <3>4. PICK g \in Events, k \in Works, t \in Nat, u \in Nat :
            g = Ev(q) /\ k = task[q] /\ t = k.turn /\ u = row[g].reply
      BY <3>1, <3>3 DEF Types, Works, Rows
    <3>5. \A v : TurnOf(g, v) => /\ TurnOf(g, v)' /\ (IsKeyed(v)' <=> IsKeyed(v))
                                 /\ Said(v) => turns'[v] = turns[v]
      BY <3>2 DEF TurnOf, IsKeyed, Turns, TurnsGrow
    <3>6. (t # 0 => TurnOf(g, t)) /\ (k.at \notin Before => t # 0)
      BY <3>2, <3>4 DEF TaskRefAt
    <3>7. t # 0 => /\ TurnOf(g, t)' /\ (IsKeyed(t)' <=> IsKeyed(t)) /\ (Said(t) => Said(t)')
                   /\ turns[t].size > 0 => turns'[t].size > 0
      BY <3>5, <3>6 DEF Said
    <3>8. u # 0 => (Shared(u)' <=> Shared(u))
      BY <3>2, <3>4, <3>5 DEF RowRefAt, Shared, IsKeyed
    <3>9. k.at \in {"bookkeeping", "deciding", "posting", "posted", "acknowledged"} => k.at \notin Before
      BY DEF Before
    <3>10. acked \subseteq acked' BY DEF Frame
    <3>11. /\ k.at \in Before <=> t = 0
           /\ (t # 0 /\ u # 0 /\ Shared(u)) => t = u
           /\ q # Sweep => u \in {0, t}
           /\ (q # Sweep /\ t # 0 /\ carries[q] \in Keyed) => IsKeyed(t)
           /\ k.at \in Before \cup {"looping"} => ~k.dedup /\ k.write = 1 /\ k.reply = 0
           /\ k.at \notin Before \cup {"looping"} => Said(t) \/ (q # Sweep /\ IsKeyed(t))
           /\ k.at \in {"bookkeeping", "deciding"} =>
                /\ k.dedup => IsKeyed(t) /\ k.reply = 0 /\ u \in {0, t}
                /\ ~k.dedup => k.reply \in {0, t} /\ Said(t)
                /\ row[g].count = 0
           /\ (k.at = "bookkeeping" /\ k.write > 1) => row[g].link = t
           /\ k.at = "deciding" => row[g].link = t
           /\ k.at \in Posting =>
                /\ k.seg = row[g].count + 1
                /\ t = row[g].link \/ (q = Sweep /\ t = u /\ row[g].deliv = "failed")
           /\ k.at \in {"posted", "acknowledged"} => turns[t].size > 0
           /\ k.at = "acknowledged" => <<t, k.seg>> \in acked
      BY <3>2, <3>4 DEF TaskRefAt
    <3>12. task'[q] = k /\ Ev(q)' = g /\ row'[g] = row[g] /\ carries' = carries BY <3>1, <3>2, <3>4
    <3>13. QED BY <3>4, <3>6, <3>7, <3>8, <3>9, <3>10, <3>11, <3>12 DEF TaskRefAt, Posting
  <2>3. QED BY <2>1, <2>2
<1>3. QED BY <1>1, <1>2 DEF RefInv, RowRefs, TaskRefs

\* The loops and the second runs, when p does not start a turn.
LEMMA FrameLoops ==
  ASSUME Types, WorkInv, RefInv, NEW p \in Procs, NEW e \in Events, Frame(p, e),
         RepliesKept(p), ~At(p, "looping")',
         \A q \in Procs \ {p} : At(q, "looping") =>
            /\ row'[e].link # task[q].turn
            /\ Active(p)' => task'[p].turn # task[q].turn,
         (At(p, "processing") /\ task[p].fresh)' => FreshAt(p)'
  PROVE  LoopsAlone'
<1>1. ASSUME NEW q \in Procs, At(q, "looping")' PROVE LoopAt(q)'
  <2>1. q # p BY <1>1
  <2>2. Active(q)' BY <1>1 DEF Active, At
  <2>3. task'[q] = task[q] /\ Active(q) /\ Ev(q) \in Events
    BY <2>1, <2>2, FrameOthers
  <2>4. At(q, "looping") BY <1>1, <2>3 DEF At
  <2>5. LoopAt(q) /\ TaskRefAt(q) /\ task[q] \in Works
    BY <2>3, <2>4, OneWorker DEF RefInv, LoopsAlone, TaskRefs
  <2>6. task[q].turn \in Turns
    BY <2>4, <2>5 DEF TaskRefAt, TurnOf, At, Before
  <2>7. ~Said(task[q].turn)'
    <3>1. (At(p, "looping") => task[p].turn # task[q].turn) /\ ~Said(task[q].turn)
      BY <2>1, <2>5 DEF LoopAt, Active, At
    <3>2. turns'[task[q].turn] = turns[task[q].turn]
      BY <3>1, <2>6 DEF RepliesKept
    <3>3. QED BY <2>3, <3>1, <3>2 DEF Said
  <2>8. \A f \in Events : row'[f].link # task[q].turn
    BY <2>1, <2>4, <2>5 DEF Frame, LoopAt
  <2>9. \A r \in Procs \ {q} : Active(r)' => task'[r].turn # task[q].turn
    BY <2>1, <2>4, <2>5, FrameOthers DEF LoopAt
  <2>10. QED BY <2>3, <2>7, <2>8, <2>9 DEF LoopAt
<1>2. ASSUME NEW q \in Procs, At(q, "processing")', task'[q].fresh PROVE FreshAt(q)'
  <2>1. CASE q = p BY <1>2, <2>1 DEF At
  <2>2. CASE q # p
    <3>1. Active(q)' BY <1>2 DEF Active, At
    <3>2. task'[q] = task[q] /\ Active(q) /\ Ev(q) \in Events /\ Ev(q)' = Ev(q)
      BY <2>2, <3>1, FrameOthers
    <3>3. FreshAt(q) BY <3>2, <1>2 DEF RefInv, LoopsAlone, At
    <3>4. Msg(q)' = Msg(q) BY <3>2 DEF Msg, Frame
    <3>5. Original(Msg(q))' = Original(Msg(q))
      BY <3>4 DEF Original, Turns, Frame, TurnsGrow, RepliesKept
    <3>6. ASSUME NEW r \in Procs, At(r, "looping")' PROVE At(r, "looping") /\ task'[r] = task[r]
      BY <3>6, FrameOthers DEF At, Active
    <3>7. ASSUME NEW t \in Original(Msg(q)) PROVE turns'[t].size = 0
      <4>1. t \in Turns /\ turns[t].size = 0 /\ (At(p, "looping") => task[p].turn # t)
        BY <3>3, <3>7 DEF FreshAt, Original
      <4>2. QED BY <4>1 DEF RepliesKept
    <3>8. QED BY <3>3, <3>5, <3>6, <3>7 DEF FreshAt
  <2>3. QED BY <2>1, <2>2
<1>3. QED BY <1>1, <1>2 DEF LoopsAlone, At

\* A stake is in a turn that exists.
LEMMA StakeExists ==
  ASSUME Types, WorkInv, RefInv, NEW f \in Events, NEW t \in Nat, t # 0, Stake(f, t)
  PROVE  t \in Turns
<1>1. RowRefAt(f) BY DEF RefInv, RowRefs
<1>2. CASE row[f].reply = t \/ row[f].link = t
  BY <1>1, <1>2 DEF RowRefAt, TurnOf
<1>3. CASE \E p \in Procs : On(p, f) /\ task[p].turn = t
  BY <1>3 DEF On, RefInv, TaskRefs, TaskRefAt, TurnOf
<1>4. QED BY <1>2, <1>3 DEF Stake

\* A step of p on e leaves the stakes of the other events.
LEMMA FrameStake ==
  ASSUME NEW p \in Procs, NEW e \in Events, Frame(p, e), NEW f \in Events \ {e}, NEW t
  PROVE  Stake(f, t)' <=> Stake(f, t)
<1>1. row'[f] = row[f] BY DEF Frame
<1>2. \A q \in Procs : On(q, f)' <=> On(q, f)
  BY DEF Frame, On, Active, At, Ev
<1>3. \A q \in Procs : On(q, f) => task'[q] = task[q]
  BY DEF Frame, On
<1>4. QED BY <1>1, <1>2, <1>3 DEF Stake, Plain

\* Nobody but the event whose loop runs has a stake in its turn.
LEMMA LoopNoStake ==
  ASSUME Types, WorkInv, RefInv, NEW p \in Procs, At(p, "looping"), NEW f \in Events, f # Ev(p)
  PROVE  ~Stake(f, task[p].turn)
<1>1. LoopAt(p) /\ Active(p) BY DEF RefInv, LoopsAlone, Active, At
<1>2. task[p].turn # 0
  BY <1>1 DEF RefInv, TaskRefs, TaskRefAt, At, Before
<1>3. row[f].reply # task[p].turn
  BY <1>1, <1>2 DEF RefInv, RowRefs, RowRefAt, LoopAt
<1>4. \A q \in Procs : On(q, f) => task[q].turn # task[p].turn
  BY <1>1 DEF On, LoopAt
<1>5. row[f].link # task[p].turn BY <1>1 DEF LoopAt
<1>6. QED BY <1>3, <1>4, <1>5 DEF Stake

\* The parts of StakeInv that a step leaves to show.
LEMMA FrameOneStake ==
  ASSUME Types, WorkInv, RefInv, OneStake, NEW p \in Procs, NEW e \in Events, Frame(p, e),
         turns' \in Seq(UserRows),
         \A t \in Turns : turns'[t] = turns[t] \/ (At(p, "looping") /\ t = task[p].turn),
         \A t \in 1..Len(turns') :
           (turns'[t].size > 0 /\ Stake(e, t)') =>
              \/ Stake(e, t) \/ t \in taken'
              \/ \A f \in Events \ {e} : ~Stake(f, t)
  PROVE  OneStake'
<1>1. SUFFICES ASSUME NEW t \in 1..Len(turns'), t \notin taken', turns'[t].size > 0,
                      NEW g \in Events, NEW h \in Events, Stake(g, t)', Stake(h, t)', g # h, h # e
               PROVE  FALSE
  BY DEF OneStake, Turns
<1>2. t \in Nat /\ t # 0 /\ t \notin taken BY <1>1 DEF Frame
<1>3. Stake(h, t) BY <1>1, FrameStake
<1>4. t \in Turns BY <1>2, <1>3, StakeExists
<1>5. Stake(g, t)
  <2>1. CASE g # e BY <1>1, <2>1, FrameStake
  <2>2. CASE g = e BY <1>1, <1>3, <2>2
  <2>3. QED BY <2>1, <2>2
<1>6. turns[t].size > 0
  <2>1. CASE turns'[t] = turns[t] BY <1>1, <2>1
  <2>2. CASE At(p, "looping") /\ t = task[p].turn
    <3>1. Ev(p) = e BY <2>2 DEF Frame, Active, At
    <3>2. QED BY <1>1, <1>3, <2>2, <3>1, LoopNoStake
  <2>3. QED BY <1>4, <2>1, <2>2
<1>7. QED BY <1>1, <1>2, <1>3, <1>4, <1>5, <1>6 DEF OneStake

\* What is counted on another row stays.
LEMMA FrameCounted ==
  ASSUME NEW p \in Procs, NEW e \in Events, Frame(p, e), NEW f \in Events \ {e}, NEW t, NEW i,
         CountedOn(f, t, i)
  PROVE  CountedOn(f, t, i)'
<1>1. row'[f] = row[f] BY DEF Frame
<1>2. ASSUME NEW q \in Procs, On(q, f) PROVE On(q, f)' /\ task'[q] = task[q]
  BY <1>2 DEF Frame, On, Active, At, Ev
<1>3. Counting(f, t, i) => Counting(f, t, i)'
  BY <1>2 DEF Counting, At
<1>4. QED BY <1>1, <1>3 DEF CountedOn

LEMMA FrameAcked ==
  ASSUME AckedCounted, NEW p \in Procs, NEW e \in Events, Frame(p, e),
         \A t \in Nat, i \in Nat : <<t, i>> \in acked' \ acked =>
            t \in Turns /\ CountedOn(e, t, i)',
         \A t \in Turns, i \in Nat : CountedOn(e, t, i) => CountedOn(e, t, i)'
  PROVE  AckedCounted'
<1>1. SUFFICES ASSUME NEW t \in Nat, NEW i \in Nat, <<t, i>> \in acked', <<t, i>> \notin torn'
               PROVE  t \in Turns' /\ \E f \in Events : CountedOn(f, t, i)'
  BY DEF AckedCounted
<1>2. \A u \in Turns : u \in Turns' BY DEF Turns, Frame, TurnsGrow
<1>3. CASE <<t, i>> \notin acked BY <1>1, <1>2, <1>3
<1>4. CASE <<t, i>> \in acked
  <2>1. <<t, i>> \in acked \ torn BY <1>1, <1>4 DEF Frame
  <2>2. t \in Turns BY <2>1 DEF AckedCounted
  <2>3. PICK f \in Events : CountedOn(f, t, i) BY <2>1 DEF AckedCounted
  <2>4. CountedOn(f, t, i)'
    <3>1. CASE f = e BY <2>2, <2>3, <3>1
    <3>2. CASE f # e BY <2>3, <3>2, FrameCounted
    <3>3. QED BY <3>1, <3>2
  <2>5. QED BY <1>2, <2>2, <2>4
<1>5. QED BY <1>3, <1>4

\* An answer, once given, stays.
LEMMA AnswerStays ==
  ASSUME TurnsGrow, acked \subseteq acked', NEW m, Answered(m)
  PROVE  Answered(m)'
<1>1. PICK t \in Turns : turns[t].msg = m /\ Said(t) /\ \A i \in 1..turns[t].size : <<t, i>> \in acked
  BY DEF Answered
<1>2. t \in Turns' /\ turns'[t] = turns[t] BY <1>1 DEF TurnsGrow, Turns
<1>3. Said(t)' BY <1>1, <1>2 DEF Said
<1>4. QED BY <1>1, <1>2, <1>3 DEF Answered

\* So does what somebody owes, if e goes on owing it or has answered.
LEMMA FrameResolved ==
  ASSUME NEW p \in Procs, NEW e \in Events, Frame(p, e),
         Owes(e) => Owes(e)' \/ Answered(carries[e])'
  PROVE  /\ \A h \in Events \ {e} : Owes(h) => Owes(h)'
         /\ \A m : Resolved(m) => Resolved(m)'
<1>1. carries' = carries /\ TurnsGrow /\ acked \subseteq acked' BY DEF Frame
<1>2. ASSUME NEW h \in Events \ {e}, Owes(h) PROVE Owes(h)'
  <2>1. row'[h] = row[h] BY DEF Frame
  <2>2. \A q \in Procs : On(q, h)' => On(q, h) /\ task'[q] = task[q]
    BY DEF Frame, On, Active, At, Ev
  <2>3. QED BY <1>2, <2>1, <2>2 DEF Owes, Plain
<1>3. ASSUME NEW m, Resolved(m) PROVE Resolved(m)'
  <2>1. CASE Answered(m) BY <1>1, <2>1, AnswerStays DEF Resolved
  <2>2. CASE \E h \in Events : carries[h] = m /\ Owes(h)
    <3>1. PICK h \in Events : carries[h] = m /\ Owes(h) BY <2>2
    <3>2. PICK c : c = carries[e] OBVIOUS
    <3>3. Owes(e) => Owes(e)' \/ Answered(c)' BY <1>1, <3>2 DEF Answered
    <3>4. Owes(h)' \/ Answered(m)' BY <1>2, <3>1, <3>2, <3>3
    <3>5. QED BY <1>1, <3>1, <3>4 DEF Resolved
  <2>3. QED BY <1>3, <2>1, <2>2 DEF Resolved
<1>4. QED BY <1>2, <1>3

\* The parts of AnswerInv that a step leaves to show.
LEMMA FrameSiblings ==
  ASSUME SiblingAnswers, NEW p \in Procs, NEW e \in Events, Frame(p, e),
         \A f \in Events : row[f].link # 0 => turns'[row[f].link] = turns[row[f].link],
         \A m : Resolved(m) => Resolved(m)',
         NEW m, m = carries[e],
         (row'[e].deliv = "delivered" /\ row'[e].link # 0 /\ (Said(row[e].link))') => Resolved(m)'
  PROVE  SiblingAnswers'
<1>1. carries' = carries BY DEF Frame
<1>2. SUFFICES ASSUME NEW g \in Events, row'[g].link # 0, (Said(row[g].link))', row'[g].deliv = "delivered",
                      NEW c, c = carries[g]
               PROVE  Resolved(c)'
  BY <1>1 DEF SiblingAnswers, Resolved, Answered
<1>3. CASE g = e BY <1>2, <1>3
<1>4. CASE g # e
  <2>1. row'[g] = row[g] BY <1>4 DEF Frame
  <2>2. Said(row[g].link) BY <1>2, <2>1 DEF Said
  <2>3. Resolved(c) BY <1>2, <2>1, <2>2 DEF SiblingAnswers
  <2>4. QED BY <2>3
<1>5. QED BY <1>3, <1>4

LEMMA FrameCutShort ==
  ASSUME CutShort, NEW p \in Procs, NEW e \in Events, Frame(p, e),
         \A m : Resolved(m) => Resolved(m)',
         \A t \in 1..Len(turns') : t \in Turns \/ (turns'[t].msg = carries[e] /\ Reruns(e, t)'),
         NEW c, c = carries[e],
         \A t \in Turns :
           (Reruns(e, t) /\ c = turns[t].msg /\ IsKeyed(t) /\ ~Said(t)') => Reruns(e, t)' \/ Resolved(c)'
  PROVE  CutShort'
<1>1. carries' = carries /\ TurnsGrow BY DEF Frame
<1>2. SUFFICES ASSUME NEW t \in 1..Len(turns'), IsKeyed(t)', ~Said(t)', NEW m, m = turns'[t].msg
               PROVE  Resolved(m)' \/ \E r \in Events : carries[r] = m /\ Reruns(r, t)'
  BY <1>1 DEF CutShort, Turns, Resolved, Answered
<1>3. CASE t \notin Turns BY <1>2, <1>3
<1>4. CASE t \in Turns
  <2>1. IsKeyed(t) /\ ~Said(t) /\ turns[t].msg = m
    BY <1>1, <1>2, <1>4 DEF TurnsGrow, IsKeyed, Said
  <2>2. CASE Resolved(m) BY <2>2
  <2>3. ASSUME NEW r \in Events, carries[r] = m, Reruns(r, t) PROVE Resolved(m)' \/ Reruns(r, t)'
    <3>1. CASE r = e BY <1>2, <1>4, <2>1, <2>3, <3>1
    <3>2. CASE r # e
      <4>1. row'[r] = row[r] BY <3>2 DEF Frame
      <4>2. \A q \in Procs : On(q, r)' => On(q, r) /\ task'[q] = task[q]
        BY <3>2 DEF Frame, On, Active, At, Ev
      <4>3. QED BY <2>3, <4>1, <4>2 DEF Reruns, At
    <3>3. QED BY <3>1, <3>2
  <2>4. Resolved(m) \/ \E r \in Events : carries[r] = m /\ Reruns(r, t)
    BY <1>4, <2>1 DEF CutShort
  <2>5. QED BY <2>2, <2>3, <2>4
<1>5. QED BY <1>3, <1>4

\* h is not on record as delivered, or names another turn's reply.
Open(h) == row[h].proc # "none" /\ (row[h].deliv # "delivered" \/ ~Plain(h))

\* A message is answered when no event of it is left to deliver.
LEMMA FrameAnswered ==
  ASSUME DeliveredMeansAnswered, NEW p \in Procs, NEW e \in Events, Frame(p, e),
         row'[e].proc # "none", NEW c, c = carries[e],
         \/ ~(row'[e].proc = "processed" /\ row'[e].deliv = "delivered" /\ Plain(e)')
         \/ Answered(c)'
         \/ \E h \in Events \ {e} : carries[h] = c /\ Open(h)
  PROVE  DeliveredMeansAnswered'
<1>1. carries' = carries /\ TurnsGrow /\ acked \subseteq acked' BY DEF Frame
<1> DEFINE All(g) == /\ row'[g].proc # "none"
                     /\ \A f \in Events : (carries[f] = carries[g] /\ row'[f].proc # "none") =>
                           row'[f].proc = "processed" /\ row'[f].deliv = "delivered" /\ Plain(f)'
<1>2. \A f \in Events \ {e} : row'[f] = row[f] /\ (Plain(f)' <=> Plain(f)) BY DEF Frame, Plain
<1>3. ASSUME NEW g \in Events, All(g), NEW m, m = carries[g] PROVE Answered(m)'
  <2>1. CASE m = c
    <3>1. row'[e].proc = "processed" /\ row'[e].deliv = "delivered" /\ Plain(e)' BY <1>3, <2>1
    <3>2. \A h \in Events \ {e} : carries[h] = c => ~Open(h)
      BY <1>2, <1>3, <2>1 DEF Open
    <3>3. QED BY <2>1, <3>1, <3>2
  <2>2. CASE m # c
    <3>1. g # e BY <1>3, <2>2
    <3>2. \A f \in Events : carries[f] = m => row'[f] = row[f] /\ (Plain(f)' <=> Plain(f))
      BY <1>2, <2>2
    <3>3. Answered(m)
      BY <1>3, <3>1, <3>2 DEF DeliveredMeansAnswered, Answered, Plain
    <3>4. QED BY <1>1, <3>3, AnswerStays
  <2>3. QED BY <2>1, <2>2
<1>4. QED BY <1>1, <1>3 DEF DeliveredMeansAnswered, Answered, Plain, Said, Turns

-----------------------------------------------------------------------------
(* Types.                                                                   *)

\* The values that a step puts into the rows and the tasks.
LEMMA RowTypes ==
  ASSUME NEW r \in Rows, NEW fatal \in BOOLEAN
  PROVE  /\ Delivered(r) \in Rows /\ Deferred(r) \in Rows
         /\ ProcessingFailed(r, fatal) \in Rows /\ DeliveryFailed(r, fatal) \in Rows
         /\ \A b \in BOOLEAN : /\ [[r EXCEPT !.proc = "processed"] EXCEPT !.payload = b] \in Rows
                               /\ [r EXCEPT !.payload = b] \in Rows
                               /\ [r EXCEPT !.old = b] \in Rows
         /\ \A n \in Nat : /\ [r EXCEPT !.count = n] \in Rows
                           /\ [r EXCEPT !.reply = n] \in Rows
                           /\ [r EXCEPT !.link = n] \in Rows
                           /\ [[r EXCEPT !.proc = "failed"] EXCEPT !.left = n] \in Rows
                           /\ [[r EXCEPT !.deliv = "failed"] EXCEPT !.dleft = n] \in Rows
         /\ [r EXCEPT !.proc = "processed"] \in Rows
         /\ [r EXCEPT !.proc = "pending"] \in Rows
         /\ [r EXCEPT !.proc = "failed"] \in Rows
         /\ [r EXCEPT !.deliv = "failed"] \in Rows
<1>1. /\ Delivered(r) \in Rows /\ Deferred(r) \in Rows
      /\ [r EXCEPT !.proc = "processed"] \in Rows
      /\ [r EXCEPT !.proc = "pending"] \in Rows
      /\ [r EXCEPT !.proc = "failed"] \in Rows
      /\ [r EXCEPT !.deliv = "failed"] \in Rows
  BY DEF Rows, Delivered, Deferred
<1>2. \A b \in BOOLEAN : /\ [r EXCEPT !.payload = b] \in Rows
                         /\ [r EXCEPT !.old = b] \in Rows
  BY DEF Rows
<1>3. \A b \in BOOLEAN : [[r EXCEPT !.proc = "processed"] EXCEPT !.payload = b] \in Rows
  BY DEF Rows
<1>4. \A n \in Nat : /\ [r EXCEPT !.count = n] \in Rows
                     /\ [r EXCEPT !.reply = n] \in Rows
                     /\ [r EXCEPT !.link = n] \in Rows
  BY DEF Rows
<1>5. \A n \in Nat : /\ [[r EXCEPT !.proc = "failed"] EXCEPT !.left = n] \in Rows
                     /\ [[r EXCEPT !.deliv = "failed"] EXCEPT !.dleft = n] \in Rows
  <2>1. \A n \in Nat, k \in Rows : [k EXCEPT !.left = n] \in Rows /\ [k EXCEPT !.dleft = n] \in Rows
    BY DEF Rows
  <2>2. QED BY <1>1, <2>1
<1>6. Charge(r.left, fatal) \in Int /\ Charge(r.dleft, fatal) \in Int
  BY DEF Rows, Charge
<1>7. ProcessingFailed(r, fatal) \in Rows
  <2>1. \A n \in Int, v \in {"dead_letter", "failed"} : [r EXCEPT !.left = n, !.proc = v] \in Rows
    BY DEF Rows
  <2>2. QED BY <1>6, <2>1 DEF ProcessingFailed
<1>8. DeliveryFailed(r, fatal) \in Rows
  <2>1. \A n \in Int, v \in {"dead_letter", "failed"} : [r EXCEPT !.dleft = n, !.deliv = v] \in Rows
    BY DEF Rows
  <2>2. QED BY <1>6, <2>1 DEF DeliveryFailed
<1>9. QED BY <1>1, <1>2, <1>3, <1>4, <1>5, <1>7, <1>8

LEMMA TaskTypes ==
  ASSUME NEW k \in Works
  PROVE  /\ \A a \in Stages : [k EXCEPT !.at = a] \in Works
         /\ [k EXCEPT !.fresh = TRUE] \in Works
         /\ \A n \in Nat :
              /\ [k EXCEPT !.at = "bookkeeping", !.turn = n, !.dedup = TRUE] \in Works
              /\ [k EXCEPT !.at = "bookkeeping", !.reply = n] \in Works
              /\ [k EXCEPT !.at = "posting", !.seg = n] \in Works
         /\ [k EXCEPT !.at = "posting", !.seg = @ + 1] \in Works
         /\ k.write # 3 => [k EXCEPT !.write = @ + 1] \in Works
<1>1. \A a \in Stages : [k EXCEPT !.at = a] \in Works
  BY DEF Works
<1>2. [k EXCEPT !.fresh = TRUE] \in Works
  BY DEF Works
<1>3. \A n \in Nat : [k EXCEPT !.at = "bookkeeping", !.turn = n, !.dedup = TRUE] \in Works
  BY DEF Works, Stages
<1>4. \A n \in Nat : [k EXCEPT !.at = "bookkeeping", !.reply = n] \in Works
  BY DEF Works, Stages
<1>5. \A n \in Nat : [k EXCEPT !.at = "posting", !.seg = n] \in Works
  BY DEF Works, Stages, Posting
<1>6. [k EXCEPT !.at = "posting", !.seg = @ + 1] \in Works
  <2>1. k.seg + 1 \in Nat BY DEF Works
  <2>2. QED BY <1>5, <2>1
<1>7. k.write # 3 => [k EXCEPT !.write = @ + 1] \in Works
  <2>1. \A w \in 1..3 : [k EXCEPT !.write = w] \in Works BY DEF Works
  <2>2. k.write \in 1..3 BY DEF Works
  <2>3. k.write # 3 => k.write + 1 \in 1..3 BY <2>2
  <2>4. QED BY <2>1, <2>3
<1>8. QED BY <1>1, <1>2, <1>3, <1>4, <1>5, <1>6, <1>7

LEMMA NewWork ==
  ASSUME NEW e \in Events
  PROVE  /\ \A a \in Stages : Work(a, e) \in Works
         /\ \A n \in Nat : [Work("looping", e) EXCEPT !.turn = n] \in Works
         /\ \A n \in Nat, m \in Nat :
              [Work("posting", e) EXCEPT !.turn = n, !.seg = m] \in Works
<1>1. \A a \in Stages : Work(a, e) \in Works BY DEF Work, Works
<1>2. Work("posting", e) \in Works /\ Work("looping", e) \in Works BY <1>1 DEF Stages, Posting
<1>3. ASSUME NEW k \in Works, NEW n \in Nat, NEW m \in Nat
      PROVE  [k EXCEPT !.turn = n] \in Works /\ [k EXCEPT !.turn = n, !.seg = m] \in Works
  BY DEF Works
<1>4. QED BY <1>1, <1>2, <1>3

LEMMA InitTypes == Init => Types
<1> SUFFICES ASSUME Init PROVE Types OBVIOUS
<1>1. NoRow \in Rows BY DeliveryAssumption DEF NoRow, Rows
<1>2. turns \in Seq(UserRows) BY DEF Init
<1>3. QED BY <1>1, <1>2 DEF Init, Types

-----------------------------------------------------------------------------
(* What a step does.                                                       *)

\* A write to the row of e and a change of the work of p.
Changes(p, e, k, r) ==
  /\ row' = [row EXCEPT ![e] = r]
  /\ task' = [task EXCEPT ![p] = k]
  /\ carries' = carries

LEMMA ChangeFrame ==
  ASSUME Types, NEW p \in Procs, NEW e \in Events, NEW k \in Works \cup {NoTask}, NEW r \in Rows,
         Changes(p, e, k, r),
         Active(p) => Ev(p) = e, \A q \in Procs \ {p} : ~On(q, e), k # NoTask => k.ev = e,
         TurnsGrow, turns' \in Seq(UserRows),
         acked \subseteq acked', acked' \subseteq Nat \X Nat, taken \subseteq taken', torn \subseteq torn',
         replays' \subseteq replays \ {e},
         redeliver' \subseteq redeliver, \A s \in redeliver' : s.ev # e
  PROVE  Types' /\ Frame(p, e) /\ row'[e] = r /\ task'[p] = k
<1>1. /\ row' \in [Events -> Rows] /\ row'[e] = r
      /\ \A f \in Events \ {e} : row'[f] = row[f]
  BY DEF Types, Changes
<1>2. /\ task' \in [Procs -> Works \cup {NoTask}] /\ task'[p] = k
      /\ \A q \in Procs \ {p} : task'[q] = task[q]
  BY DEF Types, Changes
<1>3. carries' \in Messages /\ carries' = carries BY DEF Types, Changes
<1>4. Types' BY <1>1, <1>2, <1>3 DEF Types
<1>5. Active(p)' => Ev(p)' = e BY <1>2 DEF Active, At, Ev, NoTask
<1>6. QED BY <1>1, <1>2, <1>3, <1>4, <1>5 DEF Frame

LEMMA SameTurnsGrow ==
  ASSUME turns' = turns PROVE TurnsGrow
BY DEF TurnsGrow, Turns

\* A step of a process that is at work on e.
LEMMA WorkStep ==
  ASSUME Types, WorkInv, NEW p \in Procs, NEW e \in Events, Active(p), e = Ev(p),
         NEW k \in Works \cup {NoTask}, NEW r \in Rows, k # NoTask => k.ev = e,
         Changes(p, e, k, r), replays' = replays, redeliver' = redeliver,
         TurnsGrow, turns' \in Seq(UserRows),
         acked \subseteq acked', acked' \subseteq Nat \X Nat, taken \subseteq taken', torn \subseteq torn'
  PROVE  /\ Types' /\ Frame(p, e) /\ row'[e] = r /\ task'[p] = k
         /\ p # Sweep => p = e
<1>1. /\ \A q \in Procs \ {p} : ~On(q, e)
      /\ e \notin replays /\ \A s \in redeliver : s.ev # e
  BY OneWorker
<1>2. p # Sweep => p = e BY Names DEF WorkInv, WorkOK, WorkAt
<1>3. Types' /\ Frame(p, e) /\ row'[e] = r /\ task'[p] = k
  BY <1>1, ChangeFrame
<1>4. QED BY <1>2, <1>3

\* Steps that leave the history and the conversation's rows alone.
Quiet == UNCHANGED <<turns, replays, redeliver, acked, taken, torn>>

LEMMA QuietStep ==
  ASSUME Types, WorkInv, NEW p \in Procs, NEW e \in Events, Active(p), e = Ev(p),
         NEW k \in Works \cup {NoTask}, NEW r \in Rows, k # NoTask => k.ev = e,
         Changes(p, e, k, r), Quiet
  PROVE  /\ Types' /\ Frame(p, e) /\ row'[e] = r /\ task'[p] = k
         /\ p # Sweep => p = e
<1>1. TurnsGrow BY SameTurnsGrow DEF Quiet
<1>2. /\ turns' \in Seq(UserRows) /\ acked \subseteq acked' /\ acked' \subseteq Nat \X Nat
      /\ taken \subseteq taken' /\ torn \subseteq torn' /\ replays' = replays /\ redeliver' = redeliver
  BY DEF Types, Quiet
<1>3. QED BY <1>1, <1>2, WorkStep

-----------------------------------------------------------------------------
(* Steps that end the work on an event.                                    *)

\* The row that they leave: only the two statuses and the budgets change.
EndRow(p, e, r) ==
  /\ r.reply = row[e].reply /\ r.link = row[e].link
  /\ r.count = row[e].count /\ r.old = row[e].old
  /\ r.proc # "none" /\ (row[e].proc = "processed" => r.proc = "processed")
  /\ \/ r.deliv = row[e].deliv
     \/ r.deliv = "delivered" /\ Marked(p)
     \/ r.deliv \in {"failed", "dead_letter"} /\ task[p].at \in Posting

\* A settled row has its answer, or names another turn's, or has a sibling that
\* answers for it, or one that is not settled if the turn was cut off.
EndAnswer(p, e, r) ==
  r.deliv = "delivered" =>
    \/ Answered(carries[e])
    \/ task[p].at \in Posting /\ ~Plain(e)
    \/ /\ ~Owes(e) /\ \A t : ~Reruns(e, t)
       /\ \E h \in Events \ {e} :
            /\ carries[h] = carries[e]
            /\ \/ Owes(h)
               \/ ~Said(row[e].link) /\ row[h].proc # "none" /\ row[h].deliv # "delivered"

LEMMA EndsKeep ==
  ASSUME IInv, NEW p \in Procs, NEW e \in Events, Active(p), e = Ev(p),
         NEW r \in Rows, Changes(p, e, NoTask, r), Quiet, lock' = lock,
         ~At(p, "looping"), ~At(p, "acknowledged"),
         EndRow(p, e, r), EndAnswer(p, e, r)
  PROVE  IInv'
<1>1. /\ Types /\ WorkInv /\ RefInv /\ StakeInv /\ AnswerInv /\ SiblingAnswers /\ CutShort
      /\ DeliveredMeansAnswered
  BY DEF IInv, AnswerInv
<1>2. /\ Types' /\ Frame(p, e) /\ row'[e] = r /\ task'[p] = NoTask
      /\ p # Sweep => p = e
  BY <1>1, QuietStep
<1>3. ~Active(p)' /\ ~At(p, "looping")' /\ ~At(p, "processing")'
  BY <1>2 DEF Active, At, NoTask
<1>4. /\ WorkAt(p) /\ MarkedAt(e) /\ RowRefAt(e) /\ TaskRefAt(p) /\ task[p] \in Works
      /\ KeyedOnce /\ row[e].deliv # "delivered" /\ row[e] \in Rows
  BY <1>1, OneWorker
     DEF WorkInv, RefInv, MarkedFirst, RowRefs, TaskRefs, WorkOK, WorkAt, Types
<1>5. turns' = turns /\ acked' = acked /\ carries' = carries /\ taken' = taken
  BY DEF Quiet, Changes
<1>6. Plain(e)' <=> Plain(e) BY <1>2 DEF Plain, EndRow
<1>7. MarkedAt(e)'
  <2>1. row[e].deliv # "pending" => row[e].proc = "processed" BY <1>4 DEF MarkedAt
  <2>2. (r.deliv # "pending" \/ r.count # 0) => r.proc = "processed"
    <3>1. Marked(p) => row[e].proc = "processed" BY <1>4 DEF WorkAt
    <3>2. task[p].at \in Posting => Marked(p) BY DEF Marked
    <3>3. QED BY <1>4, <3>1, <3>2 DEF EndRow, MarkedAt
  <2>3. r.proc # "none" BY DEF EndRow
  <2>4. QED BY <1>2, <2>2, <2>3 DEF MarkedAt
<1>8. LoopHoldsLock'
  BY <1>1, <1>2, <1>3 DEF LoopHoldsLock, Frame, At, WorkInv
<1>9. WorkInv' BY <1>1, <1>2, <1>3, <1>7, <1>8, FrameWork
<1>10. RepliesKept(p) BY <1>5 DEF RepliesKept
<1>11. RefInv'
  <2>1. KeyedOnce' BY <1>4, <1>5 DEF KeyedOnce, Turns, IsKeyed
  <2>2. RowRefAt(e)'
    BY <1>2, <1>4, <1>5 DEF RowRefAt, EndRow, TurnOf, IsKeyed, Shared, Said, Turns
  <2>3. \A q \in Procs \ {p} : At(q, "looping") => row'[e].link # task[q].turn
    BY <1>1, <1>2 DEF RefInv, LoopsAlone, LoopAt, EndRow
  <2>4. LoopsAlone' BY <1>1, <1>2, <1>3, <1>10, <2>3, FrameLoops
  <2>5. QED BY <1>1, <1>2, <1>3, <2>1, <2>2, <2>4, FrameRefs
<1>12. \A q \in Procs : ~On(q, e)'
  BY <1>2, <1>3 DEF Frame, On, Active, At, Ev
<1>13. StakeInv'
  <2>1. ASSUME NEW t \in 1..Len(turns'), Stake(e, t)' PROVE Stake(e, t)
    <3>1. \/ r.reply = t
          \/ r.link = t /\ ~Plain(e)'
          \/ /\ r.proc = "processed" /\ r.link = t
             /\ r.count # 0 \/ r.deliv \in {"failed", "dead_letter"}
      BY <1>2, <1>12, <2>1 DEF Stake
    <3>2. CASE r.reply = t BY <3>2 DEF Stake, EndRow
    <3>3. CASE r.link = t /\ ~Plain(e) BY <3>3 DEF Stake, EndRow
    <3>4. CASE /\ r.link = t /\ Plain(e)
               /\ r.count # 0 \/ r.deliv \in {"failed", "dead_letter"}
      <4>1. CASE task[p].at \in Posting
        <5>1. task[p].turn # 0 BY <1>4, <4>1 DEF TaskRefAt, Posting, Before
        <5>2. task[p].turn = t BY <1>4, <3>4, <4>1, <5>1 DEF TaskRefAt, EndRow, Plain
        <5>3. QED BY <4>1, <5>2 DEF Stake, On
      <4>2. CASE task[p].at \notin Posting
        <5>1. row[e].count # 0 \/ row[e].deliv \in {"failed", "dead_letter"}
          BY <3>4, <4>2 DEF EndRow
        <5>2. row[e].proc = "processed" BY <1>4, <5>1 DEF MarkedAt
        <5>3. QED BY <3>4, <5>1, <5>2 DEF Stake, EndRow
      <4>3. QED BY <4>1, <4>2
    <3>5. QED BY <1>6, <3>1, <3>2, <3>3, <3>4
  <2>2. OneStake' BY <1>1, <1>2, <1>5, <2>1, FrameOneStake DEF StakeInv, Types
  <2>3. ASSUME NEW t, NEW i, CountedOn(e, t, i) PROVE CountedOn(e, t, i)'
    <3>1. ~Counting(e, t, i)
      BY <1>2 DEF Counting, Frame
    <3>2. QED BY <1>2, <2>3, <3>1 DEF CountedOn, EndRow
  <2>4. AckedCounted' BY <1>1, <1>2, <1>5, <2>3, FrameAcked DEF StakeInv
  <2>5. QED BY <2>2, <2>4 DEF StakeInv
<1>14. AnswerInv'
  <2>1. CountedAcked'
    <3>1. SUFFICES ASSUME NEW f \in Events, Plain(f)' PROVE \A i \in 1..row'[f].count : <<row'[f].link, i>> \in acked
      BY <1>5 DEF CountedAcked
    <3>2. Plain(f) /\ row'[f].count = row[f].count /\ row'[f].link = row[f].link
      BY <1>2, <1>6, <3>1 DEF Frame, EndRow, Plain
    <3>3. QED BY <1>1, <3>2 DEF AnswerInv, CountedAcked
  <2>2. PICK c : c = carries[e] OBVIOUS
  <2>3. (Answered(c)' <=> Answered(c)) /\ Answered(carries[e])' = Answered(c)'
    BY <1>5, <2>2 DEF Answered, Turns, Said
  <2>4. (r.deliv # "delivered" \/ (task[p].at \in Posting /\ ~Plain(e))) => (Owes(e) => Owes(e)')
    BY <1>2, <1>6, <1>12 DEF Owes, EndRow, On
  <2>5. (task[p].at \in Posting /\ ~Plain(e)) => Owes(e)'
    <3>1. task[p].at \in Posting => r.proc = "processed"
      BY <1>4 DEF WorkAt, Marked, EndRow
    <3>2. QED BY <1>2, <1>6, <1>12, <3>1 DEF Owes
  <2>6. Owes(e) => Owes(e)' \/ Answered(carries[e])'
    BY <2>2, <2>3, <2>4 DEF EndAnswer
  <2>7. (\A h \in Events \ {e} : Owes(h) => Owes(h)') /\ \A m : Resolved(m) => Resolved(m)'
    BY <1>2, <2>6, FrameResolved
  <2>8. /\ Answered(c) => Resolved(c)'
        /\ Owes(e)' => Resolved(c)'
        /\ (\E h \in Events \ {e} : carries[h] = c /\ Owes(h)) => Resolved(c)'
    BY <1>5, <2>2, <2>3, <2>7 DEF Resolved
  <2>9. SiblingAnswers'
    <3>1. (row'[e].deliv = "delivered" /\ row'[e].link # 0 /\ (Said(row[e].link))') => Resolved(c)'
      <4>1. SUFFICES ASSUME r.deliv = "delivered", Said(row[e].link) PROVE Resolved(c)'
        BY <1>2, <1>5 DEF EndRow, Said
      <4>2. QED BY <2>2, <2>5, <2>8, <4>1 DEF EndAnswer
    <3>2. \A f \in Events : row[f].link # 0 => turns'[row[f].link] = turns[row[f].link] BY <1>5
    <3>3. QED BY <1>1, <1>2, <2>2, <2>7, <3>1, <3>2, FrameSiblings
  <2>10. CutShort'
    <3>1. ASSUME NEW t \in Turns, Reruns(e, t) PROVE Reruns(e, t)' \/ Resolved(c)'
      <4>1. CASE r.deliv = "delivered"
        BY <2>2, <2>5, <2>8, <3>1, <4>1 DEF EndAnswer
      <4>2. CASE r.deliv # "delivered"
        BY <1>2, <1>12, <3>1, <4>2 DEF Reruns, EndRow
      <4>3. QED BY <4>1, <4>2
    <3>2. \A t \in 1..Len(turns') : t \in Turns BY <1>5 DEF Turns
    <3>3. QED BY <1>1, <1>2, <2>2, <2>7, <3>1, <3>2, FrameCutShort
  <2>11. DeliveredMeansAnswered'
    <3>1. \/ ~(r.proc = "processed" /\ r.deliv = "delivered" /\ Plain(e)')
          \/ Answered(c)'
          \/ \E h \in Events \ {e} : carries[h] = c /\ Open(h)
      <4>1. \A h \in Events : Owes(h) => Open(h) BY DEF Owes, Open
      <4>2. \A h \in Events : (row[h].proc # "none" /\ row[h].deliv # "delivered") => Open(h)
        BY DEF Open
      <4>3. QED BY <1>6, <2>2, <2>3, <4>1, <4>2 DEF EndAnswer
    <3>2. r.proc # "none" BY DEF EndRow
    <3>3. QED BY <1>1, <1>2, <2>2, <3>1, <3>2, FrameAnswered
  <2>12. QED BY <2>1, <2>9, <2>10, <2>11 DEF AnswerInv
<1>15. QED BY <1>2, <1>9, <1>11, <1>13, <1>14 DEF IInv

\* The process whose step it is.
LEMMA AtWork ==
  ASSUME Types, WorkInv, NEW p \in Procs, NEW e \in Events, Active(p), e = Ev(p)
  PROVE  /\ task[p] \in Works /\ row[e] \in Rows /\ WorkAt(p) /\ task[p].ev = e
         /\ p \in Events => p = e
<1>1. task[p] \in Works BY OneWorker
<1>2. WorkAt(p) BY DEF WorkInv, WorkOK
<1>3. QED BY <1>1, <1>2 DEF Types, WorkAt, Ev

LEMMA RefuseKeeps ==
  ASSUME IInv, NEW e \in Events, Refuse(e)
  PROVE  IInv'
<1>1. Types /\ WorkInv BY DEF IInv
<1>2. e \in Procs /\ e # Sweep BY Names
<1>3. Active(e) /\ ~At(e, "looping") /\ ~At(e, "acknowledged") BY DEF Refuse, Active, At
<1>4. e = Ev(e) BY <1>1, <1>2, <1>3 DEF WorkInv, WorkOK, WorkAt
<1>5. PICK r \in Rows : r = [[row[e] EXCEPT !.proc = "processed"] EXCEPT !.payload = FALSE]
  BY <1>1, RowTypes DEF Types
<1>6. Changes(e, e, NoTask, r) /\ Quiet /\ lock' = lock
  BY <1>1, <1>5 DEF Refuse, Goes, Changes, Quiet, Types, history
<1>7. row[e] \in Rows /\ row[e].deliv # "delivered"
  BY <1>1, <1>2, <1>3, <1>4 DEF Types, WorkInv, WorkOK, WorkAt
<1>8. EndRow(e, e, r) BY <1>5, <1>7 DEF EndRow, Rows
<1>9. EndAnswer(e, e, r) BY <1>5, <1>7 DEF EndAnswer, Rows
<1>10. QED BY <1>2, <1>3, <1>4, <1>6, <1>8, <1>9, EndsKeep

LEMMA InterceptKeeps ==
  ASSUME IInv, NEW e \in Events, Intercept(e)
  PROVE  IInv'
<1>1. Types /\ WorkInv BY DEF IInv
<1>2. e \in Procs /\ e # Sweep BY Names
<1>3. Active(e) /\ ~At(e, "looping") /\ ~At(e, "acknowledged") BY DEF Intercept, Active, At
<1>4. e = Ev(e) BY <1>1, <1>2, <1>3 DEF WorkInv, WorkOK, WorkAt
<1>5. PICK r \in Rows : r = row[e] BY <1>1 DEF Types
<1>6. Changes(e, e, NoTask, r) /\ Quiet /\ lock' = lock
  BY <1>1, <1>5 DEF Intercept, Goes, Changes, Quiet, Types, rowVars
<1>7. WorkAt(e) BY <1>1, <1>2, <1>3, <1>4, AtWork
<1>8. row[e].deliv # "delivered" /\ row[e].proc # "none" BY <1>4, <1>7 DEF WorkAt
<1>9. EndRow(e, e, r) BY <1>5, <1>8 DEF EndRow
<1>10. EndAnswer(e, e, r) BY <1>5, <1>8 DEF EndAnswer
<1>11. QED BY <1>2, <1>3, <1>4, <1>6, <1>9, <1>10, EndsKeep

LEMMA LosesLockKeeps ==
  ASSUME IInv, NEW p \in Procs, NEW e \in Events, e = Ev(p), LosesLock(p)
  PROVE  IInv'
<1>1. Types /\ WorkInv BY DEF IInv
<1>2. Active(p) /\ ~Marked(p) /\ ~At(p, "looping") /\ ~At(p, "acknowledged")
  BY DEF LosesLock, Active, At, Marked, Posting
<1>3. row[e] \in Rows /\ WorkAt(p) BY <1>1, <1>2, AtWork
<1>4. PICK r \in Rows : r = Deferred(row[e]) BY <1>3, RowTypes
<1>5. Changes(p, e, NoTask, r) /\ Quiet /\ lock' = lock
  BY <1>4 DEF LosesLock, Done, Changes, Quiet, history
<1>6. r.deliv = row[e].deliv /\ row[e].proc # "processed" /\ row[e].deliv # "delivered"
  BY <1>2, <1>3, <1>4 DEF WorkAt, Deferred, Rows
<1>7. EndRow(p, e, r) BY <1>3, <1>4, <1>6 DEF EndRow, Rows, Deferred
<1>8. EndAnswer(p, e, r) BY <1>6 DEF EndAnswer
<1>9. QED BY <1>2, <1>5, <1>7, <1>8, EndsKeep

\* A post fails, or its answer is lost.
LEMMA PostFailsKeeps ==
  ASSUME IInv, NEW p \in Procs, NEW e \in Events, e = Ev(p), NEW fatal \in BOOLEAN,
         PostFails(p, fatal) \/ AnswerLost(p, fatal)
  PROVE  IInv'
<1>1. Types /\ WorkInv BY DEF IInv
<1>2. /\ Active(p) /\ task[p].at \in Posting /\ Marked(p)
      /\ ~At(p, "looping") /\ ~At(p, "acknowledged")
  BY DEF PostFails, AnswerLost, Active, At, Marked, Posting
<1>3. row[e] \in Rows /\ WorkAt(p) BY <1>1, <1>2, AtWork
<1>4. PICK r \in Rows : r = DeliveryFailed(row[e], fatal) BY <1>3, RowTypes
<1>5. Changes(p, e, NoTask, r) /\ Quiet /\ lock' = lock
  BY <1>4 DEF PostFails, AnswerLost, Done, Changes, Quiet, history
<1>6. r.proc = "processed" /\ row[e].proc = "processed" /\ r.deliv \in {"failed", "dead_letter"}
  BY <1>2, <1>3, <1>4 DEF WorkAt, DeliveryFailed, Rows
<1>7. EndRow(p, e, r) BY <1>2, <1>3, <1>4, <1>6 DEF EndRow, Rows, DeliveryFailed
<1>8. EndAnswer(p, e, r) BY <1>6 DEF EndAnswer
<1>9. QED BY <1>2, <1>5, <1>7, <1>8, EndsKeep

\* All segments are counted, so they are acknowledged; a turn without an end is
\* run again by another event.
LEMMA CompleteKeeps ==
  ASSUME IInv, NEW p \in Procs, NEW e \in Events, e = Ev(p), Complete(p)
  PROVE  IInv'
<1>1. Types /\ WorkInv /\ RefInv /\ CountedAcked /\ CutShort BY DEF IInv, AnswerInv
<1>2. /\ Active(p) /\ task[p].at = "posting" /\ task[p].at \in Posting /\ Marked(p)
      /\ ~At(p, "looping") /\ ~At(p, "acknowledged")
  BY DEF Complete, Active, At, Marked, Posting
<1>3. row[e] \in Rows /\ WorkAt(p) /\ task[p] \in Works BY <1>1, <1>2, AtWork
<1>4. PICK r \in Rows : r = Delivered(row[e]) BY <1>3, RowTypes
<1>5. Changes(p, e, NoTask, r) /\ Quiet /\ lock' = lock
  BY <1>4 DEF Complete, Done, Changes, Quiet, history
<1>6. EndRow(p, e, r)
  BY <1>2, <1>3, <1>4 DEF EndRow, Rows, Delivered, WorkAt
<1>7. PICK t \in Nat : t = task[p].turn BY <1>3 DEF Works
<1>8. TaskRefAt(p) BY <1>1, <1>2 DEF RefInv, TaskRefs
<1>9. /\ t # 0 /\ t \in Turns /\ turns[t].msg = carries[e] /\ task[p].seg = row[e].count + 1
      /\ Said(t) \/ (p # Sweep /\ IsKeyed(t))
      /\ p # Sweep => row[e].reply \in {0, t}
      /\ t = row[e].link \/ (p = Sweep /\ t = row[e].reply)
  BY <1>2, <1>7, <1>8 DEF TaskRefAt, TurnOf, Before
<1>10. CASE ~Plain(e)
  BY <1>2, <1>5, <1>6, <1>10, EndsKeep DEF EndAnswer
<1>11. CASE Plain(e)
  <2>1. t = row[e].link BY <1>9, <1>11 DEF Plain
  <2>2. CASE Said(t)
    <3>1. turns[t].size \in Nat /\ row[e].count \in Nat /\ task[p].seg \in Nat
      <4>1. turns[t] \in UserRows BY <1>1, <1>9 DEF Types, Turns
      <4>2. turns[t].size \in Nat BY <4>1 DEF UserRows
      <4>3. row[e].count \in Nat BY <1>3 DEF Rows
      <4>4. task[p].seg \in Nat BY <1>3 DEF Works
      <4>5. QED BY <4>2, <4>3, <4>4
    <3>2. ~(task[p].seg <= turns[t].size) BY <1>7 DEF Complete, HasMore
    <3>3. \A i \in 1..turns[t].size : i \in 1..row[e].count BY <1>9, <3>1, <3>2
    <3>4. \A i \in 1..turns[t].size : <<t, i>> \in acked
      BY <1>1, <1>11, <2>1, <3>3 DEF CountedAcked
    <3>5. Answered(carries[e]) BY <1>9, <2>2, <3>4 DEF Answered
    <3>6. QED BY <1>2, <1>5, <1>6, <3>5, EndsKeep DEF EndAnswer
  <2>3. CASE ~Said(t)
    <3>1. p # Sweep /\ p \in Events /\ IsKeyed(t) BY <1>9, <2>3, Names
    <3>2. row[e].deliv = "pending" BY <1>3, <3>1 DEF WorkAt
    <3>3. ~Owes(e) BY <1>11, <3>2 DEF Owes
    <3>4. \A u : ~Reruns(e, u) BY <1>2, <3>1 DEF Reruns, On
    <3>5. Resolved(carries[e]) \/ \E h \in Events : carries[h] = carries[e] /\ Reruns(h, t)
      BY <1>1, <1>9, <2>3, <3>1 DEF CutShort
    <3>6. EndAnswer(p, e, r)
      <4>1. CASE Answered(carries[e]) BY <4>1 DEF EndAnswer
      <4>2. ASSUME NEW h \in Events, carries[h] = carries[e], Owes(h) PROVE EndAnswer(p, e, r)
        BY <3>3, <3>4, <4>2 DEF EndAnswer
      <4>3. ASSUME NEW h \in Events, carries[h] = carries[e], Reruns(h, t) PROVE EndAnswer(p, e, r)
        <5>1. h # e /\ row[h].proc # "none" /\ row[h].deliv # "delivered"
          BY <3>4, <4>3 DEF Reruns
        <5>2. QED BY <2>1, <2>3, <3>3, <3>4, <4>3, <5>1 DEF EndAnswer
      <4>4. QED BY <3>5, <4>1, <4>2, <4>3 DEF Resolved
    <3>7. QED BY <1>2, <1>5, <1>6, <3>6, EndsKeep
  <2>4. QED BY <2>2, <2>3
<1>12. QED BY <1>10, <1>11

\* The event is settled by a sibling that has an outcome, or by the event that
\* will run the turn again.
LEMMA SettleKeeps ==
  ASSUME IInv, NEW p \in Procs, NEW e \in Events, e = Ev(p), SettleWithoutPost(p),
         \A q \in Procs \ {p} : ~InSection(q)
  PROVE  IInv'
<1>1. Types /\ WorkInv /\ RefInv /\ SiblingAnswers /\ CutShort BY DEF IInv, AnswerInv
<1>2. /\ Active(p) /\ At(p, "deciding") /\ task[p].at \notin Posting /\ Marked(p)
      /\ ~At(p, "looping") /\ ~At(p, "acknowledged")
  BY DEF SettleWithoutPost, Active, At, Marked, Posting
<1>3. row[e] \in Rows /\ WorkAt(p) /\ task[p] \in Works BY <1>1, <1>2, AtWork
<1>4. PICK r \in Rows : r = Delivered(row[e]) BY <1>3, RowTypes
<1>5. Changes(p, e, NoTask, r) /\ Quiet /\ lock' = lock
  BY <1>4 DEF SettleWithoutPost, Done, Changes, Quiet, history
<1>6. EndRow(p, e, r)
  BY <1>2, <1>3, <1>4 DEF EndRow, Rows, Delivered, WorkAt
<1>7. PICK t \in Nat : t = task[p].turn BY <1>3 DEF Works
<1>8. /\ row[e].link = t /\ t \in Turns /\ t # 0 /\ turns[t].msg = carries[e]
      /\ task[p].dedup /\ IsKeyed(t) /\ SiblingOwns(e, t)
  <2>1. TaskRefAt(p) BY <1>1, <1>2 DEF RefInv, TaskRefs
  <2>2. t # 0 BY <1>2, <1>7, <2>1 DEF TaskRefAt, At, Before
  <2>3. task[p].dedup /\ SiblingOwns(e, t) BY <1>7 DEF SettleWithoutPost
  <2>4. QED BY <1>2, <1>7, <2>1, <2>2, <2>3 DEF TaskRefAt, At, TurnOf
<1>9. ~Owes(e) /\ \A u : ~Reruns(e, u)
  BY <1>2, <1>8 DEF Owes, Reruns, On
<1>10. EndAnswer(p, e, r)
  <2>1. CASE Answered(carries[e]) BY <2>1 DEF EndAnswer
  <2>2. ASSUME NEW h \in Events, carries[h] = carries[e], Owes(h) PROVE EndAnswer(p, e, r)
    BY <1>9, <2>2 DEF EndAnswer
  <2>3. CASE Said(t)
    <3>1. PICK f \in Events \ {e} : row[f].link = t /\ row[f].deliv # "pending"
      BY <1>8 DEF SiblingOwns, Siblings
    <3>2. carries[f] = carries[e]
      BY <1>1, <1>8, <3>1 DEF RefInv, RowRefs, RowRefAt, TurnOf
    <3>3. CASE row[f].deliv = "delivered"
      <4>1. Resolved(carries[e])
        BY <1>1, <1>8, <2>3, <3>1, <3>2, <3>3 DEF SiblingAnswers
      <4>2. QED BY <2>1, <2>2, <4>1 DEF Resolved
    <3>4. CASE row[f].deliv # "delivered"
      <4>1. row[f] \in Rows BY <1>1 DEF Types
      <4>2. row[f].deliv \in {"failed", "dead_letter"} BY <3>1, <3>4, <4>1 DEF Rows
      <4>3. row[f].proc = "processed" BY <1>1, <3>1 DEF WorkInv, MarkedFirst, MarkedAt
      <4>4. ASSUME NEW q \in Procs, On(q, f) PROVE task[q].at \in Posting
        <5>1. q # p /\ Active(q) /\ Ev(q) = f BY <3>1, <4>4 DEF On
        <5>2. WorkAt(q) /\ task[q] \in Works BY <1>1, <5>1, OneWorker DEF WorkInv, WorkOK
        <5>3. Marked(q) BY <4>3, <5>1, <5>2 DEF WorkAt
        <5>4. ~InSection(q) BY <5>1
        <5>5. QED BY <5>2, <5>3, <5>4 DEF Marked, InSection, At, Works
      <4>5. Owes(f) BY <4>2, <4>3, <4>4 DEF Owes
      <4>6. QED BY <2>2, <3>2, <4>5
    <3>5. QED BY <3>3, <3>4
  <2>4. CASE ~Said(t)
    <3>1. Resolved(carries[e]) \/ \E h \in Events : carries[h] = carries[e] /\ Reruns(h, t)
      BY <1>1, <1>8, <2>4 DEF CutShort
    <3>2. ASSUME NEW h \in Events, carries[h] = carries[e], Reruns(h, t) PROVE EndAnswer(p, e, r)
      <4>1. h # e /\ row[h].proc # "none" /\ row[h].deliv # "delivered"
        BY <1>9, <3>2 DEF Reruns
      <4>2. QED BY <1>8, <1>9, <2>4, <3>2, <4>1 DEF EndAnswer
    <3>3. QED BY <2>1, <2>2, <3>1, <3>2 DEF Resolved
  <2>5. QED BY <2>3, <2>4
<1>11. QED BY <1>2, <1>5, <1>6, <1>10, EndsKeep

-----------------------------------------------------------------------------
(* Steps that settle no event and start no turn.                           *)

\* p and e take up no turn whose loop runs.
LoopsKept(p, e) ==
  /\ ~At(p, "looping")'
  /\ \A q \in Procs \ {p} : At(q, "looping") =>
       /\ row'[e].link # task[q].turn
       /\ Active(p)' => task'[p].turn # task[q].turn
  /\ (At(p, "processing") /\ task[p].fresh)' => FreshAt(p)'

\* e takes no stake in something to post that another event has.
StakesKept(e) ==
  \A t \in 1..Len(turns') : (turns'[t].size > 0 /\ Stake(e, t)') =>
    Stake(e, t) \/ t \in taken' \/ \A f \in Events \ {e} : ~Stake(f, t)

\* e goes on owing what it owes.
DuesKept(e) ==
  /\ Owes(e) => Owes(e)'
  /\ \A t \in Turns :
       (Reruns(e, t) /\ carries[e] = turns[t].msg /\ IsKeyed(t) /\ ~Said(t)') => Reruns(e, t)'

LEMMA AdvanceKeeps ==
  ASSUME IInv, NEW p \in Procs, NEW e \in Events, Types', Frame(p, e), p # Sweep => p = e,
         Active(p)' => WorkAt(p)' /\ TaskRefAt(p)',
         MarkedAt(e)', RowRefAt(e)',
         row'[e].proc # "none", row'[e].deliv # "delivered",
         LockKept(p), RepliesKept(p), LoopsKept(p, e), StakesKept(e),
         AckedCounted', CountedAcked', DuesKept(e)
  PROVE  IInv'
<1>1. /\ Types /\ WorkInv /\ RefInv /\ OneStake /\ SiblingAnswers /\ CutShort
      /\ DeliveredMeansAnswered
  BY DEF IInv, StakeInv, AnswerInv
<1>2. TurnsGrow BY DEF Frame
<1>3. LoopHoldsLock'
  <2>1. SUFFICES ASSUME NEW q \in Procs PROVE At(q, "looping")' <=> lock' = q
    BY DEF LoopHoldsLock
  <2>2. (At(p, "looping") <=> lock = p) /\ (At(q, "looping") <=> lock = q)
    BY <1>1 DEF WorkInv, LoopHoldsLock
  <2>3. ~At(p, "looping")' /\ (q # p => (At(q, "looping")' <=> At(q, "looping")))
    BY DEF LoopsKept, Frame, At
  <2>4. QED BY <2>2, <2>3, Names DEF LockKept
<1>4. WorkInv' BY <1>1, <1>3, FrameWork
<1>5. KeyedOnce'
  <2>1. KeyedOnce /\ Turns' = Turns BY <1>1 DEF RefInv, RepliesKept, Turns
  <2>2. QED BY <1>2, <2>1 DEF KeyedOnce, TurnsGrow, IsKeyed
<1>6. LoopsAlone' BY <1>1, FrameLoops DEF LoopsKept
<1>7. RefInv' BY <1>1, <1>5, <1>6, FrameRefs
<1>8. OneStake' BY <1>1, FrameOneStake DEF StakesKept, Types, RepliesKept
<1>9. \A m : Resolved(m) => Resolved(m)' BY FrameResolved DEF DuesKept
<1>10. PICK c : c = carries[e] OBVIOUS
<1>11. SiblingAnswers'
  <2>1. ASSUME NEW f \in Events, row[f].link # 0
        PROVE  turns'[row[f].link] = turns[row[f].link]
    <3>1. row[f].link \in Turns BY <1>1, <2>1 DEF RefInv, RowRefs, RowRefAt, TurnOf
    <3>2. At(p, "looping") => row[f].link # task[p].turn
      BY <1>1 DEF RefInv, LoopsAlone, LoopAt
    <3>3. QED BY <3>1, <3>2 DEF RepliesKept
  <2>2. QED BY <1>1, <1>9, <1>10, <2>1, FrameSiblings
<1>12. CutShort'
  <2>1. \A t \in 1..Len(turns') : t \in Turns BY DEF RepliesKept, Turns
  <2>2. QED BY <1>1, <1>9, <1>10, <2>1, FrameCutShort DEF DuesKept
<1>13. DeliveredMeansAnswered' BY <1>1, <1>10, FrameAnswered
<1>14. QED BY <1>4, <1>7, <1>8, <1>11, <1>12, <1>13 DEF IInv, StakeInv, AnswerInv

\* The history of a step that does not change what is on the count.
LEMMA CountsGrow ==
  ASSUME IInv, NEW p \in Procs, NEW e \in Events, Frame(p, e), Types', ~At(p, "acknowledged"),
         row'[e].count = row[e].count,
         row[e].count # 0 => /\ row'[e].link = row[e].link
                             /\ row'[e].reply = row[e].reply \/ (row[e].reply = 0 /\ row'[e].reply = row[e].link)
                             /\ row'[e].proc = "processed",
         \A t \in Nat, i \in Nat : <<t, i>> \in acked' \ acked => t \in Turns /\ CountedOn(e, t, i)'
  PROVE  AckedCounted' /\ CountedAcked'
<1>1. Types /\ AckedCounted /\ CountedAcked /\ row[e].count \in Nat
  BY DEF IInv, StakeInv, AnswerInv, Types, Rows
<1>2. ASSUME NEW t \in Turns, NEW i \in Nat, CountedOn(e, t, i) PROVE CountedOn(e, t, i)'
  <2>1. ~Counting(e, t, i) BY DEF Counting, Frame
  <2>2. /\ t \in {row[e].reply, row[e].link} /\ i > 0 /\ i <= row[e].count
    BY <1>2, <2>1 DEF CountedOn
  <2>3. row[e].count # 0 BY <1>1, <2>2
  <2>4. t # 0 BY DEF Turns
  <2>5. t \in {row'[e].reply, row'[e].link} BY <2>2, <2>3, <2>4
  <2>6. QED BY <2>2, <2>3, <2>5 DEF CountedOn
<1>3. AckedCounted' BY <1>1, <1>2, FrameAcked
<1>4. ASSUME NEW f \in Events, Plain(f)', NEW i \in 1..row'[f].count PROVE <<row'[f].link, i>> \in acked'
  <2>1. CASE f = e
    <3>1. row[e].count # 0 BY <1>1, <1>4, <2>1
    <3>2. Plain(e) BY <1>4, <2>1, <3>1 DEF Plain
    <3>3. QED BY <1>1, <1>4, <2>1, <3>1, <3>2 DEF CountedAcked, Frame
  <2>2. CASE f # e
    <3>1. row'[f] = row[f] BY <2>2 DEF Frame
    <3>2. Plain(f) BY <1>4, <3>1 DEF Plain
    <3>3. QED BY <1>1, <1>4, <3>1, <3>2 DEF CountedAcked, Frame
  <2>3. QED BY <2>1, <2>2
<1>5. QED BY <1>3, <1>4 DEF CountedAcked

\* The history of a step that counts nothing.
LEMMA CountsKept ==
  ASSUME IInv, NEW p \in Procs, NEW e \in Events, Frame(p, e), Types', ~At(p, "acknowledged"),
         acked' = acked, row'[e].count = row[e].count,
         row[e].count # 0 => /\ row'[e].link = row[e].link
                             /\ row'[e].reply = row[e].reply \/ (row[e].reply = 0 /\ row'[e].reply = row[e].link)
                             /\ row'[e].proc = "processed"
  PROVE  AckedCounted' /\ CountedAcked'
<1>1. QED BY CountsGrow

\* What is owed, while the work on e goes on.
LEMMA DuesOfWork ==
  ASSUME Types, WorkInv, NEW p \in Procs, NEW e \in Events, Frame(p, e), p # Sweep => p = e,
         Active(p), Active(p)',
         task[p].at \in Posting => /\ task'[p].at \in Posting
                                   /\ row'[e].reply = row[e].reply /\ row'[e].link = row[e].link,
         row[e].proc = "processed" => row'[e].proc = "processed",
         row'[e].proc # "none", row'[e].deliv = row[e].deliv,
         (p # Sweep /\ At(p, "looping")) => turns'[task[p].turn].end # "none",
         p = Sweep => task[p].dedup \/ ~task'[p].dedup
  PROVE  DuesKept(e)
<1>1. On(p, e) BY DEF On, Frame
<1>2. \A q \in Procs : On(q, e)' => q = p
  BY DEF Frame, On, Active, At, Ev
<1>3. Owes(e) => Owes(e)'
  <2>1. SUFFICES ASSUME Owes(e) PROVE Owes(e)' OBVIOUS
  <2>2. task[p].at \in Posting BY <1>1, <2>1 DEF Owes
  <2>3. QED BY <1>2, <2>1, <2>2 DEF Owes, Plain
<1>4. ASSUME NEW t \in Turns, Reruns(e, t), ~Said(t)' PROVE Reruns(e, t)'
  <2>1. ~task[p].dedup /\ (p # Sweep => At(p, "looping") /\ task[p].turn = t)
    BY <1>1, <1>4 DEF Reruns
  <2>2. p = Sweep BY <1>4, <2>1 DEF Said
  <2>3. ~task'[p].dedup BY <2>1, <2>2
  <2>4. QED BY <1>2, <1>4, <2>2, <2>3 DEF Reruns
<1>5. QED BY <1>3, <1>4 DEF DuesKept

\* A step that only takes p from one stage to the next.
StageStep(a, b) ==
  <<a, b>> \in {<<"ingress", "waiting">>, <<"waiting", "processing">>, <<"posting", "posted">>,
                <<"posted", "acknowledged">>}

\* The segment that p has the platform's answer for.
Newly(k) == IF k.at = "acknowledged" THEN {<<k.turn, k.seg>>} ELSE {}

LEMMA StageKeeps ==
  ASSUME IInv, NEW p \in Procs, NEW e \in Events, Active(p), e = Ev(p),
         NEW k \in Works, NEW r \in Rows, Changes(p, e, k, r), lock' = lock,
         UNCHANGED <<turns, replays, redeliver, taken, torn>>, acked' = acked \cup Newly(k),
         StageStep(task[p].at, k.at), k.at = "posted" => turns[k.turn].size > 0,
         /\ k.ev = e /\ k.turn = task[p].turn /\ k.reply = task[p].reply /\ k.seg = task[p].seg
         /\ k.dedup = task[p].dedup /\ k.fresh = task[p].fresh /\ k.write = task[p].write,
         /\ r.proc = row[e].proc /\ r.deliv = row[e].deliv /\ r.reply = row[e].reply
         /\ r.link = row[e].link /\ r.count = row[e].count /\ r.old = row[e].old
  PROVE  IInv'
<1>1. Types /\ WorkInv /\ RefInv BY DEF IInv
<1>2. /\ task[p] \in Works /\ row[e] \in Rows /\ WorkAt(p) /\ MarkedAt(e) /\ RowRefAt(e)
      /\ TaskRefAt(p)
  BY <1>1, AtWork DEF WorkInv, RefInv, MarkedFirst, RowRefs, TaskRefs
<1>3. turns' = turns /\ acked \subseteq acked' /\ carries' = carries BY DEF Changes
<1>4. /\ Types' /\ Frame(p, e) /\ row'[e] = r /\ task'[p] = k
      /\ p # Sweep => p = e
  <2>1. TurnsGrow BY <1>3, SameTurnsGrow
  <2>2. k.turn \in Nat /\ k.seg \in Nat BY DEF Works
  <2>3. turns' \in Seq(UserRows) /\ acked' \subseteq Nat \X Nat
    BY <1>1, <1>3, <2>2 DEF Types, Newly
  <2>4. taken \subseteq taken' /\ torn \subseteq torn' /\ replays' = replays /\ redeliver' = redeliver
    OBVIOUS
  <2>5. QED BY <1>1, <1>3, <2>1, <2>3, <2>4, WorkStep
<1>5. Active(p)' /\ ~At(p, "looping")' /\ ~At(p, "looping") /\ ~At(p, "acknowledged")
  BY <1>4 DEF Active, At, StageStep
<1>6. Ev(p)' = e BY <1>4 DEF Ev
<1>7. (Marked(p))' <=> Marked(p) BY <1>4 DEF Marked, StageStep, At, Posting
<1>8. k.at \in Posting <=> task[p].at \in Posting BY DEF StageStep, Posting
<1>9. WorkAt(p)'
  <2>1. k.at \in {"ingress", "waiting"} => p \in Events
    BY <1>2 DEF WorkAt, StageStep
  <2>2. QED BY <1>2, <1>4, <1>6, <1>7, <1>8, <2>1 DEF WorkAt
<1>10. k.at \in {"posted", "acknowledged"} => turns[k.turn].size > 0
  <2>1. k.at = "acknowledged" => task[p].at = "posted" BY DEF StageStep
  <2>2. QED BY <1>2, <2>1 DEF TaskRefAt
<1>11. TaskRefAt(p)'
  <2>1. k.at \in Before <=> task[p].at \in Before
    BY DEF StageStep, Before, Posting
  <2>2. k.at \notin {"looping", "bookkeeping", "deciding"} /\ task[p].at # "looping" BY DEF StageStep
  <2>3. k.at = "acknowledged" => <<k.turn, k.seg>> \in acked' BY DEF Newly
  <2>4. QED BY <1>2, <1>3, <1>4, <1>6, <1>8, <1>10, <2>1, <2>2, <2>3
            DEF TaskRefAt, TurnOf, IsKeyed, Shared, Said, Turns
<1>12. MarkedAt(e)' BY <1>2, <1>4 DEF MarkedAt
<1>13. RowRefAt(e)' BY <1>2, <1>3, <1>4 DEF RowRefAt, TurnOf, IsKeyed, Shared, Said, Turns
<1>14. row'[e].proc # "none" /\ row'[e].deliv # "delivered"
  BY <1>2, <1>4 DEF WorkAt
<1>15. LoopsKept(p, e)
  <2>1. ~(At(p, "processing") /\ task[p].fresh)'
    BY <1>2, <1>4, Names DEF StageStep, At, WorkAt
  <2>2. \A q \in Procs \ {p} : At(q, "looping") => /\ row[e].link # task[q].turn
                                                 /\ task[p].turn # task[q].turn
    BY <1>1 DEF RefInv, LoopsAlone, LoopAt
  <2>3. QED BY <1>4, <1>5, <2>1, <2>2 DEF LoopsKept
<1>16. StakesKept(e)
  <2>1. ASSUME NEW t \in 1..Len(turns'), Stake(e, t)' PROVE Stake(e, t)
    <3>1. \A q \in Procs : On(q, e)' => q = p
      BY <1>4 DEF Frame, On, Active, At, Ev
    <3>2. On(p, e) BY DEF On
    <3>3. QED BY <1>4, <1>8, <2>1, <3>1, <3>2 DEF Stake, Plain
  <2>2. QED BY <2>1 DEF StakesKept
<1>17. AckedCounted' /\ CountedAcked'
  <2>1. ASSUME NEW t \in Nat, NEW i \in Nat, <<t, i>> \in acked' \ acked
        PROVE  t \in Turns /\ CountedOn(e, t, i)'
    <3>1. k.at = "acknowledged" /\ t = k.turn /\ i = k.seg BY <2>1 DEF Newly
    <3>2. task[p].at = "posted" /\ task[p].at \in Posting /\ task[p].at \notin Before
      BY <3>1 DEF StageStep, Posting, Before
    <3>3. /\ t \in Turns /\ i = row[e].count + 1 /\ row[e].proc = "processed"
          /\ t \in {row[e].reply, row[e].link}
      BY <1>2, <3>1, <3>2 DEF TaskRefAt, TurnOf, WorkAt, Marked
    <3>4. i > 0 BY <1>2, <3>3 DEF Rows
    <3>5. On(p, e)' /\ At(p, "acknowledged")' BY <1>4, <1>5, <1>6, <3>1 DEF On, At
    <3>6. Counting(e, t, i)' BY <1>4, <3>1, <3>5 DEF Counting
    <3>7. QED BY <1>4, <3>3, <3>4, <3>6 DEF CountedOn
  <2>2. row[e].count # 0 => row'[e].proc = "processed" BY <1>2, <1>4 DEF MarkedAt
  <2>3. QED BY <1>4, <1>5, <2>1, <2>2, CountsGrow
<1>18. DuesKept(e)
  BY <1>1, <1>4, <1>5, <1>8, <1>14, DuesOfWork
<1>19. LockKept(p) /\ RepliesKept(p) BY <1>3, <1>5 DEF LockKept, RepliesKept
<1>20. QED BY <1>4, <1>9, <1>11, <1>12, <1>13, <1>14, <1>15, <1>16, <1>17, <1>18, <1>19, AdvanceKeeps

LEMMA DispatchKeeps ==
  ASSUME IInv, NEW e \in Events, Dispatch(e)
  PROVE  IInv'
<1>1. Types /\ WorkInv BY DEF IInv
<1>2. e \in Procs BY Names
<1>3. Active(e) BY DEF Dispatch, Active, At
<1>4. e = Ev(e) BY <1>1, <1>2, <1>3 DEF WorkInv, WorkOK, WorkAt
<1>5. task[e] \in Works /\ row[e] \in Rows /\ task[e].ev = e BY <1>1, <1>2, <1>3, <1>4, AtWork
<1>6. PICK k \in Works : k = [task[e] EXCEPT !.at = "waiting"]
  BY <1>5, TaskTypes DEF Stages, Before
<1>7. PICK r \in Rows : r = [row[e] EXCEPT !.payload = TRUE] BY <1>5, RowTypes
<1>8. /\ Changes(e, e, k, r) /\ lock' = lock /\ acked' = acked
      /\ UNCHANGED <<turns, replays, redeliver, taken, torn>>
  BY <1>6, <1>7 DEF Dispatch, Changes, history
<1>9. StageStep(task[e].at, k.at) BY <1>5, <1>6 DEF Dispatch, At, StageStep, Works
<1>10. /\ k.ev = e /\ k.turn = task[e].turn /\ k.reply = task[e].reply /\ k.seg = task[e].seg
       /\ k.dedup = task[e].dedup /\ k.fresh = task[e].fresh /\ k.write = task[e].write
  BY <1>5, <1>6 DEF Works
<1>11. /\ r.proc = row[e].proc /\ r.deliv = row[e].deliv /\ r.reply = row[e].reply
       /\ r.link = row[e].link /\ r.count = row[e].count /\ r.old = row[e].old
  BY <1>5, <1>7 DEF Rows
<1>12. k.at = "waiting" /\ Newly(k) = {} BY <1>5, <1>6 DEF Newly, Works
<1>13. acked' = acked \cup Newly(k) BY <1>8, <1>12
<1>14. QED BY <1>2, <1>3, <1>4, <1>8, <1>12, <1>13, <1>9, <1>10, <1>11, StageKeeps

LEMMA AdmitKeeps ==
  ASSUME IInv, NEW e \in Events, Admit(e)
  PROVE  IInv'
<1>1. Types /\ WorkInv BY DEF IInv
<1>2. e \in Procs BY Names
<1>3. Active(e) BY DEF Admit, Active, At
<1>4. e = Ev(e) BY <1>1, <1>2, <1>3 DEF WorkInv, WorkOK, WorkAt
<1>5. task[e] \in Works /\ row[e] \in Rows /\ task[e].ev = e BY <1>1, <1>2, <1>3, <1>4, AtWork
<1>6. PICK k \in Works : k = [task[e] EXCEPT !.at = "processing"]
  BY <1>5, TaskTypes DEF Stages, Before
<1>7. PICK r \in Rows : r = row[e] BY <1>5
<1>8. /\ Changes(e, e, k, r) /\ lock' = lock /\ acked' = acked
      /\ UNCHANGED <<turns, replays, redeliver, taken, torn>>
  BY <1>1, <1>6, <1>7 DEF Admit, Goes, Changes, Types, rowVars, history
<1>9. StageStep(task[e].at, k.at) BY <1>5, <1>6 DEF Admit, At, StageStep, Works
<1>10. /\ k.ev = e /\ k.turn = task[e].turn /\ k.reply = task[e].reply /\ k.seg = task[e].seg
       /\ k.dedup = task[e].dedup /\ k.fresh = task[e].fresh /\ k.write = task[e].write
  BY <1>5, <1>6 DEF Works
<1>11. k.at = "processing" /\ Newly(k) = {} BY <1>5, <1>6 DEF Newly, Works
<1>12. acked' = acked \cup Newly(k) BY <1>8, <1>11
<1>13. QED BY <1>2, <1>3, <1>4, <1>7, <1>8, <1>11, <1>12, <1>9, <1>10, StageKeeps

LEMMA PostKeeps ==
  ASSUME IInv, NEW p \in Procs, NEW e \in Events, e = Ev(p), Post(p)
  PROVE  IInv'
<1>1. Types /\ WorkInv /\ RefInv BY DEF IInv
<1>2. Active(p) BY DEF Post, Active, At
<1>3. task[p] \in Works /\ row[e] \in Rows /\ task[p].ev = e BY <1>1, <1>2, AtWork
<1>4. PICK k \in Works : k = [task[p] EXCEPT !.at = "posted"]
  BY <1>3, TaskTypes DEF Stages, Posting
<1>5. PICK r \in Rows : r = row[e] BY <1>3
<1>6. /\ Changes(p, e, k, r) /\ lock' = lock /\ acked' = acked
      /\ UNCHANGED <<turns, replays, redeliver, taken, torn>>
  BY <1>1, <1>4, <1>5 DEF Post, Goes, Changes, Types, rowVars, history
<1>7. StageStep(task[p].at, k.at) BY <1>3, <1>4 DEF Post, At, StageStep, Works
<1>8. /\ k.ev = e /\ k.turn = task[p].turn /\ k.reply = task[p].reply /\ k.seg = task[p].seg
      /\ k.dedup = task[p].dedup /\ k.fresh = task[p].fresh /\ k.write = task[p].write
  BY <1>3, <1>4 DEF Works
<1>9. k.at = "posted" /\ Newly(k) = {} BY <1>3, <1>4 DEF Newly, Works
<1>10. acked' = acked \cup Newly(k) BY <1>6, <1>9
<1>11. turns[k.turn].size > 0
  <2>1. TaskRefAt(p) /\ At(p, "posting") BY <1>1, <1>2 DEF RefInv, TaskRefs, Post
  <2>2. task[p].turn \in Turns /\ task[p].seg = row[e].count + 1
    BY <2>1 DEF TaskRefAt, At, TurnOf, Before, Posting
  <2>3. turns[task[p].turn] \in UserRows BY <1>1, <2>2 DEF Types, Turns
  <2>4. turns[task[p].turn].size \in Nat BY <2>3 DEF UserRows
  <2>5. row[e].count \in Nat BY <1>3 DEF Rows
  <2>6. task[p].seg <= turns[task[p].turn].size BY DEF Post, HasMore
  <2>7. QED BY <1>8, <2>2, <2>4, <2>5, <2>6
<1>12. QED BY <1>2, <1>5, <1>6, <1>9, <1>10, <1>11, <1>7, <1>8, StageKeeps

LEMMA AcknowledgeKeeps ==
  ASSUME IInv, NEW p \in Procs, NEW e \in Events, e = Ev(p), Acknowledge(p)
  PROVE  IInv'
<1>1. Types /\ WorkInv BY DEF IInv
<1>2. Active(p) BY DEF Acknowledge, Active, At
<1>3. task[p] \in Works /\ row[e] \in Rows /\ task[p].ev = e BY <1>1, <1>2, AtWork
<1>4. PICK k \in Works : k = [task[p] EXCEPT !.at = "acknowledged"]
  BY <1>3, TaskTypes DEF Stages, Posting
<1>5. PICK r \in Rows : r = row[e] BY <1>3
<1>6. /\ Changes(p, e, k, r) /\ lock' = lock
      /\ UNCHANGED <<turns, replays, redeliver, taken, torn>>
  BY <1>1, <1>4, <1>5 DEF Acknowledge, Goes, Changes, Types, rowVars
<1>7. StageStep(task[p].at, k.at) BY <1>3, <1>4 DEF Acknowledge, At, StageStep, Works
<1>8. /\ k.ev = e /\ k.turn = task[p].turn /\ k.reply = task[p].reply /\ k.seg = task[p].seg
      /\ k.dedup = task[p].dedup /\ k.fresh = task[p].fresh /\ k.write = task[p].write
      /\ k.at = "acknowledged"
  BY <1>3, <1>4 DEF Works
<1>9. acked' = acked \cup Newly(k) BY <1>8 DEF Newly, Acknowledge
<1>10. QED BY <1>2, <1>5, <1>6, <1>7, <1>8, <1>9, StageKeeps

\* From the choice to the first segment: a deduplicated event that takes over no
\* reply is the only one with a claim to it.
LEMMA FinalizeKeeps ==
  ASSUME IInv, NEW p \in Procs, NEW e \in Events, e = Ev(p), FinalizeDelivery(p)
  PROVE  IInv'
<1>1. Types /\ WorkInv /\ RefInv BY DEF IInv
<1>2. Active(p) /\ At(p, "deciding") BY DEF FinalizeDelivery, Active, At
<1>3. task[p] \in Works /\ row[e] \in Rows /\ task[p].ev = e /\ WorkAt(p) BY <1>1, <1>2, AtWork
<1>4. PICK k \in Works : k = [Work("posting", e) EXCEPT !.turn = task[p].turn, !.seg = 1]
  BY <1>3, NewWork DEF Works
<1>5. PICK r \in Rows : r = [row[e] EXCEPT !.count = 0] BY <1>3, RowTypes
<1>6. /\ Changes(p, e, k, r) /\ lock' = lock /\ turns' = turns /\ replays' = replays
      /\ redeliver' = redeliver /\ acked' = acked /\ taken \subseteq taken' /\ torn' = torn
  BY <1>4, <1>5 DEF FinalizeDelivery, Goes, Changes
<1>7. MarkedAt(e) /\ RowRefAt(e) /\ TaskRefAt(p)
  BY <1>1, <1>2 DEF WorkInv, RefInv, MarkedFirst, RowRefs, TaskRefs
<1>8. /\ k.at = "posting" /\ k.seg = 1 /\ k.ev = e /\ k.turn = task[p].turn
      /\ ~k.dedup /\ ~k.fresh
  BY <1>4 DEF Work
<1>9. /\ r.proc = row[e].proc /\ r.deliv = row[e].deliv /\ r.reply = row[e].reply
      /\ r.link = row[e].link /\ r.count = 0 /\ r.old = row[e].old
  BY <1>3, <1>5 DEF Rows
<1>10. /\ Types' /\ Frame(p, e) /\ row'[e] = r /\ task'[p] = k
       /\ p # Sweep => p = e
  <2>1. TurnsGrow BY <1>6, SameTurnsGrow
  <2>2. /\ turns' \in Seq(UserRows) /\ acked \subseteq acked' /\ acked' \subseteq Nat \X Nat
        /\ torn \subseteq torn'
    BY <1>1, <1>6 DEF Types
  <2>3. QED BY <1>1, <1>2, <1>6, <1>8, <2>1, <2>2, WorkStep
<1>11. /\ row[e].count = 0 /\ row[e].link = task[p].turn /\ task[p].turn # 0
       /\ task[p].dedup => IsKeyed(task[p].turn) /\ row[e].reply \in {0, task[p].turn}
       /\ Said(task[p].turn) \/ (p # Sweep /\ IsKeyed(task[p].turn))
       /\ task[p].at \notin Before /\ Marked(p) /\ task[p].at \notin Posting
  BY <1>2, <1>7 DEF TaskRefAt, At, Before, Marked, Posting
<1>12. Active(p)' /\ ~At(p, "looping")' /\ Ev(p)' = e /\ Marked(p)'
  BY <1>8, <1>10 DEF Active, At, Ev, Marked, Posting
<1>13. row[e].proc = "processed" /\ (row[e].deliv = "pending" \/ row[e].reply # 0)
  BY <1>3, <1>11 DEF WorkAt
<1>14. carries' = carries BY <1>6 DEF Changes
<1>15. WorkAt(p)'
  BY <1>3, <1>8, <1>9, <1>10, <1>11, <1>12 DEF WorkAt, Posting
<1>16. TaskRefAt(p)'
  BY <1>6, <1>7, <1>8, <1>9, <1>10, <1>11, <1>12, <1>14
     DEF TaskRefAt, TurnOf, IsKeyed, Shared, Said, Turns, Before, Posting
<1>17. MarkedAt(e)' BY <1>7, <1>9, <1>10 DEF MarkedAt
<1>18. RowRefAt(e)' BY <1>6, <1>7, <1>9, <1>10, <1>14 DEF RowRefAt, TurnOf, IsKeyed, Shared, Said, Turns
<1>19. row'[e].proc # "none" /\ row'[e].deliv # "delivered"
  BY <1>3, <1>9, <1>10 DEF WorkAt
<1>20. LoopsKept(p, e)
  <2>1. \A q \in Procs \ {p} : At(q, "looping") => /\ row[e].link # task[q].turn
                                                 /\ task[p].turn # task[q].turn
    BY <1>1, <1>2 DEF RefInv, LoopsAlone, LoopAt
  <2>2. QED BY <1>8, <1>9, <1>10, <1>12, <2>1 DEF LoopsKept, At
<1>21. StakesKept(e)
  <2>1. \A q \in Procs : On(q, e)' => q = p
    BY <1>10 DEF Frame, On, Active, At, Ev
  <2>2. \A t \in 1..Len(turns') : Stake(e, t)' => Stake(e, t) \/ (task[p].dedup /\ t = task[p].turn)
    <3>1. SUFFICES ASSUME NEW t \in 1..Len(turns'), Stake(e, t)', ~Stake(e, t), t = task[p].turn
                   PROVE  task[p].dedup
      <4>1. ASSUME NEW t \in 1..Len(turns'), Stake(e, t)', t # task[p].turn PROVE Stake(e, t)
        BY <1>8, <1>9, <1>10, <1>11, <2>1, <4>1 DEF Stake, Plain
      <4>2. QED BY <4>1
    <3>2. On(p, e) BY <1>2 DEF On
    <3>3. QED BY <3>1, <3>2 DEF Stake
  <2>3. ASSUME task[p].dedup, task[p].turn \notin taken', turns'[task[p].turn].size > 0,
               NEW f \in Events \ {e}, Stake(f, task[p].turn)
        PROVE  FALSE
    <3>1. ~TakesOver(p, task[p].turn)
      BY <2>3 DEF FinalizeDelivery
    <3>2. Siblings(e, task[p].turn) = {}
      BY <2>3, <3>1 DEF FinalizeDelivery, TakesOver, SiblingOwns
    <3>3. row[f].link # task[p].turn BY <3>2 DEF Siblings
    <3>4. row[f].reply # task[p].turn
      <4>1. Shared(task[p].turn) BY <1>6, <1>11, <2>3 DEF Shared
      <4>2. QED BY <1>1, <1>11, <2>3, <3>3, <4>1 DEF RefInv, RowRefs, RowRefAt
    <3>5. PICK q \in Procs : On(q, f) /\ task[q].turn = task[p].turn
      BY <2>3, <3>3, <3>4 DEF Stake
    <3>6. q # p /\ Active(q) BY <3>5 DEF On
    <3>7. QED BY <2>3, <3>1, <3>5, <3>6 DEF TakesOver, Active
  <2>4. QED BY <2>2, <2>3 DEF StakesKept
<1>22. AckedCounted' /\ CountedAcked'
  <2>1. ~At(p, "acknowledged") BY <1>2 DEF At
  <2>2. QED BY <1>6, <1>9, <1>10, <1>11, <2>1, CountsKept
<1>23. DuesKept(e)
  BY <1>1, <1>2, <1>8, <1>9, <1>10, <1>11, <1>12, <1>19, DuesOfWork DEF At
<1>24. LockKept(p) /\ RepliesKept(p) BY <1>2, <1>6 DEF LockKept, RepliesKept, At
<1>25. QED BY <1>10, <1>15, <1>16, <1>17, <1>18, <1>19, <1>20, <1>21, <1>22, <1>23, <1>24, AdvanceKeeps

\* The acknowledged segment is counted on the row.
LEMMA SegmentKeeps ==
  ASSUME IInv, NEW p \in Procs, NEW e \in Events, e = Ev(p), SegmentDelivered(p)
  PROVE  IInv'
<1>1. Types /\ WorkInv /\ RefInv /\ AckedCounted /\ CountedAcked
  BY DEF IInv, StakeInv, AnswerInv
<1>2. Active(p) /\ task[p].at = "acknowledged" BY DEF SegmentDelivered, Active, At
<1>3. task[p] \in Works /\ row[e] \in Rows /\ task[p].ev = e /\ WorkAt(p) BY <1>1, <1>2, AtWork
<1>4. PICK k \in Works : k = [task[p] EXCEPT !.at = "posting", !.seg = @ + 1]
  BY <1>3, TaskTypes
<1>5. PICK r \in Rows : r = [row[e] EXCEPT !.count = task[p].seg]
  BY <1>3, RowTypes DEF Works
<1>6. /\ Changes(p, e, k, r) /\ lock' = lock /\ turns' = turns /\ replays' = replays
      /\ redeliver' = redeliver /\ acked' = acked /\ taken' = taken /\ torn' = torn
  BY <1>4, <1>5 DEF SegmentDelivered, Goes, Changes, history
<1>7. MarkedAt(e) /\ RowRefAt(e) /\ TaskRefAt(p)
  BY <1>1, <1>2 DEF WorkInv, RefInv, MarkedFirst, RowRefs, TaskRefs
<1>8. /\ k.at = "posting" /\ k.seg = task[p].seg + 1 /\ k.ev = e /\ k.turn = task[p].turn
      /\ k.dedup = task[p].dedup /\ k.fresh = task[p].fresh
  BY <1>3, <1>4 DEF Works
<1>9. /\ r.proc = row[e].proc /\ r.deliv = row[e].deliv /\ r.reply = row[e].reply
      /\ r.link = row[e].link /\ r.count = task[p].seg /\ r.old = row[e].old
  BY <1>3, <1>5 DEF Rows
<1>10. /\ task[p].seg = row[e].count + 1 /\ task[p].turn # 0
       /\ task[p].turn = row[e].link \/ (p = Sweep /\ task[p].turn = row[e].reply)
       /\ <<task[p].turn, task[p].seg>> \in acked
       /\ Said(task[p].turn) \/ (p # Sweep /\ IsKeyed(task[p].turn))
       /\ row[e].count \in Nat /\ Marked(p) /\ row[e].proc = "processed"
  <2>1. task[p].at \in Posting /\ task[p].at \notin Before \cup {"looping"}
    BY <1>2 DEF Posting, Before
  <2>2. Marked(p) BY <2>1 DEF Marked
  <2>3. row[e].count \in Nat BY <1>3 DEF Rows
  <2>4. QED BY <1>2, <1>3, <1>7, <2>1, <2>2, <2>3 DEF TaskRefAt, WorkAt
<1>11. /\ Types' /\ Frame(p, e) /\ row'[e] = r /\ task'[p] = k
       /\ p # Sweep => p = e
  <2>1. TurnsGrow BY <1>6, SameTurnsGrow
  <2>2. /\ turns' \in Seq(UserRows) /\ acked \subseteq acked' /\ acked' \subseteq Nat \X Nat
        /\ taken \subseteq taken' /\ torn \subseteq torn'
    BY <1>1, <1>6 DEF Types
  <2>3. QED BY <1>1, <1>2, <1>6, <1>8, <2>1, <2>2, WorkStep
<1>12. Active(p)' /\ ~At(p, "looping")' /\ Ev(p)' = e /\ Marked(p)'
  BY <1>8, <1>11 DEF Active, At, Ev, Marked, Posting
<1>13. carries' = carries /\ Turns' = Turns BY <1>6 DEF Changes, Turns
<1>14. WorkAt(p)'
  BY <1>3, <1>8, <1>9, <1>10, <1>11, <1>12 DEF WorkAt, Posting
<1>15. TaskRefAt(p)'
  BY <1>2, <1>6, <1>7, <1>8, <1>9, <1>10, <1>11, <1>12, <1>13
     DEF TaskRefAt, TurnOf, IsKeyed, Shared, Said, Before, Posting
<1>16. MarkedAt(e)' BY <1>7, <1>9, <1>10, <1>11 DEF MarkedAt
<1>17. RowRefAt(e)' BY <1>6, <1>7, <1>9, <1>11, <1>13 DEF RowRefAt, TurnOf, IsKeyed, Shared, Said
<1>18. row'[e].proc # "none" /\ row'[e].deliv # "delivered"
  BY <1>3, <1>9, <1>10, <1>11 DEF WorkAt
<1>19. LoopsKept(p, e)
  <2>1. \A q \in Procs \ {p} : At(q, "looping") => /\ row[e].link # task[q].turn
                                                 /\ task[p].turn # task[q].turn
    BY <1>1, <1>2 DEF RefInv, LoopsAlone, LoopAt
  <2>2. QED BY <1>8, <1>9, <1>11, <1>12, <2>1 DEF LoopsKept, At
<1>20. \A q \in Procs : On(q, e)' => q = p
  BY <1>11 DEF Frame, On, Active, At, Ev
<1>21. StakesKept(e)
  <2>1. Stake(e, task[p].turn) BY <1>2 DEF Stake, On, Posting
  <2>2. ASSUME NEW t \in 1..Len(turns'), Stake(e, t)' PROVE Stake(e, t)
    <3>1. row[e].reply = t \/ task[p].turn = t \/ row[e].link = t
      BY <1>8, <1>9, <1>11, <1>20, <2>2 DEF Stake
    <3>2. CASE row[e].reply = t BY <3>2 DEF Stake
    <3>3. CASE task[p].turn = t BY <2>1, <3>3
    <3>4. CASE row[e].link = t /\ ~Plain(e) BY <3>4 DEF Stake
    <3>5. CASE row[e].link = t /\ Plain(e)
      <4>1. task[p].turn = t BY <1>10, <3>5 DEF Plain
      <4>2. QED BY <2>1, <4>1
    <3>6. QED BY <3>1, <3>2, <3>3, <3>4, <3>5
  <2>3. QED BY <2>2 DEF StakesKept
<1>22. AckedCounted'
  <2>1. ASSUME NEW t \in Turns, NEW i \in Nat, CountedOn(e, t, i) PROVE CountedOn(e, t, i)'
    <3>1. \A q \in Procs : On(q, e) => q = p
      BY <1>11 DEF Frame
    <3>2. Counting(e, t, i) => i = task[p].seg BY <3>1 DEF Counting
    <3>3. i > 0 /\ (i <= row[e].count \/ i = task[p].seg) BY <2>1, <3>2 DEF CountedOn
    <3>4. i <= r.count BY <1>9, <1>10, <3>3
    <3>5. QED BY <1>9, <1>11, <2>1, <3>4 DEF CountedOn
  <2>2. \A t \in Nat, i \in Nat : <<t, i>> \notin acked' \ acked BY <1>6
  <2>3. QED BY <1>1, <1>11, <2>1, <2>2, FrameAcked
<1>23. CountedAcked'
  <2>1. SUFFICES ASSUME NEW f \in Events, Plain(f)', NEW i \in 1..row'[f].count
                 PROVE  <<row'[f].link, i>> \in acked'
    BY DEF CountedAcked
  <2>2. CASE f = e
    <3>1. Plain(e) BY <1>9, <1>11, <2>1, <2>2 DEF Plain
    <3>2. row[e].link = task[p].turn BY <1>10, <3>1 DEF Plain
    <3>3. i \in 1..row[e].count \/ i = task[p].seg BY <1>9, <1>10, <1>11, <2>1, <2>2
    <3>4. QED BY <1>1, <1>6, <1>9, <1>10, <1>11, <2>2, <3>1, <3>2, <3>3 DEF CountedAcked
  <2>3. CASE f # e
    <3>1. row'[f] = row[f] BY <1>11, <2>3 DEF Frame
    <3>2. Plain(f) BY <2>1, <3>1 DEF Plain
    <3>3. QED BY <1>1, <1>6, <2>1, <3>1, <3>2 DEF CountedAcked
  <2>4. QED BY <2>2, <2>3
<1>24. DuesKept(e)
  BY <1>1, <1>2, <1>8, <1>9, <1>11, <1>12, <1>18, DuesOfWork DEF Posting, At
<1>25. LockKept(p) /\ RepliesKept(p) BY <1>2, <1>6 DEF LockKept, RepliesKept, At
<1>26. QED BY <1>11, <1>14, <1>15, <1>16, <1>17, <1>18, <1>19, <1>21, <1>22, <1>23, <1>24, <1>25, AdvanceKeeps

\* The three writes, in the order of the dispatch or of the sweep.
LEMMA BookkeepEffect ==
  ASSUME IInv, NEW p \in Procs, NEW e \in Events, e = Ev(p), Bookkeep(p),
         task[p] \in Works, row[e] \in Rows, WorkAt(p), TaskRefAt(p)
  PROVE  \E k \in Works, r \in Rows :
           /\ Changes(p, e, k, r)
           /\ k.at = (IF task[p].write = 3 THEN "deciding" ELSE "bookkeeping")
           /\ k.write = (IF task[p].write = 3 THEN 3 ELSE task[p].write + 1)
           /\ k.ev = task[p].ev /\ k.turn = task[p].turn /\ k.reply = task[p].reply
           /\ k.dedup = task[p].dedup /\ k.fresh = task[p].fresh
           /\ r.deliv = row[e].deliv /\ r.count = row[e].count /\ r.old = row[e].old
           /\ r.link = task[p].turn
           /\ r.proc = (IF k.at = "deciding" \/ (p = Sweep /\ k.write = 3)
                        THEN "processed" ELSE row[e].proc)
           /\ r.reply # row[e].reply => /\ ~task[p].dedup /\ r.reply = task[p].turn
                                        /\ p # Sweep \/ r.proc = "processed"
<1> DEFINE w == Writes(p)[task[p].write]
           K == IF task[p].write = 3 THEN [task[p] EXCEPT !.at = "deciding"]
                ELSE [task[p] EXCEPT !.write = @ + 1]
           R == IF w = "link" THEN [row[e] EXCEPT !.link = task[p].turn]
                ELSE IF w = "mark" THEN [row[e] EXCEPT !.proc = "processed"]
                ELSE IF task[p].reply # 0 THEN [row[e] EXCEPT !.reply = task[p].reply] ELSE row[e]
<1>1. task[p].at = "bookkeeping" BY DEF Bookkeep, At
<1>2. /\ task[p].dedup => task[p].reply = 0
      /\ ~task[p].dedup => task[p].reply \in {0, task[p].turn}
      /\ task[p].write > 1 => row[e].link = task[p].turn
      /\ task[p].turn # 0
  BY <1>1 DEF TaskRefAt, Before
<1>3. (p = Sweep /\ task[p].write = 3) => row[e].proc = "processed"
  BY <1>1 DEF WorkAt, Marked, At
<1>4. K \in Works
  BY TaskTypes DEF Stages
<1>5. R \in Rows
  BY RowTypes DEF Works
<1>6. Changes(p, e, K, R)
  BY DEF Bookkeep, Goes, Changes
<1>7. task[p].write \in 1..3 BY DEF Works
<1>8. /\ K.at = (IF task[p].write = 3 THEN "deciding" ELSE "bookkeeping")
      /\ K.write = (IF task[p].write = 3 THEN 3 ELSE task[p].write + 1)
      /\ K.ev = task[p].ev /\ K.turn = task[p].turn /\ K.reply = task[p].reply
      /\ K.dedup = task[p].dedup /\ K.fresh = task[p].fresh
  BY <1>1 DEF Works
<1>9. /\ w = "link" <=> task[p].write = 1
      /\ w = "mark" <=> task[p].write = (IF p = Sweep THEN 2 ELSE 3)
  BY <1>7 DEF Writes
<1>10. /\ R.deliv = row[e].deliv /\ R.count = row[e].count /\ R.old = row[e].old
       /\ R.link = (IF w = "link" THEN task[p].turn ELSE row[e].link)
       /\ R.proc = (IF w = "mark" THEN "processed" ELSE row[e].proc)
       /\ R.reply = (IF w \notin {"link", "mark"} /\ task[p].reply # 0 THEN task[p].reply ELSE row[e].reply)
  BY DEF Rows
<1> HIDE DEF w, K, R
<1>11. R.link = task[p].turn BY <1>2, <1>7, <1>9, <1>10
<1>12. R.proc = (IF K.at = "deciding" \/ (p = Sweep /\ K.write = 3)
                 THEN "processed" ELSE row[e].proc)
  BY <1>3, <1>7, <1>8, <1>9, <1>10
<1>13. R.reply # row[e].reply => /\ ~task[p].dedup /\ R.reply = task[p].turn
                                 /\ p # Sweep \/ R.proc = "processed"
  BY <1>2, <1>7, <1>8, <1>9, <1>10, <1>12
<1>14. QED
  BY <1>4, <1>5, <1>6, <1>8, <1>10, <1>11, <1>12, <1>13

LEMMA BookkeepKeeps ==
  ASSUME IInv, NEW p \in Procs, NEW e \in Events, e = Ev(p), Bookkeep(p)
  PROVE  IInv'
<1>1. Types /\ WorkInv /\ RefInv BY DEF IInv
<1>2. Active(p) /\ task[p].at = "bookkeeping" BY DEF Bookkeep, Active, At
<1>3. task[p] \in Works /\ row[e] \in Rows /\ task[p].ev = e /\ WorkAt(p) BY <1>1, <1>2, AtWork
<1>4. MarkedAt(e) /\ RowRefAt(e) /\ TaskRefAt(p)
  BY <1>1, <1>2 DEF WorkInv, RefInv, MarkedFirst, RowRefs, TaskRefs
<1>5. PICK k \in Works, r \in Rows :
           /\ Changes(p, e, k, r)
           /\ k.at = (IF task[p].write = 3 THEN "deciding" ELSE "bookkeeping")
           /\ k.write = (IF task[p].write = 3 THEN 3 ELSE task[p].write + 1)
           /\ k.ev = task[p].ev /\ k.turn = task[p].turn /\ k.reply = task[p].reply
           /\ k.dedup = task[p].dedup /\ k.fresh = task[p].fresh
           /\ r.deliv = row[e].deliv /\ r.count = row[e].count /\ r.old = row[e].old
           /\ r.link = task[p].turn
           /\ r.proc = (IF k.at = "deciding" \/ (p = Sweep /\ k.write = 3)
                        THEN "processed" ELSE row[e].proc)
           /\ r.reply # row[e].reply => /\ ~task[p].dedup /\ r.reply = task[p].turn
                                        /\ p # Sweep \/ r.proc = "processed"
  BY <1>3, <1>4, BookkeepEffect
<1>6. Quiet /\ lock' = lock BY DEF Bookkeep, Quiet, history
<1>7. /\ Types' /\ Frame(p, e) /\ row'[e] = r /\ task'[p] = k
      /\ p # Sweep => p = e
  BY <1>1, <1>2, <1>3, <1>5, <1>6, QuietStep
<1>8. turns' = turns /\ acked' = acked /\ carries' = carries
  BY <1>5, <1>6 DEF Quiet, Changes
<1>9. /\ row[e].count = 0 /\ task[p].turn # 0 /\ TurnOf(e, task[p].turn)
      /\ task[p].dedup => IsKeyed(task[p].turn) /\ task[p].reply = 0 /\ row[e].reply \in {0, task[p].turn}
      /\ ~task[p].dedup => task[p].reply \in {0, task[p].turn} /\ Said(task[p].turn)
      /\ Said(task[p].turn) \/ (p # Sweep /\ IsKeyed(task[p].turn))
      /\ (row[e].reply # 0 /\ Shared(row[e].reply)) => task[p].turn = row[e].reply
      /\ p # Sweep => row[e].reply \in {0, task[p].turn}
      /\ (p # Sweep /\ carries[p] \in Keyed) => IsKeyed(task[p].turn)
      /\ task[p].at \notin Before
  BY <1>2, <1>4 DEF TaskRefAt, Before
<1>10. Active(p)' /\ ~At(p, "looping")' /\ ~At(p, "looping") /\ Ev(p)' = e
       /\ ~At(p, "acknowledged")
  BY <1>2, <1>3, <1>5, <1>7 DEF Active, At, Ev
<1>11. Marked(p)' <=> (k.at = "deciding" \/ (p = Sweep /\ k.write = 3))
  BY <1>5, <1>7 DEF Marked, At, Posting
<1>12. Marked(p) => Marked(p)'
  BY <1>2, <1>5, <1>11 DEF Marked, At, Posting
<1>13. WorkAt(p)'
  <2>1. r.proc = IF Marked(p)' THEN "processed" ELSE IF p = Sweep THEN "failed" ELSE "pending"
    BY <1>3, <1>5, <1>11, <1>12 DEF WorkAt
  <2>2. k.at \notin {"ingress", "waiting"} BY <1>5
  <2>3. r.deliv = "pending" \/ r.reply # 0
    BY <1>2, <1>3, <1>5, <1>9 DEF WorkAt, Posting
  <2>4. QED BY <1>3, <1>5, <1>7, <1>10, <2>1, <2>2, <2>3 DEF WorkAt
<1>14. RowRefAt(e)'
  <2>1. row[e].proc = "processed" => r.proc = "processed" BY <1>5
  <2>2. (r.reply # 0 /\ Shared(r.reply)) => r.link = r.reply BY <1>5, <1>9
  <2>3. r.reply # 0 => TurnOf(e, r.reply) /\ Said(r.reply)
    BY <1>4, <1>5, <1>9 DEF RowRefAt
  <2>4. (r.reply # 0 /\ r.proc # "processed" /\ carries[e] \in Keyed) => IsKeyed(r.reply)
    BY <1>4, <1>5, <1>7, <1>9, <2>1 DEF RowRefAt
  <2>5. QED BY <1>5, <1>7, <1>8, <1>9, <2>2, <2>3, <2>4 DEF RowRefAt, TurnOf, IsKeyed, Shared, Said, Turns
<1>15. TaskRefAt(p)'
  <2>1. k.at \in {"bookkeeping", "deciding"} /\ k.at \notin Before /\ k.at \notin Posting
    BY <1>5 DEF Before, Posting
  <2>2. (r.reply # 0 /\ Shared(r.reply)) => task[p].turn = r.reply BY <1>5, <1>9
  <2>3. (p # Sweep \/ task[p].dedup) => r.reply \in {0, task[p].turn} BY <1>5, <1>9
  <2>4. QED BY <1>5, <1>7, <1>8, <1>9, <1>10, <2>1, <2>2, <2>3
            DEF TaskRefAt, TurnOf, IsKeyed, Shared, Said, Turns
<1>16. row'[e].proc # "none" /\ row'[e].deliv # "delivered"
  BY <1>3, <1>5, <1>7 DEF WorkAt
<1>17. MarkedAt(e)'
  <2>1. row[e].proc = "processed" => r.proc = "processed" BY <1>5
  <2>2. QED BY <1>4, <1>5, <1>7, <1>9, <1>16, <2>1 DEF MarkedAt
<1>18. LoopsKept(p, e)
  <2>1. \A q \in Procs \ {p} : At(q, "looping") => task[p].turn # task[q].turn
    BY <1>1, <1>2 DEF RefInv, LoopsAlone, LoopAt
  <2>2. QED BY <1>5, <1>7, <1>10, <2>1 DEF LoopsKept, At
<1>19. StakesKept(e)
  <2>1. \A q \in Procs : On(q, e)' => q = p
    BY <1>7 DEF Frame, On, Active, At, Ev
  <2>2. ~task[p].dedup => Stake(e, task[p].turn) BY <1>2 DEF Stake, On
  <2>3. k.at \notin Posting BY <1>5 DEF Posting
  <2>4. ASSUME NEW t \in 1..Len(turns'), Stake(e, t)' PROVE Stake(e, t)
    <3>1. \/ r.reply = t \/ (k.turn = t /\ ~k.dedup)
          \/ (task[p].turn = t /\ r.reply \notin {0, task[p].turn})
          \/ (task[p].turn = t /\ r.deliv \in {"failed", "dead_letter"})
      BY <1>5, <1>7, <1>9, <2>1, <2>3, <2>4 DEF Stake, Plain
    <3>2. row[e].reply = t => Stake(e, t) BY DEF Stake
    <3>3. r.reply = t => Stake(e, t) BY <1>5, <2>2, <3>2
    <3>4. r.reply \notin {0, task[p].turn} => ~task[p].dedup BY <1>5, <1>9
    <3>5. CASE task[p].turn = t /\ r.deliv \in {"failed", "dead_letter"}
      <4>1. row[e].deliv \in {"failed", "dead_letter"} /\ row[e].deliv # "pending" BY <1>5, <3>5
      <4>2. row[e].proc = "processed" BY <1>4, <4>1 DEF MarkedAt
      <4>3. Marked(p) BY <1>3, <4>2 DEF WorkAt
      <4>4. task[p].write = 3 BY <1>2, <4>3 DEF Marked, Posting
      <4>5. row[e].link = task[p].turn BY <1>2, <1>4, <4>4 DEF TaskRefAt
      <4>6. QED BY <3>5, <4>1, <4>2, <4>5 DEF Stake
    <3>6. QED BY <1>5, <2>2, <3>1, <3>3, <3>4, <3>5
  <2>5. QED BY <2>4 DEF StakesKept
<1>20. AckedCounted' /\ CountedAcked'
  BY <1>5, <1>7, <1>8, <1>9, <1>10, CountsKept
<1>21. DuesKept(e)
  <2>1. row[e].proc = "processed" => r.proc = "processed" BY <1>5
  <2>2. task[p].at \notin Posting BY <1>2 DEF Posting
  <2>3. QED BY <1>1, <1>2, <1>5, <1>7, <1>10, <1>16, <2>1, <2>2, DuesOfWork
<1>22. LockKept(p) /\ RepliesKept(p) BY <1>6, <1>8, <1>10 DEF LockKept, RepliesKept
<1>23. QED BY <1>7, <1>13, <1>14, <1>15, <1>17, <1>16, <1>18, <1>19, <1>20, <1>21, <1>22, AdvanceKeeps

\* With the flag free no loop runs.
LEMMA NoLoop ==
  ASSUME WorkInv, lock = NoOne
  PROVE  \A q \in Procs : ~At(q, "looping")
BY Names DEF WorkInv, LoopHoldsLock

TurnWritten(t, v) == turns' = [turns EXCEPT ![t] = v]

\* The turn of a loop that comes to its end: nobody has referred to it.
LEMMA LoopOver ==
  ASSUME Types, WorkInv, RefInv, NEW p \in Procs, NEW e \in Events, e = Ev(p), At(p, "looping"),
         NEW t \in Nat, t = task[p].turn, NEW v \in UserRows,
         v.msg = turns[t].msg, v.keyed = turns[t].keyed, TurnWritten(t, v)
  PROVE  /\ t # 0 /\ t \in Turns /\ TurnOf(e, t) /\ ~Said(t)
         /\ turns' \in Seq(UserRows) /\ Len(turns') = Len(turns) /\ turns'[t] = v
         /\ Turns' = Turns /\ TurnsGrow
         /\ \A u \in Turns : u # t => turns'[u] = turns[u]
<1>1. Active(p) BY DEF Active, At
<1>2. t # 0 /\ TurnOf(e, t)
  BY <1>1 DEF RefInv, TaskRefs, TaskRefAt, At, Before
<1>3. t \in Turns BY <1>2 DEF TurnOf
<1>4. ~Said(t) BY DEF RefInv, LoopsAlone, LoopAt
<1>5. turns \in Seq(UserRows) /\ turns' = [turns EXCEPT ![t] = v] BY DEF Types, TurnWritten
<1>6. turns' \in Seq(UserRows) /\ Len(turns') = Len(turns)
  BY <1>3, <1>5, ExceptSeq DEF Turns
<1>7. turns'[t] = v /\ \A u \in Turns : u # t => turns'[u] = turns[u]
  BY <1>3, <1>5 DEF Turns
<1>8. Turns' = Turns BY <1>6 DEF Turns
<1>9. TurnsGrow BY <1>4, <1>6, <1>7 DEF TurnsGrow, Turns
<1>10. QED BY <1>2, <1>3, <1>4, <1>6, <1>7, <1>8, <1>9

\* What a loop gets into its row is of the type of the row.
LEMMA StreamedNat ==
  ASSUME Types, NEW p \in Procs, Ev(p) \in Events, NEW size \in Streamed(p)
  PROVE  size \in Nat
<1>1. Segments(Msg(p)) \in Nat BY DeliveryAssumption DEF Types, Msg
<1>2. QED BY <1>1 DEF Streamed

LEMMA EndedTypes ==
  ASSUME NEW u \in UserRows, NEW size \in Nat
  PROVE  /\ [u EXCEPT !.size = size] \in UserRows
         /\ [u EXCEPT !.size = size].msg = u.msg /\ [u EXCEPT !.size = size].keyed = u.keyed
         /\ \A end \in {"silent", "ended"} : \E v \in UserRows :
              /\ v = [u EXCEPT !.size = size, !.end = end]
              /\ v.msg = u.msg /\ v.keyed = u.keyed /\ v.end = end
<1>1. /\ [u EXCEPT !.size = size] \in UserRows
      /\ [u EXCEPT !.size = size].msg = u.msg /\ [u EXCEPT !.size = size].keyed = u.keyed
  BY DEF UserRows
<1>2. ASSUME NEW end \in {"silent", "ended"}
      PROVE  \E v \in UserRows : /\ v = [u EXCEPT !.size = size, !.end = end]
                                 /\ v.msg = u.msg /\ v.keyed = u.keyed /\ v.end = end
  <2> DEFINE v == [u EXCEPT !.size = size, !.end = end]
  <2>1. v \in UserRows BY DEF UserRows
  <2>2. v.msg = u.msg /\ v.keyed = u.keyed /\ v.end = end BY DEF UserRows
  <2>3. v = [u EXCEPT !.size = size, !.end = end] OBVIOUS
  <2> HIDE DEF v
  <2>4. QED BY <2>1, <2>2, <2>3
<1>3. QED BY <1>1, <1>2

\* The row of the event keeps its references.
LEMMA LoopRow ==
  ASSUME RefInv, NEW e \in Events, NEW t \in Nat, ~Said(t), TurnsGrow, Turns' = Turns,
         carries' = carries,
         row'[e].link = row[e].link, row'[e].reply = row[e].reply,
         row'[e].proc # "processed", row[e].proc # "processed"
  PROVE  RowRefAt(e)' /\ (row[e].reply # 0 => (Shared(row[e].reply)' <=> Shared(row[e].reply)))
<1>1. RowRefAt(e) BY DEF RefInv, RowRefs
<1>2. \A u \in Turns : /\ turns'[u].msg = turns[u].msg /\ turns'[u].keyed = turns[u].keyed
                       /\ Said(u) => turns'[u] = turns[u]
  BY DEF TurnsGrow
<1>3. row[e].link # 0 => (TurnOf(e, row[e].link))'
  BY <1>1, <1>2 DEF RowRefAt, TurnOf
<1>4. CASE row[e].reply = 0 BY <1>3, <1>4 DEF RowRefAt
<1>5. CASE row[e].reply # 0
  <2>1. TurnOf(e, row[e].reply) /\ Said(row[e].reply) /\ row[e].reply \in Turns
    BY <1>1, <1>5 DEF RowRefAt, TurnOf
  <2>2. turns'[row[e].reply] = turns[row[e].reply] BY <1>2, <2>1
  <2>3. (TurnOf(e, row[e].reply))' /\ (Said(row[e].reply))'
    BY <2>1, <2>2 DEF TurnOf, Said
  <2>4. /\ Shared(row[e].reply)' <=> Shared(row[e].reply)
        /\ IsKeyed(row[e].reply)' <=> IsKeyed(row[e].reply)
    BY <2>2 DEF Shared, IsKeyed
  <2>5. QED BY <1>1, <1>3, <1>5, <2>3, <2>4 DEF RowRefAt
<1>6. QED BY <1>4, <1>5

LEMMA LoopEndsKeeps ==
  ASSUME IInv, NEW p \in Procs, NEW e \in Events, e = Ev(p), NEW size \in Streamed(p),
         NEW end \in {"silent", "ended"}, NEW known \in BOOLEAN, LoopEnds(p, size, end, known)
  PROVE  IInv'
<1>1. Types /\ WorkInv /\ RefInv BY DEF IInv
<1>2. Active(p) /\ task[p].at = "looping" /\ At(p, "looping") /\ ~Marked(p)
  BY DEF LoopEnds, Active, At, Marked, Posting
<1>3. task[p] \in Works /\ row[e] \in Rows /\ task[p].ev = e /\ WorkAt(p) BY <1>1, <1>2, AtWork
<1>4. MarkedAt(e) /\ RowRefAt(e) /\ TaskRefAt(p)
  BY <1>1, <1>2 DEF WorkInv, RefInv, MarkedFirst, RowRefs, TaskRefs
<1>5. PICK t \in Nat : t = task[p].turn BY <1>3 DEF Works
<1>6. PICK n \in Nat : n = (IF known THEN t ELSE 0) OBVIOUS
<1>7. PICK k \in Works : k = [task[p] EXCEPT !.at = "bookkeeping", !.reply = n]
  BY <1>3, TaskTypes
<1>8. PICK r \in Rows : r = row[e] BY <1>3
<1>9. /\ t # 0 /\ TurnOf(e, t) /\ t \in Turns /\ ~task[p].dedup /\ task[p].write = 1
      /\ (row[e].reply # 0 /\ Shared(row[e].reply)) => t = row[e].reply
      /\ p # Sweep => row[e].reply \in {0, t}
      /\ (p # Sweep /\ carries[p] \in Keyed) => IsKeyed(t)
  BY <1>2, <1>4, <1>5 DEF TaskRefAt, Before, TurnOf
<1>10. PICK v \in UserRows : /\ v = [turns[t] EXCEPT !.size = size, !.end = end]
                             /\ v.msg = turns[t].msg /\ v.keyed = turns[t].keyed
                             /\ v.end = end
  <2>1. turns[t] \in UserRows BY <1>1, <1>9 DEF Types, Turns
  <2>2. size \in Nat BY <1>1, StreamedNat
  <2>3. \A m \in {"silent", "ended"} : \E v \in UserRows :
              /\ v = [turns[t] EXCEPT !.size = size, !.end = m]
              /\ v.msg = turns[t].msg /\ v.keyed = turns[t].keyed /\ v.end = m
    BY <2>1, <2>2, EndedTypes
  <2>4. QED BY <2>3
<1>11. /\ Changes(p, e, k, r) /\ lock' = NoOne /\ replays' = replays /\ redeliver' = redeliver
       /\ acked' = acked /\ taken' = taken /\ torn' = torn
       /\ turns' = [turns EXCEPT ![t] = v]
  BY <1>1, <1>5, <1>6, <1>7, <1>8, <1>10 DEF LoopEnds, Goes, Changes, Types, history
<1>12. /\ k.at = "bookkeeping" /\ k.reply \in {0, t} /\ k.ev = e /\ k.turn = t
       /\ ~k.dedup /\ k.fresh = task[p].fresh /\ k.write = 1
  BY <1>3, <1>5, <1>6, <1>7, <1>9 DEF Works
<1>13. /\ ~Said(t) /\ turns' \in Seq(UserRows) /\ Len(turns') = Len(turns) /\ turns'[t] = v
       /\ Turns' = Turns /\ TurnsGrow /\ \A u \in Turns : u # t => turns'[u] = turns[u]
  <2>1. v.msg = turns[t].msg /\ v.keyed = turns[t].keyed BY <1>10
  <2>2. TurnWritten(t, v) BY <1>11 DEF TurnWritten
  <2>3. At(p, "looping") BY <1>2
  <2>4. QED BY <1>1, <1>5, <2>1, <2>2, <2>3, LoopOver
<1>14. /\ Types' /\ Frame(p, e) /\ row'[e] = r /\ task'[p] = k
       /\ p # Sweep => p = e
  <2>1. /\ acked \subseteq acked' /\ acked' \subseteq Nat \X Nat /\ taken \subseteq taken'
        /\ torn \subseteq torn'
    BY <1>1, <1>11 DEF Types
  <2>2. QED BY <1>1, <1>2, <1>11, <1>12, <1>13, <2>1, WorkStep
<1>15. Active(p)' /\ ~At(p, "looping")' /\ Ev(p)' = e /\ ~Marked(p)' /\ ~At(p, "acknowledged")
  BY <1>2, <1>12, <1>14 DEF Active, At, Ev, Marked, Posting
<1>16. carries' = carries BY <1>11 DEF Changes
<1>17. row[e].proc # "processed" /\ row[e].deliv = "pending" /\ row[e].count = 0
  BY <1>2, <1>3, <1>4 DEF WorkAt, MarkedAt
<1>18. WorkAt(p)'
  BY <1>2, <1>3, <1>8, <1>12, <1>14, <1>15, <1>17 DEF WorkAt
<1>19. RowRefAt(e)' /\ (row[e].reply # 0 => (Shared(row[e].reply)' <=> Shared(row[e].reply)))
  BY <1>1, <1>8, <1>13, <1>14, <1>16, <1>17, LoopRow
<1>20. TaskRefAt(p)'
  <2>1. k.at \notin Before \cup {"looping"} /\ k.at \notin Posting BY <1>12 DEF Before, Posting
  <2>2. TurnOf(e, t)' /\ Said(t)' /\ (IsKeyed(t)' <=> IsKeyed(t))
    BY <1>9, <1>10, <1>13, <1>16 DEF TurnOf, Said, IsKeyed
  <2>3. (TurnOf(Ev(p), task[p].turn))' /\ (Said(task[p].turn))' /\ (IsKeyed(task[p].turn)' <=> IsKeyed(t))
    BY <1>12, <1>14, <1>15, <2>2 DEF TurnOf, Said, IsKeyed
  <2>4. (row[Ev(p)].reply # 0 /\ Shared(row[Ev(p)].reply))' => t = row[e].reply
    BY <1>8, <1>9, <1>14, <1>15, <1>19
  <2>5. QED BY <1>8, <1>9, <1>12, <1>14, <1>15, <1>16, <1>17, <2>1, <2>3, <2>4 DEF TaskRefAt, Posting
<1>21. MarkedAt(e)' BY <1>4, <1>8, <1>14 DEF MarkedAt
<1>22. row'[e].proc # "none" /\ row'[e].deliv # "delivered"
  BY <1>3, <1>8, <1>14 DEF WorkAt
<1>23. \A q \in Procs \ {p} : ~At(q, "looping")
  BY <1>1, <1>2 DEF WorkInv, LoopHoldsLock
<1>24. LoopsKept(p, e) BY <1>12, <1>14, <1>15, <1>23 DEF LoopsKept, At
<1>25. StakesKept(e)
  <2>1. \A q \in Procs : On(q, e)' => q = p
    BY <1>14 DEF Frame, On, Active, At, Ev
  <2>2. On(p, e) BY <1>2 DEF On
  <2>3. ASSUME NEW u \in 1..Len(turns'), Stake(e, u)' PROVE Stake(e, u)
    <3>1. row[e].reply = u \/ t = u \/ (row[e].link = u /\ ~Plain(e))
      BY <1>8, <1>12, <1>14, <1>17, <2>1, <2>3 DEF Stake, Plain
    <3>2. QED BY <1>5, <1>9, <2>2, <3>1 DEF Stake
  <2>4. QED BY <2>3 DEF StakesKept
<1>26. AckedCounted' /\ CountedAcked'
  BY <1>8, <1>11, <1>14, <1>15, <1>17, CountsKept
<1>27. DuesKept(e)
  <2>1. task[p].at \notin Posting BY <1>2 DEF Posting
  <2>2. turns'[task[p].turn].end # "none" BY <1>5, <1>10, <1>13
  <2>3. QED BY <1>1, <1>2, <1>8, <1>12, <1>14, <1>15, <1>22, <2>1, <2>2, DuesOfWork
<1>28. LockKept(p) /\ RepliesKept(p)
  BY <1>2, <1>5, <1>11, <1>13 DEF LockKept, RepliesKept
<1>29. QED BY <1>14, <1>18, <1>19, <1>20, <1>21, <1>22, <1>24, <1>25, <1>26, <1>27, <1>28, AdvanceKeeps

LEMMA LoopThrowsKeeps ==
  ASSUME IInv, NEW p \in Procs, NEW e \in Events, e = Ev(p), NEW size \in Streamed(p),
         NEW fatal \in BOOLEAN, LoopThrows(p, size, fatal)
  PROVE  IInv'
<1>1. Types /\ WorkInv /\ RefInv BY DEF IInv
<1>2. Active(p) /\ task[p].at = "looping" /\ At(p, "looping") /\ ~Marked(p)
  BY DEF LoopThrows, Active, At, Marked, Posting
<1>3. task[p] \in Works /\ row[e] \in Rows /\ WorkAt(p) BY <1>1, <1>2, AtWork
<1>4. MarkedAt(e) /\ RowRefAt(e) BY <1>1 DEF WorkInv, RefInv, MarkedFirst, RowRefs
<1>5. PICK t \in Nat : t = task[p].turn BY <1>3 DEF Works
<1>6. t \in Turns
  BY <1>1, <1>2, <1>5 DEF RefInv, TaskRefs, TaskRefAt, Before, TurnOf
<1>7. PICK r \in Rows : r = ProcessingFailed(row[e], fatal) BY <1>3, RowTypes
<1>8. PICK v \in UserRows : /\ v = [turns[t] EXCEPT !.size = size]
                            /\ v.msg = turns[t].msg /\ v.keyed = turns[t].keyed
  <2>1. turns[t] \in UserRows BY <1>1, <1>6 DEF Types, Turns
  <2>2. size \in Nat BY <1>1, StreamedNat
  <2>3. QED BY <2>1, <2>2, EndedTypes
<1>9. /\ Changes(p, e, NoTask, r) /\ lock' = NoOne /\ replays' = replays
      /\ redeliver' = redeliver /\ acked' = acked /\ taken' = taken /\ torn' = torn
      /\ turns' = [turns EXCEPT ![t] = v]
  BY <1>5, <1>7, <1>8 DEF LoopThrows, Done, Changes, history
<1>10. /\ ~Said(t) /\ turns' \in Seq(UserRows) /\ Len(turns') = Len(turns)
       /\ Turns' = Turns /\ TurnsGrow /\ \A u \in Turns : u # t => turns'[u] = turns[u]
  <2>1. v.msg = turns[t].msg /\ v.keyed = turns[t].keyed BY <1>8
  <2>2. TurnWritten(t, v) BY <1>9 DEF TurnWritten
  <2>3. At(p, "looping") BY <1>2
  <2>4. QED BY <1>1, <1>5, <2>1, <2>2, <2>3, LoopOver
<1>11. /\ Types' /\ Frame(p, e) /\ row'[e] = r /\ task'[p] = NoTask
       /\ p # Sweep => p = e
  <2>1. /\ acked \subseteq acked' /\ acked' \subseteq Nat \X Nat /\ taken \subseteq taken'
        /\ torn \subseteq torn'
    BY <1>1, <1>9 DEF Types
  <2>2. QED BY <1>1, <1>2, <1>9, <1>10, <2>1, WorkStep
<1>12. ~Active(p)' /\ ~At(p, "looping")' /\ ~At(p, "processing")' /\ ~At(p, "acknowledged")
  BY <1>2, <1>11 DEF Active, At, NoTask
<1>13. /\ row[e].proc \notin {"processed", "none"} /\ row[e].deliv = "pending" /\ row[e].count = 0
  BY <1>2, <1>3, <1>4 DEF WorkAt, MarkedAt
<1>14. /\ r.deliv = row[e].deliv /\ r.proc \in {"failed", "dead_letter"}
       /\ r.reply = row[e].reply /\ r.link = row[e].link /\ r.count = row[e].count
  BY <1>3, <1>7 DEF ProcessingFailed, Rows
<1>15. carries' = carries BY <1>9 DEF Changes
<1>16. RowRefAt(e)'
  BY <1>1, <1>10, <1>11, <1>13, <1>14, <1>15, LoopRow
<1>17. MarkedAt(e)' BY <1>11, <1>13, <1>14 DEF MarkedAt
<1>18. row'[e].proc # "none" /\ row'[e].deliv # "delivered" BY <1>11, <1>13, <1>14
<1>19. \A q \in Procs \ {p} : ~At(q, "looping")
  BY <1>1, <1>2 DEF WorkInv, LoopHoldsLock
<1>20. LoopsKept(p, e) BY <1>12, <1>19 DEF LoopsKept
<1>21. \A q \in Procs : ~On(q, e)'
  BY <1>11, <1>12 DEF Frame, On, Active, At, Ev
<1>22. StakesKept(e)
  <2>1. ASSUME NEW u \in 1..Len(turns'), Stake(e, u)' PROVE Stake(e, u)
    BY <1>11, <1>13, <1>14, <1>21, <2>1 DEF Stake, Plain
  <2>2. QED BY <2>1 DEF StakesKept
<1>23. AckedCounted' /\ CountedAcked'
  BY <1>9, <1>11, <1>12, <1>13, <1>14, CountsKept
<1>24. DuesKept(e)
  <2>1. ~Owes(e) BY <1>13 DEF Owes
  <2>2. \A u \in Turns : Reruns(e, u) => Reruns(e, u)'
    BY <1>18, <1>21 DEF Reruns
  <2>3. QED BY <2>1, <2>2 DEF DuesKept
<1>25. LockKept(p) /\ RepliesKept(p)
  BY <1>2, <1>5, <1>9, <1>10 DEF LockKept, RepliesKept
<1>26. QED BY <1>11, <1>12, <1>16, <1>17, <1>18, <1>20, <1>22, <1>23, <1>24, <1>25, AdvanceKeeps

\* An earlier ingress wrote the user row: the sweep runs the turn again when it
\* has no reply.
LEMMA DeduplicatedKeeps ==
  ASSUME IInv, NEW p \in Procs, NEW e \in Events, e = Ev(p), Deduplicated(p)
  PROVE  IInv'
<1>1. Types /\ WorkInv /\ RefInv BY DEF IInv
<1>2. Active(p) /\ task[p].at = "processing" /\ ~Marked(p) /\ lock = NoOne
  BY DEF Deduplicated, Active, At, Marked, Posting
<1>3. task[p] \in Works /\ row[e] \in Rows /\ task[p].ev = e /\ WorkAt(p) BY <1>1, <1>2, AtWork
<1>4. MarkedAt(e) /\ RowRefAt(e) /\ TaskRefAt(p)
  BY <1>1, <1>2 DEF WorkInv, RefInv, MarkedFirst, RowRefs, TaskRefs
<1>5. PICK t \in Original(Msg(p)) :
        Goes(p, IF NeedsFreshRun(p, t) THEN [task[p] EXCEPT !.fresh = TRUE]
                ELSE [task[p] EXCEPT !.at = "bookkeeping", !.turn = t, !.dedup = TRUE])
  BY DEF Deduplicated
<1>6. t \in Turns /\ TurnOf(e, t) /\ IsKeyed(t) /\ t \in Nat /\ t # 0
  BY <1>5 DEF Original, Msg, TurnOf, IsKeyed, Turns
<1>7. \A u \in Turns : (IsKeyed(u) /\ turns[u].msg = carries[e]) => u = t
  BY <1>1, <1>6 DEF RefInv, KeyedOnce, TurnOf
<1>8. PICK k \in Works :
        k = IF NeedsFreshRun(p, t) THEN [task[p] EXCEPT !.fresh = TRUE]
            ELSE [task[p] EXCEPT !.at = "bookkeeping", !.turn = t, !.dedup = TRUE]
  BY <1>3, <1>6, TaskTypes
<1>9. PICK r \in Rows : r = row[e] BY <1>3
<1>10. Changes(p, e, k, r) /\ Quiet /\ lock' = lock
  BY <1>1, <1>5, <1>8, <1>9 DEF Deduplicated, Goes, Changes, Quiet, Types, rowVars, history
<1>11. k.ev = e /\ k.write = task[p].write /\ k.reply = task[p].reply
  BY <1>3, <1>8 DEF Works
<1>12. /\ Types' /\ Frame(p, e) /\ row'[e] = r /\ task'[p] = k
       /\ p # Sweep => p = e
  BY <1>1, <1>2, <1>10, <1>11, QuietStep
<1>13. turns' = turns /\ acked' = acked /\ carries' = carries
  BY <1>10 DEF Quiet, Changes
<1>14. \A q \in Procs : ~At(q, "looping") BY <1>1, <1>2, NoLoop
<1>15. /\ k.at \in {"processing", "bookkeeping"}
       /\ k.at = "processing" => /\ p = Sweep /\ turns[t].size = 0 /\ ~k.dedup
                                 /\ k.turn = task[p].turn /\ k.fresh
       /\ k.at = "bookkeeping" => /\ k.turn = t /\ k.dedup /\ k.fresh = task[p].fresh
                                  /\ p = Sweep => Said(t)
  <2>1. ~task[p].dedup BY <1>2, <1>4 DEF TaskRefAt, Before
  <2>2. CASE NeedsFreshRun(p, t)
    <3>1. k = [task[p] EXCEPT !.fresh = TRUE] BY <1>8, <2>2
    <3>2. turns[t] \in UserRows BY <1>1, <1>6 DEF Types, Turns
    <3>3. turns[t].size \in Nat BY <3>2 DEF UserRows
    <3>4. p = Sweep /\ turns[t].size = 0 BY <2>2, <3>3 DEF NeedsFreshRun, Found
    <3>5. QED BY <1>2, <1>3, <2>1, <3>1, <3>4 DEF Works
  <2>3. CASE ~NeedsFreshRun(p, t)
    <3>1. k = [task[p] EXCEPT !.at = "bookkeeping", !.turn = t, !.dedup = TRUE] BY <1>8, <2>3
    <3>2. p = Sweep => Said(t) BY <2>3 DEF NeedsFreshRun, Found, Said
    <3>3. QED BY <1>2, <1>3, <3>1, <3>2 DEF Works
  <2>4. QED BY <2>2, <2>3
<1>16. Active(p)' /\ ~At(p, "looping")' /\ Ev(p)' = e /\ ~Marked(p)' /\ ~At(p, "acknowledged")
  <2>1. k.write = 1 BY <1>2, <1>4, <1>11 DEF TaskRefAt, Before
  <2>2. QED BY <1>2, <1>11, <1>12, <1>15, <2>1 DEF Active, At, Ev, Marked, Posting
<1>17. row[e].proc # "processed" /\ row[e].deliv = "pending" /\ row[e].count = 0
  BY <1>2, <1>3, <1>4 DEF WorkAt, MarkedAt
<1>18. WorkAt(p)'
  BY <1>2, <1>3, <1>9, <1>12, <1>15, <1>16, <1>17, Names DEF WorkAt
<1>19. MarkedAt(e)' BY <1>4, <1>9, <1>12 DEF MarkedAt
<1>20. RowRefAt(e)' BY <1>4, <1>9, <1>12, <1>13 DEF RowRefAt, TurnOf, IsKeyed, Shared, Said, Turns
<1>21. TaskRefAt(p)'
  <2>1. CASE k.at = "processing"
    BY <1>2, <1>4, <1>9, <1>11, <1>12, <1>13, <1>15, <1>16, <2>1
       DEF TaskRefAt, TurnOf, IsKeyed, Shared, Said, Turns, Before, Posting
  <2>2. CASE k.at = "bookkeeping"
    <3>1. k.turn = t /\ k.dedup BY <1>15, <2>2
    <3>2. k.reply = 0 /\ k.write = 1 BY <1>2, <1>4, <1>11 DEF TaskRefAt, Before
    <3>3. (row[e].reply # 0 /\ IsKeyed(row[e].reply)) => t = row[e].reply
      BY <1>4, <1>7 DEF RowRefAt, TurnOf
    <3>4. carries[e] \in Keyed BY <1>1, <1>6 DEF RefInv, KeyedOnce, TurnOf
    <3>5. row[e].reply \in {0, t} BY <1>4, <1>17, <3>3, <3>4 DEF RowRefAt
    <3>6. TurnOf(e, t)' /\ IsKeyed(t)' /\ (Said(t)' <=> Said(t))
      BY <1>6, <1>13 DEF TurnOf, IsKeyed, Said, Turns
    <3>7. /\ (TurnOf(Ev(p), task[p].turn))' /\ (IsKeyed(task[p].turn))'
          /\ (Said(task[p].turn))' \/ p # Sweep
      BY <1>12, <1>15, <1>16, <2>2, <3>1, <3>6 DEF TurnOf, IsKeyed, Said
    <3>8. k.at \notin Before \cup {"looping"} /\ k.at \notin Posting BY <2>2 DEF Before, Posting
    <3>9. QED BY <1>6, <1>9, <1>12, <1>16, <1>17, <2>2, <3>1, <3>2, <3>5, <3>7, <3>8 DEF TaskRefAt
  <2>3. QED BY <1>15, <2>1, <2>2
<1>22. row'[e].proc # "none" /\ row'[e].deliv # "delivered"
  BY <1>3, <1>9, <1>12 DEF WorkAt
<1>23. LoopsKept(p, e)
  <2>1. ASSUME k.at = "processing" PROVE FreshAt(p)'
    <3>1. Msg(p)' = carries[e] BY <1>13, <1>16 DEF Msg
    <3>2. Original(Msg(p))' = {t}
      BY <1>6, <1>7, <1>13, <3>1 DEF Original, Turns, TurnOf, IsKeyed
    <3>3. \A q \in Procs : ~At(q, "looping")' BY <1>12, <1>14, <1>16 DEF Frame, At
    <3>4. QED BY <1>13, <1>15, <2>1, <3>2, <3>3 DEF FreshAt
  <2>2. QED BY <1>12, <1>14, <1>16, <2>1 DEF LoopsKept, At
<1>24. StakesKept(e)
  <2>1. \A q \in Procs : On(q, e)' => q = p
    BY <1>12 DEF Frame, On, Active, At, Ev
  <2>2. On(p, e) BY <1>2 DEF On
  <2>3. ASSUME NEW u \in 1..Len(turns'), Stake(e, u)' PROVE Stake(e, u)
    <3>1. row[e].reply = u \/ (k.turn = u /\ k.at = "processing") \/ (row[e].link = u /\ ~Plain(e))
      BY <1>9, <1>12, <1>15, <1>17, <2>1, <2>3 DEF Stake, Plain, Posting
    <3>2. k.at = "processing" => task[p].turn = k.turn /\ ~task[p].dedup
      BY <1>2, <1>4, <1>15 DEF TaskRefAt, Before
    <3>3. QED BY <2>2, <3>1, <3>2 DEF Stake
  <2>4. QED BY <2>3 DEF StakesKept
<1>25. AckedCounted' /\ CountedAcked'
  BY <1>9, <1>12, <1>13, <1>16, <1>17, CountsKept
<1>26. DuesKept(e)
  <2>1. task[p].at \notin Posting /\ ~At(p, "looping") BY <1>2 DEF Posting, At
  <2>2. CASE p = Sweep /\ k.at = "bookkeeping"
    <3>1. ~Owes(e) BY <1>2, <2>1 DEF Owes, On
    <3>2. Said(t)' BY <1>13, <1>15, <2>2 DEF Said
    <3>3. \A u \in Turns : ~(carries[e] = turns[u].msg /\ IsKeyed(u) /\ ~Said(u)')
      BY <1>7, <3>2
    <3>4. QED BY <3>1, <3>3 DEF DuesKept
  <2>3. CASE p # Sweep \/ k.at = "processing"
    BY <1>1, <1>2, <1>9, <1>12, <1>15, <1>16, <1>22, <2>1, <2>3, DuesOfWork
  <2>4. QED BY <1>15, <2>2, <2>3
<1>27. LockKept(p) /\ RepliesKept(p) BY <1>10, <1>13, <1>14 DEF LockKept, RepliesKept
<1>28. QED BY <1>12, <1>18, <1>19, <1>20, <1>21, <1>22, <1>23, <1>24, <1>25, <1>26, <1>27, AdvanceKeeps

-----------------------------------------------------------------------------
(* A turn starts.                                                          *)

\* The new user row: no event has a reply yet that it would compete with.
LEMMA StartTurnKeeps ==
  ASSUME IInv, NEW p \in Procs, NEW e \in Events, e = Ev(p), StartTurn(p)
  PROVE  IInv'
<1>1. /\ Types /\ WorkInv /\ RefInv /\ OneStake /\ SiblingAnswers /\ CutShort
      /\ DeliveredMeansAnswered
  BY DEF IInv, StakeInv, AnswerInv
<1>2. Active(p) /\ task[p].at = "processing" /\ ~Marked(p) /\ lock = NoOne
  BY DEF StartTurn, Active, At, Marked, Posting
<1>3. task[p] \in Works /\ row[e] \in Rows /\ task[p].ev = e /\ WorkAt(p) BY <1>1, <1>2, AtWork
<1>4. MarkedAt(e) /\ RowRefAt(e) /\ TaskRefAt(p)
  BY <1>1, <1>2 DEF WorkInv, RefInv, MarkedFirst, RowRefs, TaskRefs
<1>5. PICK t \in Nat : t = Len(turns) + 1 BY <1>1 DEF Types
<1>6. PICK u \in UserRows :
        u = [msg |-> carries[e], size |-> 0, end |-> "none",
             keyed |-> carries[e] \in Keyed /\ ~task[p].fresh]
  <2>1. carries[e] \in Contents BY <1>1 DEF Types, Contents
  <2>2. (carries[e] \in Keyed /\ ~task[p].fresh) \in BOOLEAN OBVIOUS
  <2>3. \A b \in BOOLEAN : [msg |-> carries[e], size |-> 0, end |-> "none", keyed |-> b] \in UserRows
    BY <2>1 DEF UserRows
  <2>4. QED BY <2>2, <2>3
<1>7. PICK k \in Works : k = [Work("looping", e) EXCEPT !.turn = t]
  BY NewWork
<1>8. PICK r \in Rows : r = row[e] BY <1>3
<1>9. /\ Changes(p, e, k, r) /\ lock' = p /\ replays' = replays /\ redeliver' = redeliver
      /\ acked' = acked /\ taken' = taken /\ torn' = torn /\ turns' = Append(turns, u)
  BY <1>1, <1>5, <1>6, <1>7, <1>8 DEF StartTurn, Goes, Changes, Types, Msg, history
<1>10. /\ k.at = "looping" /\ k.turn = t /\ k.ev = e /\ ~k.dedup /\ k.write = 1 /\ k.reply = 0
       /\ ~k.fresh /\ task[p].turn = 0
  BY <1>2, <1>4, <1>7 DEF Work, TaskRefAt, Before
<1>11. /\ turns' \in Seq(UserRows) /\ Len(turns') = t /\ turns'[t] = u
       /\ \A i \in Turns : turns'[i] = turns[i] /\ i \in 1..Len(turns') /\ i # t
       /\ \A i \in 1..Len(turns') : i \in Turns \/ i = t
       /\ t # 0 /\ t \notin Turns /\ t \in 1..Len(turns')
  BY <1>1, <1>5, <1>9 DEF Types, Turns
<1>12. TurnsGrow BY <1>11 DEF TurnsGrow
<1>13. /\ Types' /\ Frame(p, e) /\ row'[e] = r /\ task'[p] = k
       /\ p # Sweep => p = e
  <2>1. /\ acked \subseteq acked' /\ acked' \subseteq Nat \X Nat /\ taken \subseteq taken'
        /\ torn \subseteq torn'
    BY <1>1, <1>9 DEF Types
  <2>2. QED BY <1>1, <1>2, <1>9, <1>10, <1>11, <1>12, <2>1, WorkStep
<1>14. /\ Active(p)' /\ At(p, "looping")' /\ Ev(p)' = e /\ ~Marked(p)' /\ carries' = carries
       /\ ~At(p, "acknowledged")
  BY <1>2, <1>9, <1>10, <1>13 DEF Active, At, Ev, Marked, Posting, Changes
<1>15. \A q \in Procs : ~At(q, "looping") BY <1>1, <1>2, NoLoop
<1>16. \A q \in Procs \ {p} : ~At(q, "looping")' BY <1>13, <1>15 DEF Frame, At
<1>17. /\ row[e].proc # "processed" /\ row[e].deliv = "pending" /\ row[e].count = 0
       /\ row[e].proc # "none"
  BY <1>2, <1>3, <1>4 DEF WorkAt, MarkedAt
<1>18. u.msg = carries[e] /\ u.size = 0 /\ u.end = "none" /\ (u.keyed <=> carries[e] \in Keyed /\ ~task[p].fresh)
  BY <1>6
<1>19. ~task[p].fresh => Original(carries[e]) = {}
  BY DEF StartTurn, Deduplicates, Msg
<1>20. \A v : TurnOf(e, v) => /\ TurnOf(e, v)' /\ (IsKeyed(v)' <=> IsKeyed(v))
                              /\ turns'[v] = turns[v]
                              /\ (Said(v)' <=> Said(v)) /\ (Shared(v)' <=> Shared(v))
  BY <1>11, <1>14 DEF TurnOf, IsKeyed, Said, Shared, Turns
<1>21. WorkInv'
  <2>1. WorkAt(p)'
    BY <1>2, <1>3, <1>8, <1>10, <1>13, <1>14, <1>17 DEF WorkAt
  <2>2. MarkedAt(e)' BY <1>4, <1>8, <1>13 DEF MarkedAt
  <2>3. LoopHoldsLock' BY <1>9, <1>14, <1>16 DEF LoopHoldsLock
  <2>4. QED BY <1>1, <1>13, <2>1, <2>2, <2>3, FrameWork
<1>22. RefInv'
  <2>1. KeyedOnce'
    <3>1. KeyedOnce BY <1>1 DEF RefInv
    <3>2. u.keyed => u.msg \in Keyed /\ \A i \in Turns : ~(turns[i].keyed /\ turns[i].msg = u.msg)
      BY <1>18, <1>19 DEF Original
    <3>3. \A i \in Turns' : i \in Turns \/ i = t BY <1>11 DEF Turns
    <3>4. \A i \in Turns' : IsKeyed(i)' => turns'[i].msg \in Keyed
      BY <1>11, <3>1, <3>2, <3>3 DEF KeyedOnce, IsKeyed
    <3>5. \A i, j \in Turns' : (IsKeyed(i)' /\ IsKeyed(j)' /\ turns'[i].msg = turns'[j].msg) => i = j
      BY <1>11, <3>1, <3>2, <3>3 DEF KeyedOnce, IsKeyed
    <3>6. QED BY <3>4, <3>5 DEF KeyedOnce
  <2>2. RowRefAt(e)'
    <3>1. PICK x \in Nat, y \in Nat : x = row[e].link /\ y = row[e].reply BY <1>3 DEF Rows
    <3>2. row'[e].link = x /\ row'[e].reply = y /\ row'[e].proc = row[e].proc
      BY <1>8, <1>13, <3>1
    <3>3. /\ x # 0 => TurnOf(e, x)'
          /\ y # 0 => TurnOf(e, y)' /\ Said(y)'
          /\ (y # 0 /\ Shared(y)') => x = y
          /\ (y # 0 /\ row[e].proc # "processed" /\ carries[e] \in Keyed) => IsKeyed(y)'
      BY <1>4, <1>20, <3>1 DEF RowRefAt
    <3>4. QED BY <1>14, <3>2, <3>3 DEF RowRefAt, TurnOf, Said, Shared, IsKeyed
  <2>3. ~(row[e].reply # 0 /\ Shared(row[e].reply))
    <3>1. SUFFICES ASSUME row[e].reply # 0, Shared(row[e].reply) PROVE FALSE
      OBVIOUS
    <3>2. row[e].reply \in Original(carries[e]) /\ turns[row[e].reply].size > 0
      BY <1>4, <3>1 DEF RowRefAt, TurnOf, Original, IsKeyed, Shared
    <3>3. task[p].fresh BY <1>19, <3>2
    <3>4. FreshAt(p) BY <1>1, <1>2, <3>3 DEF RefInv, LoopsAlone, At
    <3>5. QED BY <3>2, <3>4 DEF FreshAt, Msg
  <2>4. TaskRefAt(p)'
    <3>1. TurnOf(e, t)' /\ (IsKeyed(t)' <=> u.keyed)
      BY <1>11, <1>14, <1>18 DEF TurnOf, IsKeyed, Turns
    <3>2. ~(row'[e].reply # 0 /\ Shared(row[e].reply)')
      <4>1. row'[e].reply = row[e].reply BY <1>8, <1>13
      <4>2. ASSUME NEW v, v = row[e].reply, v # 0 PROVE ~Shared(v)'
        BY <1>4, <1>20, <2>3, <4>2 DEF RowRefAt
      <4>3. QED BY <4>1, <4>2 DEF Shared, IsKeyed
    <3>3. (p # Sweep /\ carries[p] \in Keyed) => u.keyed
      BY <1>3, <1>13, <1>18, Names DEF WorkAt
    <3>4. p # Sweep => row'[e].reply = 0
      BY <1>4, <1>8, <1>10, <1>13 DEF TaskRefAt
    <3>5. /\ (TurnOf(Ev(p), task[p].turn))' /\ (IsKeyed(task[p].turn)' <=> u.keyed)
      BY <1>10, <1>13, <1>14, <3>1 DEF TurnOf, IsKeyed
    <3>6. k.at \notin Before /\ k.at \notin Posting BY <1>10 DEF Before, Posting
    <3>7. QED BY <1>10, <1>11, <1>13, <1>14, <3>2, <3>3, <3>4, <3>5, <3>6 DEF TaskRefAt
  <2>5. LoopsAlone'
    <3>1. LoopAt(p)'
      <4>1. ~Said(t)' BY <1>11, <1>18 DEF Said
      <4>2. \A f \in Events : row'[f].link # t
        BY <1>1, <1>8, <1>11, <1>13 DEF RefInv, RowRefs, RowRefAt, TurnOf, Frame
      <4>3. ASSUME NEW q \in Procs \ {p}, Active(q)' PROVE task'[q].turn # t
        <5>1. task'[q] = task[q] /\ Active(q) BY <1>1, <1>13, <4>3, FrameOthers
        <5>2. QED BY <1>1, <1>11, <5>1 DEF RefInv, TaskRefs, TaskRefAt, TurnOf
      <4>4. QED BY <1>10, <1>13, <4>1, <4>2, <4>3 DEF LoopAt, Said
    <3>2. ASSUME NEW q \in Procs, At(q, "processing")', task'[q].fresh PROVE FreshAt(q)'
      <4>1. q # p BY <1>10, <1>13, <3>2 DEF At
      <4>2. Active(q)' BY <3>2 DEF Active, At
      <4>3. task'[q] = task[q] /\ Active(q) /\ Ev(q)' = Ev(q) /\ Ev(q) \in Events
        BY <1>1, <1>13, <4>1, <4>2, FrameOthers
      <4>4. FreshAt(q) BY <1>1, <3>2, <4>3 DEF RefInv, LoopsAlone, At
      <4>5. Msg(q)' = Msg(q) BY <1>14, <4>3 DEF Msg
      <4>6. u.keyed => u.msg # Msg(q) BY <1>18, <1>19, <4>4 DEF FreshAt
      <4>7. Original(Msg(q))' = Original(Msg(q))
        BY <1>11, <4>5, <4>6 DEF Original, Turns
      <4>8. \A v \in Original(Msg(q)) : v \in Turns /\ turns'[v] = turns[v] /\ v # t
        BY <1>11 DEF Original
      <4>9. \A s \in Procs : At(s, "looping")' => task'[s].turn = t
        BY <1>10, <1>13, <1>16
      <4>10. QED BY <4>4, <4>7, <4>8, <4>9 DEF FreshAt
    <3>3. QED BY <1>16, <3>1, <3>2 DEF LoopsAlone, At
  <2>6. QED BY <1>1, <1>13, <2>1, <2>2, <2>4, <2>5, FrameRefs
<1>23. StakeInv'
  <2>1. ASSUME NEW v \in 1..Len(turns'), turns'[v].size > 0, Stake(e, v)'
        PROVE  Stake(e, v)
    <3>1. \A q \in Procs : On(q, e)' => q = p
      BY <1>13 DEF Frame, On, Active, At, Ev
    <3>2. row[e].reply = v \/ v = t \/ (row[e].link = v /\ ~Plain(e))
      BY <1>8, <1>10, <1>13, <1>17, <2>1, <3>1 DEF Stake, Plain
    <3>3. v # t BY <1>11, <1>18, <2>1
    <3>4. QED BY <3>2, <3>3 DEF Stake
  <2>2. OneStake' BY <1>1, <1>11, <1>13, <2>1, FrameOneStake
  <2>3. AckedCounted' BY <1>8, <1>9, <1>13, <1>14, <1>17, CountsKept
  <2>4. QED BY <2>2, <2>3 DEF StakeInv
<1>24. AnswerInv'
  <2>1. CountedAcked' BY <1>8, <1>9, <1>13, <1>14, <1>17, CountsKept
  <2>2. ~Owes(e) BY <1>2 DEF Owes, On, Posting
  <2>3. \A f \in Events : row[f].link # 0 => turns'[row[f].link] = turns[row[f].link]
    BY <1>1, <1>11 DEF RefInv, RowRefs, RowRefAt, TurnOf
  <2>4. \A m : Resolved(m) => Resolved(m)' BY <1>13, <2>2, FrameResolved
  <2>5. PICK c : c = carries[e] OBVIOUS
  <2>6. row'[e].deliv # "delivered" /\ row'[e].proc # "none" BY <1>8, <1>13, <1>17
  <2>7. SiblingAnswers' BY <1>1, <1>13, <2>3, <2>6, <2>4, <2>5, FrameSiblings
  <2>8. \A v : (v = t \/ Reruns(e, v)) => Reruns(e, v)'
    <3>1. \A q \in Procs : On(q, e)' => q = p
      BY <1>13 DEF Frame, On, Active, At, Ev
    <3>2. \A v : Reruns(e, v) => p = Sweep
      BY <1>2 DEF Reruns, On, At
    <3>3. QED BY <1>10, <1>13, <1>14, <2>6, <3>1, <3>2 DEF Reruns
  <2>9. CutShort' BY <1>1, <1>11, <1>13, <1>18, <2>8, <2>4, <2>5, FrameCutShort
  <2>10. DeliveredMeansAnswered' BY <1>1, <1>13, <2>6, <2>5, FrameAnswered
  <2>11. QED BY <2>1, <2>7, <2>9, <2>10 DEF AnswerInv
<1>25. QED BY <1>13, <1>21, <1>22, <1>23, <1>24 DEF IInv

-----------------------------------------------------------------------------
(* Steps on a row that nobody works on.                                    *)

\* Nothing but a status and a budget of the row changes.
LEMMA IdleKeeps ==
  ASSUME IInv, NEW p \in Procs, NEW e \in Events, p # Sweep => p = e,
         ~Active(p), \A q \in Procs : ~On(q, e),
         NEW r \in Rows, row' = [row EXCEPT ![e] = r],
         task' = task, UNCHANGED <<carries, turns, lock, acked, taken, torn>>,
         replays' \subseteq replays \ {e},
         redeliver' \subseteq redeliver, \A s \in redeliver' : s.ev # e,
         /\ r.reply = row[e].reply /\ r.link = row[e].link
         /\ r.count = row[e].count /\ r.old = row[e].old,
         r.proc # "none", row[e].proc = "processed" => r.proc = "processed",
         r.deliv # "delivered",
         r.deliv = row[e].deliv \/ {r.deliv, row[e].deliv} \subseteq {"failed", "dead_letter"}
  PROVE  IInv'
<1>1. Types /\ WorkInv /\ RefInv BY DEF IInv
<1>2. PICK k \in Works \cup {NoTask} : k = task[p] BY <1>1 DEF Types
<1>3. k = NoTask
  BY <1>2 DEF Active, At, Works, Stages, Before, Posting
<1>4. Changes(p, e, k, r) BY <1>1, <1>2 DEF Changes, Types
<1>5. Types' /\ Frame(p, e) /\ row'[e] = r /\ task'[p] = k
  <2>1. TurnsGrow BY SameTurnsGrow
  <2>2. turns' \in Seq(UserRows) /\ acked \subseteq acked' /\ acked' \subseteq Nat \X Nat
        /\ taken \subseteq taken' /\ torn \subseteq torn'
    BY <1>1 DEF Types
  <2>3. (k # NoTask => k.ev = e) /\ \A q \in Procs \ {p} : ~On(q, e) BY <1>3
  <2>4. QED BY <1>1, <1>4, <2>1, <2>2, <2>3, ChangeFrame
<1>6. MarkedAt(e) /\ RowRefAt(e) BY <1>1 DEF WorkInv, RefInv, MarkedFirst, RowRefs
<1>7. \A q \in Procs : ~On(q, e)' BY DEF On, Active, At, Ev
<1>8. /\ ~Active(p)' /\ ~At(p, "looping")' /\ ~At(p, "processing")'
      /\ ~At(p, "acknowledged") /\ ~At(p, "looping")
  BY <1>2, <1>3, <1>5 DEF Active, At, NoTask
<1>9. Plain(e)' <=> Plain(e) BY <1>5 DEF Plain
<1>10. row[e].deliv # "pending" \/ row[e].count # 0 => r.proc = "processed"
  BY <1>6 DEF MarkedAt
<1>11. MarkedAt(e)' BY <1>5, <1>6, <1>10 DEF MarkedAt
<1>12. RowRefAt(e)' BY <1>5, <1>6 DEF RowRefAt, TurnOf, IsKeyed, Shared, Said, Turns
<1>13. LoopsKept(p, e)
  <2>1. \A q \in Procs \ {p} : At(q, "looping") => row[e].link # task[q].turn
    BY <1>1 DEF RefInv, LoopsAlone, LoopAt
  <2>2. QED BY <1>5, <1>8, <2>1 DEF LoopsKept, At
<1>14. StakesKept(e)
  <2>1. ASSUME NEW t \in 1..Len(turns'), Stake(e, t)' PROVE Stake(e, t)
    <3>1. CASE r.reply = t \/ (row[e].link = t /\ ~Plain(e)) BY <3>1 DEF Stake
    <3>2. CASE ~(r.reply = t \/ (row[e].link = t /\ ~Plain(e)))
      <4>1. r.link = t /\ (r.count # 0 \/ r.deliv \in {"failed", "dead_letter"})
        BY <1>5, <1>7, <1>9, <2>1, <3>2 DEF Stake
      <4>2. row[e].count # 0 \/ row[e].deliv \in {"failed", "dead_letter"} BY <4>1
      <4>3. row[e].proc = "processed" BY <1>6, <4>2 DEF MarkedAt
      <4>4. QED BY <4>1, <4>2, <4>3 DEF Stake
    <3>3. QED BY <3>1, <3>2
  <2>2. QED BY <2>1 DEF StakesKept
<1>15. AckedCounted' /\ CountedAcked'
  BY <1>5, <1>6, <1>8, CountsKept DEF MarkedAt
<1>16. DuesKept(e)
  <2>1. Owes(e) => Owes(e)' BY <1>5, <1>7, <1>9 DEF Owes
  <2>2. \A t \in Turns : Reruns(e, t) => Reruns(e, t)' BY <1>5, <1>7 DEF Reruns
  <2>3. QED BY <2>1, <2>2 DEF DuesKept
<1>17. LockKept(p) /\ RepliesKept(p) BY <1>8 DEF LockKept, RepliesKept
<1>18. row'[e].proc # "none" /\ row'[e].deliv # "delivered" BY <1>5
<1>19. QED BY <1>5, <1>8, <1>11, <1>12, <1>13, <1>14, <1>15, <1>16, <1>17, <1>18, AdvanceKeeps

LEMMA ReplayDeadLetterKeeps ==
  ASSUME IInv, NEW e \in Events, ReplayDeadLetter(e)
  PROVE  IInv'
<1>1. Types /\ WorkInv BY DEF IInv
<1>2. e \in Procs /\ e # Sweep /\ row[e] \in Rows BY <1>1, Names DEF Types
<1>3. row[e].proc = "dead_letter" \/ (row[e].proc = "processed" /\ row[e].deliv = "dead_letter")
  BY DEF ReplayDeadLetter
<1>4. \A q \in Procs : ~On(q, e)
  BY <1>1, <1>3 DEF On, WorkInv, WorkOK, WorkAt
<1>5. ~Active(e) BY <1>1, <1>2, <1>4 DEF On, WorkInv, WorkOK, WorkAt
<1>6. e \notin replays /\ \A s \in redeliver : s.ev # e
  BY <1>1, <1>3 DEF WorkInv, SweepAlone
<1>7. /\ task' = task /\ UNCHANGED <<carries, turns, lock, acked, taken, torn>>
      /\ replays' \subseteq replays \ {e}
      /\ redeliver' \subseteq redeliver /\ \A s \in redeliver' : s.ev # e
  BY <1>6 DEF ReplayDeadLetter, daemonVars, history
<1>8. CASE row[e].proc = "dead_letter" /\ row' = [row EXCEPT ![e].proc = "failed", ![e].left = MaxAttempts]
  <2>1. PICK r \in Rows : r = [[row[e] EXCEPT !.proc = "failed"] EXCEPT !.left = MaxAttempts]
    BY <1>2, RowTypes, DeliveryAssumption
  <2>2. row' = [row EXCEPT ![e] = r] BY <1>1, <1>8, <2>1 DEF Types
  <2>3. /\ r.reply = row[e].reply /\ r.link = row[e].link /\ r.count = row[e].count
        /\ r.old = row[e].old /\ r.proc = "failed" /\ r.deliv = row[e].deliv
    BY <1>2, <2>1 DEF Rows
  <2>4. row[e].deliv = "pending" BY <1>1, <1>8 DEF WorkInv, MarkedFirst, MarkedAt
  <2>5. QED BY <1>2, <1>4, <1>5, <1>7, <1>8, <2>2, <2>3, <2>4, IdleKeeps
<1>9. CASE /\ row[e].proc = "processed" /\ row[e].deliv = "dead_letter"
           /\ row' = [row EXCEPT ![e].deliv = "failed", ![e].dleft = MaxAttempts]
  <2>1. PICK r \in Rows : r = [[row[e] EXCEPT !.deliv = "failed"] EXCEPT !.dleft = MaxAttempts]
    BY <1>2, RowTypes, DeliveryAssumption
  <2>2. row' = [row EXCEPT ![e] = r] BY <1>1, <1>9, <2>1 DEF Types
  <2>3. /\ r.reply = row[e].reply /\ r.link = row[e].link /\ r.count = row[e].count
        /\ r.old = row[e].old /\ r.proc = row[e].proc /\ r.deliv = "failed"
    BY <1>2, <2>1 DEF Rows
  <2>4. QED BY <1>2, <1>4, <1>5, <1>7, <1>9, <2>2, <2>3, IdleKeeps
<1>10. QED BY <1>8, <1>9 DEF ReplayDeadLetter

\* The work on an event begins.
LEMMA BeginKeeps ==
  ASSUME IInv, NEW p \in Procs, NEW e \in Events, p # Sweep => p = e,
         ~Active(p), \A q \in Procs : ~On(q, e),
         NEW a \in Stages, a = IF p = Sweep THEN "processing" ELSE "ingress",
         NEW r \in Rows, row' = [row EXCEPT ![e] = r],
         task' = [task EXCEPT ![p] = Work(a, e)],
         UNCHANGED <<carries, turns, lock, acked, taken, torn>>,
         replays' \subseteq replays \ {e},
         redeliver' \subseteq redeliver, \A s \in redeliver' : s.ev # e,
         /\ r.reply = row[e].reply /\ r.link = row[e].link /\ r.deliv = row[e].deliv
         /\ r.count = row[e].count /\ r.old = row[e].old,
         row[e].proc = IF p = Sweep THEN "failed" ELSE "none",
         r.proc = IF p = Sweep THEN "failed" ELSE "pending"
  PROVE  IInv'
<1>1. Types /\ WorkInv /\ RefInv BY DEF IInv
<1>2. PICK k \in Works : k = Work(a, e) BY NewWork
<1>3. /\ k.at = a /\ k.ev = e /\ k.turn = 0 /\ k.reply = 0 /\ k.write = 1
      /\ ~k.dedup /\ ~k.fresh
  BY <1>2 DEF Work
<1>4. Changes(p, e, k, r) BY <1>2 DEF Changes
<1>5. Types' /\ Frame(p, e) /\ row'[e] = r /\ task'[p] = k
  <2>1. TurnsGrow BY SameTurnsGrow
  <2>2. turns' \in Seq(UserRows) /\ acked \subseteq acked' /\ acked' \subseteq Nat \X Nat
        /\ taken \subseteq taken' /\ torn \subseteq torn'
    BY <1>1 DEF Types
  <2>3. QED BY <1>1, <1>3, <1>4, <2>1, <2>2, ChangeFrame
<1>6. MarkedAt(e) /\ RowRefAt(e) BY <1>1 DEF WorkInv, RefInv, MarkedFirst, RowRefs
<1>7. row[e].deliv = "pending" /\ row[e].count = 0 /\ (p # Sweep => ~row[e].old /\ row[e].reply = 0)
  BY <1>6 DEF MarkedAt
<1>8. /\ Active(p)' /\ ~At(p, "looping")' /\ Ev(p)' = e /\ ~Marked(p)'
      /\ ~(At(p, "processing") /\ task[p].fresh)'
      /\ ~At(p, "acknowledged") /\ ~At(p, "looping")
  BY <1>3, <1>5 DEF Active, At, Ev, Marked, Posting
<1>9. \A q \in Procs : On(q, e)' => q = p
  BY <1>5 DEF Frame, On, Active, At, Ev
<1>10. WorkAt(p)'
  BY <1>3, <1>5, <1>7, <1>8, Names DEF WorkAt
<1>11. TaskRefAt(p)'
  BY <1>3, <1>5, <1>7, <1>8 DEF TaskRefAt, Before, Posting
<1>12. MarkedAt(e)' BY <1>5, <1>6, <1>7 DEF MarkedAt
<1>13. RowRefAt(e)' BY <1>5, <1>6 DEF RowRefAt, TurnOf, IsKeyed, Shared, Said, Turns
<1>14. LoopsKept(p, e)
  <2>1. \A q \in Procs \ {p} : At(q, "looping") => row[e].link # task[q].turn /\ task[q].turn # 0
    BY <1>1 DEF RefInv, LoopsAlone, LoopAt, TaskRefs, TaskRefAt, Active, At, Before
  <2>2. QED BY <1>3, <1>5, <1>8, <2>1 DEF LoopsKept
<1>15. StakesKept(e)
  <2>1. ASSUME NEW t \in 1..Len(turns'), Stake(e, t)' PROVE Stake(e, t)
    <3>1. t # 0 OBVIOUS
    <3>2. r.reply = t \/ (row[e].link = t /\ ~Plain(e))
      BY <1>3, <1>5, <1>7, <1>9, <2>1, <3>1 DEF Stake, Plain
    <3>3. QED BY <3>2 DEF Stake
  <2>2. QED BY <2>1 DEF StakesKept
<1>16. AckedCounted' /\ CountedAcked' BY <1>5, <1>7, <1>8, CountsKept
<1>17. DuesKept(e)
  <2>1. ~Owes(e) BY <1>7 DEF Owes
  <2>2. \A t \in Turns : Reruns(e, t) => Reruns(e, t)'
    BY <1>3, <1>5, <1>7, <1>9 DEF Reruns
  <2>3. QED BY <2>1, <2>2 DEF DuesKept
<1>18. LockKept(p) /\ RepliesKept(p) BY <1>8 DEF LockKept, RepliesKept
<1>19. row'[e].proc # "none" /\ row'[e].deliv # "delivered" BY <1>5, <1>7
<1>20. QED BY <1>5, <1>10, <1>11, <1>12, <1>13, <1>14, <1>15, <1>16, <1>17, <1>18, <1>19, AdvanceKeeps

LEMMA ReceiveKeeps ==
  ASSUME IInv, NEW e \in Events, Receive(e)
  PROVE  IInv'
<1>1. Types /\ WorkInv BY DEF IInv
<1>2. e \in Procs /\ e # Sweep /\ row[e] \in Rows BY <1>1, Names DEF Types
<1>3. row[e].proc = "none" BY DEF Receive
<1>4. \A q \in Procs : ~On(q, e)
  BY <1>1, <1>3 DEF On, WorkInv, WorkOK, WorkAt
<1>5. ~Active(e) BY <1>1, <1>2, <1>4 DEF On, WorkInv, WorkOK, WorkAt
<1>6. e \notin replays /\ \A s \in redeliver : s.ev # e
  BY <1>1, <1>3 DEF WorkInv, SweepAlone
<1>7. PICK r \in Rows : r = [row[e] EXCEPT !.proc = "pending"] BY <1>2, RowTypes
<1>8. PICK a \in Stages : a = "ingress" BY DEF Stages, Before
<1>9. /\ row' = [row EXCEPT ![e] = r] /\ task' = [task EXCEPT ![e] = Work(a, e)]
      /\ UNCHANGED <<carries, turns, lock, acked, taken, torn>>
      /\ replays' \subseteq replays \ {e}
      /\ redeliver' \subseteq redeliver /\ \A s \in redeliver' : s.ev # e
  BY <1>6, <1>7, <1>8 DEF Receive, history
<1>10. /\ r.reply = row[e].reply /\ r.link = row[e].link /\ r.deliv = row[e].deliv
       /\ r.count = row[e].count /\ r.old = row[e].old /\ r.proc = "pending"
  BY <1>2, <1>7 DEF Rows
<1>11. QED BY <1>2, <1>3, <1>4, <1>5, <1>8, <1>9, <1>10, BeginKeeps

\* A failed event of the selection is processed again, or dropped.
LEMMA SweepReplayKeeps ==
  ASSUME IInv, NEW e \in Events, SweepReplay(e)
  PROVE  IInv'
<1>1. Types /\ WorkInv BY DEF IInv
<1>2. Sweep \in Procs /\ row[e] \in Rows /\ ~Active(Sweep) /\ e \in replays
  BY <1>1, Names DEF Types, SweepReplay, Active
<1>3. row[e].proc = "failed" BY <1>1, <1>2 DEF WorkInv, SweepAlone
<1>4. \A q \in Procs : ~On(q, e)
  <2>1. SUFFICES ASSUME NEW q \in Procs, On(q, e) PROVE FALSE OBVIOUS
  <2>2. q # Sweep /\ Active(q) /\ Ev(q) = e BY <1>2, <2>1 DEF On
  <2>3. QED BY <1>1, <1>2, <2>2, OneWorker
<1>5. \A s \in redeliver : s.ev # e BY <1>1, <1>3 DEF WorkInv, SweepAlone
<1>6. /\ UNCHANGED <<carries, turns, lock, acked, taken, torn>>
      /\ replays' \subseteq replays \ {e}
      /\ redeliver' \subseteq redeliver /\ \A s \in redeliver' : s.ev # e
  BY <1>5 DEF SweepReplay, history
<1>7. CASE Goes(Sweep, Work("processing", e)) /\ row' = row
  <2>1. PICK r \in Rows : r = row[e] BY <1>2
  <2>2. PICK a \in Stages : a = "processing" BY DEF Stages, Before
  <2>3. row' = [row EXCEPT ![e] = r] /\ task' = [task EXCEPT ![Sweep] = Work(a, e)]
    BY <1>1, <1>7, <2>1, <2>2 DEF Goes, Types
  <2>4. QED BY <1>2, <1>3, <1>4, <1>6, <2>1, <2>2, <2>3, BeginKeeps
<1>8. CASE /\ row' = [row EXCEPT ![e].proc = "processed", ![e].payload = FALSE]
           /\ task' = task
  <2>1. PICK r \in Rows : r = [[row[e] EXCEPT !.proc = "processed"] EXCEPT !.payload = FALSE]
    BY <1>2, RowTypes
  <2>2. row' = [row EXCEPT ![e] = r] BY <1>1, <1>8, <2>1 DEF Types
  <2>3. /\ r.reply = row[e].reply /\ r.link = row[e].link /\ r.count = row[e].count
        /\ r.old = row[e].old /\ r.proc = "processed" /\ r.deliv = row[e].deliv
    BY <1>2, <2>1 DEF Rows
  <2>4. row[e].deliv = "pending" BY <1>1, <1>3 DEF WorkInv, MarkedFirst, MarkedAt
  <2>5. QED BY <1>2, <1>4, <1>6, <1>8, <2>2, <2>3, <2>4, IdleKeeps
<1>9. QED BY <1>7, <1>8 DEF SweepReplay

\* A failed delivery of the selection goes on from the count, on the row as it
\* was read.
LEMMA SweepRedeliverKeeps ==
  ASSUME IInv, NEW s \in redeliver, SweepRedeliver(s)
  PROVE  IInv'
<1>1. Types /\ WorkInv /\ RefInv BY DEF IInv
<1>2. s \in Snapshots /\ s.ev \in Events BY <1>1 DEF Types, Snapshots
<1>3. PICK e \in Events : e = s.ev BY <1>2
<1>4. Sweep \in Procs /\ row[e] \in Rows /\ ~Active(Sweep) /\ replays = {}
  BY <1>1, Names DEF Types, SweepRedeliver, Active
<1>5. /\ row[e].proc = "processed" /\ row[e].deliv = "failed"
      /\ s.reply = row[e].reply /\ s.link = row[e].link /\ s.count = row[e].count
  BY <1>1, <1>3 DEF WorkInv, SweepAlone
<1>6. \A q \in Procs : ~On(q, e)
  <2>1. SUFFICES ASSUME NEW q \in Procs, On(q, e) PROVE FALSE OBVIOUS
  <2>2. q # Sweep /\ Active(q) /\ Ev(q) = e BY <1>4, <2>1 DEF On
  <2>3. QED BY <1>1, <1>3, <2>2, OneWorker
<1>7. \A u \in redeliver : u.ev = e => u = s
  <2>1. SUFFICES ASSUME NEW u \in redeliver, u.ev = e PROVE u = s OBVIOUS
  <2>2. u \in Snapshots BY <1>1 DEF Types
  <2>3. u.reply = row[e].reply /\ u.link = row[e].link /\ u.count = row[e].count
    BY <1>1, <2>1 DEF WorkInv, SweepAlone
  <2>4. u.ev = s.ev /\ u.reply = s.reply /\ u.link = s.link /\ u.count = s.count
    BY <1>3, <1>5, <2>1, <2>3
  <2>5. QED BY <1>2, <2>2, <2>4 DEF Snapshots
<1>8. /\ UNCHANGED <<carries, turns, lock, acked, taken, torn>>
      /\ replays' \subseteq replays \ {e}
      /\ redeliver' \subseteq redeliver /\ \A u \in redeliver' : u.ev # e
  <2>1. redeliver' = redeliver \ {s} /\ replays' = replays BY DEF SweepRedeliver
  <2>2. QED BY <1>4, <1>7, <2>1 DEF SweepRedeliver, history
<1> DEFINE found == s.link # 0 /\ Found(s.link)
           reply == IF s.reply # 0 THEN s.reply ELSE IF found THEN s.link ELSE 0
           turn == IF found /\ turns[reply].size = 0 THEN s.link ELSE reply
<1>9. \/ reply = 0 /\ row' = [row EXCEPT ![e] = DeliveryFailed(@, TRUE)] /\ task' = task
      \/ /\ reply # 0 /\ row' = [row EXCEPT ![e].reply = reply]
         /\ task' = [task EXCEPT ![Sweep] = [Work("posting", e) EXCEPT !.turn = turn,
                                                                 !.seg = s.count + 1]]
  BY <1>3 DEF SweepRedeliver, Goes
<1>10. reply # 0 => reply = (IF row[e].reply # 0 THEN row[e].reply ELSE row[e].link)
  BY <1>5
<1>11. reply \in Nat BY <1>2 DEF Snapshots
<1>12. reply # 0 => TurnOf(e, reply) /\ Said(reply)
  BY <1>1, <1>5 DEF RefInv, RowRefs, RowRefAt, Found, Said
<1>13. reply # 0 =>
        /\ turn # 0 /\ TurnOf(e, turn) /\ Said(turn) /\ turn \in Nat
        /\ turn = reply \/ (turn = row[e].link /\ turns[reply].size = 0)
  BY <1>1, <1>2, <1>5, <1>11, <1>12 DEF RefInv, RowRefs, RowRefAt, Found, Said, Snapshots
<1> HIDE DEF reply, turn, found
<1>14. CASE reply = 0 /\ row' = [row EXCEPT ![e] = DeliveryFailed(@, TRUE)] /\ task' = task
  <2>1. PICK r \in Rows : r = DeliveryFailed(row[e], TRUE) BY <1>4, RowTypes
  <2>2. row' = [row EXCEPT ![e] = r] BY <1>14, <2>1
  <2>3. /\ r.reply = row[e].reply /\ r.link = row[e].link /\ r.count = row[e].count
        /\ r.old = row[e].old /\ r.proc = row[e].proc /\ r.deliv \in {"failed", "dead_letter"}
    BY <1>4, <2>1 DEF Rows, DeliveryFailed
  <2>4. QED BY <1>4, <1>5, <1>6, <1>8, <1>14, <2>2, <2>3, IdleKeeps
<1>15. CASE /\ reply # 0 /\ row' = [row EXCEPT ![e].reply = reply]
            /\ task' = [task EXCEPT ![Sweep] = [Work("posting", e) EXCEPT !.turn = turn,
                                                                 !.seg = s.count + 1]]
  <2>1. PICK t \in Nat : t = reply BY <1>11
  <2>2. /\ t # 0 /\ TurnOf(e, t) /\ Said(t)
        /\ row[e].reply # 0 => t = row[e].reply
        /\ row[e].reply = 0 => t = row[e].link
    BY <1>10, <1>12, <1>15, <2>1
  <2>3. PICK u \in Nat :
           /\ u = turn /\ u # 0 /\ TurnOf(e, u) /\ Said(u)
           /\ u = t \/ (u = row[e].link /\ turns[t].size = 0)
    BY <1>15, <1>13, <2>1
  <2>4. u # t => ~Shared(t) BY <2>2, <2>3 DEF Shared
  <2>5. u = row[e].link \/ u = t BY <2>3
  <2>6. s.count + 1 \in Nat BY <1>2 DEF Snapshots
  <2>7. PICK k \in Works : k = [Work("posting", e) EXCEPT !.turn = u, !.seg = s.count + 1]
    BY <2>6, NewWork
  <2>8. PICK r \in Rows : r = [row[e] EXCEPT !.reply = t] BY <1>4, RowTypes
  <2>9. /\ k.at = "posting" /\ k.ev = e /\ k.turn = u /\ k.seg = row[e].count + 1
        /\ ~k.dedup /\ ~k.fresh
    BY <1>5, <2>7 DEF Work
  <2>10. /\ r.reply = t /\ r.link = row[e].link /\ r.count = row[e].count
        /\ r.old = row[e].old /\ r.proc = "processed" /\ r.deliv = "failed"
    BY <1>4, <1>5, <2>8 DEF Rows
  <2>11. Changes(Sweep, e, k, r) BY <1>8, <1>15, <2>1, <2>7, <2>8, <2>3 DEF Changes
  <2>12. Types' /\ Frame(Sweep, e) /\ row'[e] = r /\ task'[Sweep] = k
    <3>1. TurnsGrow BY <1>8, SameTurnsGrow
    <3>2. turns' \in Seq(UserRows) /\ acked \subseteq acked' /\ acked' \subseteq Nat \X Nat
          /\ taken \subseteq taken' /\ torn \subseteq torn'
      BY <1>1, <1>8 DEF Types
    <3>3. (k # NoTask => k.ev = e) /\ \A q \in Procs \ {Sweep} : ~On(q, e) BY <1>6, <2>9
    <3>4. (Active(Sweep) => Ev(Sweep) = e) /\ k \in Works \cup {NoTask} BY <1>4
    <3>5. QED BY <1>1, <1>4, <1>8, <2>11, <3>1, <3>2, <3>3, <3>4, ChangeFrame
  <2>13. MarkedAt(e) /\ RowRefAt(e) BY <1>1 DEF WorkInv, RefInv, MarkedFirst, RowRefs
  <2>14. /\ Active(Sweep)' /\ ~At(Sweep, "looping")' /\ Ev(Sweep)' = e /\ Marked(Sweep)'
         /\ ~At(Sweep, "processing")' /\ ~At(Sweep, "acknowledged") /\ ~At(Sweep, "looping")
    BY <1>4, <2>9, <2>12 DEF Active, At, Ev, Marked, Posting
  <2>15. \A q \in Procs : On(q, e)' => q = Sweep
    BY <1>6, <2>12 DEF Frame, On, Active, At, Ev
  <2>16. turns' = turns /\ carries' = carries /\ acked' = acked BY <1>8
  <2>17. WorkAt(Sweep)'
    BY <2>9, <2>10, <2>12, <2>14, Names DEF WorkAt, Posting
  <2>18. TaskRefAt(Sweep)'
    <3>1. TurnOf(e, u)' /\ Said(u)' /\ (Shared(t)' <=> Shared(t))
      BY <2>3, <2>16 DEF TurnOf, Said, Turns, Shared, IsKeyed
    <3>2. (TurnOf(Ev(Sweep), task[Sweep].turn))' /\ (Said(task[Sweep].turn))'
      BY <2>9, <2>12, <2>14, <3>1 DEF TurnOf, Said
    <3>3. k.at \in Posting /\ k.at \notin Before \cup {"looping"} BY <2>9 DEF Posting, Before
    <3>4. QED BY <2>2, <2>9, <2>10, <2>12, <2>14, <2>3, <2>4, <3>1, <3>3, <3>2 DEF TaskRefAt
  <2>19. MarkedAt(e)' BY <2>10, <2>12 DEF MarkedAt
  <2>20. RowRefAt(e)'
    <3>1. TurnOf(e, t)' /\ Said(t)' BY <2>2, <2>16 DEF TurnOf, Said, Turns
    <3>2. row[e].link # 0 => TurnOf(e, row[e].link) BY <2>13 DEF RowRefAt
    <3>3. Shared(t) => row[e].link = t BY <2>2, <2>13 DEF RowRefAt
    <3>4. Shared(t)' <=> Shared(t) BY <2>16 DEF Shared, IsKeyed
    <3>5. r.link # 0 => TurnOf(e, r.link)' BY <2>10, <2>12, <2>16, <3>2 DEF TurnOf, Turns
    <3>6. QED BY <2>10, <2>12, <3>1, <3>3, <3>4, <3>5 DEF RowRefAt, TurnOf, Said, Shared, IsKeyed
  <2>21. LoopsKept(Sweep, e)
    <3>1. \A q \in Procs \ {Sweep} : At(q, "looping") => row[e].link # task[q].turn /\ u # task[q].turn
      BY <1>1, <2>3 DEF RefInv, LoopsAlone, LoopAt
    <3>2. QED BY <2>9, <2>10, <2>12, <2>14, <3>1 DEF LoopsKept, At
  <2>22. StakesKept(e)
    <3>1. Stake(e, t) /\ Stake(e, row[e].link) BY <1>5, <2>2 DEF Stake
    <3>2. ASSUME NEW v \in 1..Len(turns'), Stake(e, v)' PROVE v = t \/ v = row[e].link
      BY <2>2, <2>5, <2>9, <2>10, <2>12, <2>15, <3>2 DEF Stake
    <3>3. QED BY <3>1, <3>2 DEF StakesKept
  <2>23. AckedCounted' /\ CountedAcked'
    BY <1>4, <2>2, <2>10, <2>12, <2>14, <2>16, CountsKept
  <2>24. DuesKept(e)
    <3>1. Owes(e)' BY <2>9, <2>10, <2>12, <2>15 DEF Owes, Posting
    <3>2. \A v \in Turns : Reruns(e, v) => Reruns(e, v)'
      BY <2>9, <2>10, <2>12, <2>15 DEF Reruns
    <3>3. QED BY <3>1, <3>2 DEF DuesKept
  <2>25. LockKept(Sweep) /\ RepliesKept(Sweep) BY <1>8, <2>14 DEF LockKept, RepliesKept
  <2>26. row'[e].proc # "none" /\ row'[e].deliv # "delivered" BY <2>10, <2>12
  <2>27. QED BY <1>4, <2>12, <2>17, <2>18, <2>19, <2>20, <2>21, <2>22, <2>23, <2>24, <2>25, <2>26, AdvanceKeeps
<1>16. QED BY <1>9, <1>14, <1>15

-----------------------------------------------------------------------------
(* The sweep's selection, the monitor and the others.                      *)

\* What the monitor's UPDATEs may do to a row.
Recovered(e) ==
  /\ row'[e].reply = row[e].reply /\ row'[e].link = row[e].link
  /\ row'[e].count = row[e].count /\ row'[e].old = row[e].old
  /\ \/ row'[e].proc = row[e].proc
     \/ row[e].old /\ row[e].proc = "pending" /\ row'[e].proc = "failed"
  /\ \/ row'[e].deliv = row[e].deliv
     \/ /\ row[e].old /\ row[e].proc = "processed" /\ row[e].reply # 0
        /\ row[e].deliv = "pending" /\ row'[e].deliv = "failed"

LEMMA RecoveredKeeps ==
  ASSUME IInv, \A e \in Events : Recovered(e), row' \in [Events -> Rows],
         UNCHANGED <<carries, turns, task, acked, taken, torn>>
  PROVE  WorkOK' /\ MarkedFirst' /\ RefInv' /\ StakeInv' /\ AnswerInv'
<1>1. Types /\ WorkInv /\ RefInv /\ StakeInv /\ AnswerInv BY DEF IInv
<1>2. \A p \in Procs : /\ Active(p)' <=> Active(p)
                       /\ Ev(p)' = Ev(p) /\ (Marked(p)' <=> Marked(p))
                       /\ \A a : At(p, a)' <=> At(p, a)
                       /\ \A e : On(p, e)' <=> On(p, e)
  BY DEF Active, Ev, Marked, At, On
<1>3. /\ \A e \in Events : Plain(e)' <=> Plain(e)
      /\ \A t : (Said(t)' <=> Said(t)) /\ (IsKeyed(t)' <=> IsKeyed(t)) /\ (Shared(t)' <=> Shared(t))
      /\ \A e, t : TurnOf(e, t)' <=> TurnOf(e, t)
  BY DEF Recovered, Plain, Said, IsKeyed, Shared, TurnOf, Turns
<1>4. WorkOK'
  <2>1. SUFFICES ASSUME NEW p \in Procs, Active(p) PROVE WorkAt(p)'
    BY <1>2 DEF WorkOK
  <2>2. PICK e \in Events : e = Ev(p) BY <1>1, <2>1, OneWorker
  <2>3. WorkAt(p) /\ Recovered(e) /\ (p \in Events => p = e) /\ e = Ev(p)'
    BY <1>1, <1>2, <2>1, <2>2 DEF WorkInv, WorkOK, WorkAt
  <2>4. row[e].proc # "pending" \/ ~row[e].old
    BY <2>2, <2>3, Names DEF WorkAt
  <2>5. row'[e].proc = row[e].proc BY <2>3, <2>4 DEF Recovered
  <2>6. p \in Events => row'[e].deliv = row[e].deliv /\ row'[e].old = row[e].old
    BY <2>2, <2>3 DEF Recovered, WorkAt
  <2>7. /\ row'[e].deliv \in {"pending", "failed"}
        /\ task[p].at \notin Posting => row'[e].deliv = "pending" \/ row'[e].reply # 0
    BY <2>2, <2>3 DEF Recovered, WorkAt
  <2>8. QED BY <1>2, <2>1, <2>2, <2>3, <2>5, <2>6, <2>7 DEF WorkAt
<1>5. MarkedFirst'
  BY <1>1 DEF WorkInv, MarkedFirst, MarkedAt, Recovered
<1>6. RefInv'
  <2>1. KeyedOnce' BY <1>1 DEF RefInv, KeyedOnce, Turns, IsKeyed
  <2>2. RowRefs'
    <3>1. SUFFICES ASSUME NEW e \in Events PROVE RowRefAt(e)' BY DEF RowRefs
    <3>2. RowRefAt(e) /\ Recovered(e) BY <1>1 DEF RefInv, RowRefs
    <3>3. QED BY <3>2 DEF RowRefAt, Recovered, TurnOf, Turns, IsKeyed, Shared, Said
  <2>3. TaskRefs'
    <3>1. SUFFICES ASSUME NEW p \in Procs, Active(p) PROVE TaskRefAt(p)'
      BY <1>2 DEF TaskRefs
    <3>2. PICK e \in Events : e = Ev(p) BY <1>1, <3>1, OneWorker
    <3>3. TaskRefAt(p) /\ Recovered(e) /\ e = Ev(p)'
      BY <1>1, <1>2, <3>1, <3>2 DEF RefInv, TaskRefs
    <3>4. /\ row'[e].reply = row[e].reply /\ row'[e].link = row[e].link
          /\ row'[e].count = row[e].count /\ (row[e].deliv = "failed" => row'[e].deliv = "failed")
      BY <3>3 DEF Recovered
    <3>5. QED BY <3>2, <3>3, <3>4 DEF TaskRefAt, TurnOf, Turns, IsKeyed, Said, Shared
  <2>4. LoopsAlone'
    <3>1. \A q \in Procs : LoopAt(q) => LoopAt(q)' BY <1>2 DEF LoopAt, Recovered, Said
    <3>2. \A q \in Procs : FreshAt(q) => FreshAt(q)' BY <1>2 DEF FreshAt, Original, Msg, Ev, Turns
    <3>3. QED BY <1>1, <1>2, <3>1, <3>2 DEF RefInv, LoopsAlone
  <2>5. QED BY <2>1, <2>2, <2>3, <2>4 DEF RefInv
<1>7. StakeInv'
  <2>1. \A e \in Events, t \in Turns : Stake(e, t)' => Stake(e, t)
    BY <1>2 DEF Stake, Recovered, Plain
  <2>2. OneStake' BY <1>1, <2>1 DEF StakeInv, OneStake, Turns
  <2>3. \A e \in Events : row[e].proc = "processed" => row'[e].proc = "processed"
    BY DEF Recovered
  <2>4. \A e \in Events : \A t, i : CountedOn(e, t, i) => CountedOn(e, t, i)'
    BY <1>2, <2>3 DEF CountedOn, Counting, Recovered
  <2>5. AckedCounted'
    BY <1>1, <2>4 DEF StakeInv, AckedCounted, Turns
  <2>6. QED BY <2>2, <2>5 DEF StakeInv
<1>8. AnswerInv'
  <2>1. CountedAcked' BY <1>1, <1>3 DEF AnswerInv, CountedAcked, Recovered
  <2>2. \A m : Answered(m)' <=> Answered(m) BY DEF Answered, Turns, Said
  <2>3. \A e \in Events : Owes(e) => Owes(e)'
    BY <1>2, <1>3 DEF Owes, Recovered
  <2>4. \A e \in Events : row'[e].deliv = "delivered" <=> row[e].deliv = "delivered"
    BY DEF Recovered
  <2>5. SiblingAnswers'
    <3>1. \A m : Resolved(m) => Resolved(m)' BY <2>2, <2>3 DEF Resolved
    <3>2. SUFFICES ASSUME NEW g \in Events, row[g].link # 0, Said(row[g].link),
                          row[g].deliv = "delivered", NEW m, m = carries[g]
                   PROVE  Resolved(m)'
      BY <2>4 DEF SiblingAnswers, Recovered, Resolved, Answered, Said, Turns
    <3>3. QED BY <1>1, <3>1, <3>2 DEF AnswerInv, SiblingAnswers
  <2>6. \A e \in Events, t \in Turns : Reruns(e, t) => Reruns(e, t)'
    BY <1>2, <2>4 DEF Reruns, Recovered
  <2>7. CutShort'
    <3>1. \A m : Resolved(m) => Resolved(m)' BY <2>2, <2>3 DEF Resolved
    <3>2. SUFFICES ASSUME NEW t \in Turns, IsKeyed(t), ~Said(t), NEW m, m = turns[t].msg
                   PROVE  Resolved(m)' \/ \E r \in Events : carries[r] = m /\ Reruns(r, t)'
      BY DEF CutShort, Resolved, Answered, Turns, IsKeyed, Said
    <3>3. QED BY <1>1, <2>6, <3>1, <3>2 DEF AnswerInv, CutShort
  <2>8. \A e \in Events : /\ row'[e].proc = "none" <=> row[e].proc = "none"
                          /\ row'[e].proc = "processed" <=> row[e].proc = "processed"
    BY DEF Recovered
  <2>9. DeliveredMeansAnswered'
    <3>1. SUFFICES ASSUME NEW e \in Events, row[e].proc # "none",
                          \A f \in Events : (carries[f] = carries[e] /\ row[f].proc # "none") =>
                             row[f].proc = "processed" /\ row[f].deliv = "delivered" /\ Plain(f)
                   PROVE  Answered(carries[e])
      BY <1>3, <2>4, <2>8 DEF DeliveredMeansAnswered, Answered, Turns, Said, Plain
    <3>2. QED BY <1>1, <3>1 DEF AnswerInv, DeliveredMeansAnswered, Answered, Plain
  <2>10. QED BY <2>1, <2>5, <2>7, <2>9 DEF AnswerInv
<1>9. QED BY <1>4, <1>5, <1>6, <1>7, <1>8

LEMMA RecoverKeeps ==
  ASSUME IInv, Recover
  PROVE  IInv'
<1>1. Types /\ WorkInv BY DEF IInv
<1>2. UNCHANGED <<carries, turns, task, acked, taken, torn, lock, replays, redeliver>>
  BY DEF Recover, daemonVars, history
<1>3. ASSUME NEW e \in Events PROVE row'[e] \in Rows /\ Recovered(e)
  <2>1. row[e] \in Rows BY <1>1 DEF Types
  <2>2. \/ row'[e] = row[e]
        \/ row[e].old /\ row[e].proc = "pending" /\ row'[e] = [row[e] EXCEPT !.proc = "failed"]
        \/ /\ row[e].old /\ row[e].proc = "processed" /\ row[e].deliv = "pending" /\ row[e].reply # 0
           /\ row'[e] = [row[e] EXCEPT !.deliv = "failed"]
    BY DEF Recover, Promoted, Unstranded
  <2>3. row'[e] \in Rows BY <2>1, <2>2, RowTypes
  <2>4. QED BY <2>1, <2>2, <2>3 DEF Recovered, Rows
<1>4. row' \in [Events -> Rows] BY <1>3 DEF Recover
<1>5. WorkOK' /\ MarkedFirst' /\ RefInv' /\ StakeInv' /\ AnswerInv'
  BY <1>2, <1>3, <1>4, RecoveredKeeps
<1>6. Types' BY <1>1, <1>2, <1>4 DEF Types
<1>7. SweepAlone'
  <2>1. SweepAlone BY <1>1 DEF WorkInv
  <2>2. \A s \in redeliver : s.ev \in Events BY <1>1 DEF Types, Snapshots
  <2>3. replays \subseteq Events BY <1>1 DEF Types
  <2>4. \A e \in Events : row[e].proc = "failed" => row'[e].proc = "failed"
    BY <1>3 DEF Recovered
  <2>5. \A e \in Events : (row[e].proc = "processed" /\ row[e].deliv = "failed") =>
                             row'[e].proc = "processed" /\ row'[e].deliv = "failed"
    BY <1>3 DEF Recovered
  <2>6. \A s \in redeliver : /\ s.reply = row'[s.ev].reply /\ s.link = row'[s.ev].link
                             /\ s.count = row'[s.ev].count
    BY <1>3, <2>1, <2>2 DEF SweepAlone, Recovered
  <2>7. QED BY <1>2, <2>1, <2>2, <2>3, <2>4, <2>5, <2>6 DEF SweepAlone, Active, At, Ev
<1>8. LoopHoldsLock' BY <1>1, <1>2 DEF WorkInv, LoopHoldsLock, At
<1>9. QED BY <1>5, <1>6, <1>7, <1>8 DEF IInv, WorkInv

\* The sweep selects rows as they are; a turn of others takes the flag or
\* gives it back; nothing happens.
LEMMA OutsideKeeps ==
  ASSUME IInv,
         \/ \E due \in SUBSET Events : SweepStarts(due)
         \/ OtherTurn \/ OtherTurnEnds \/ UNCHANGED vars
  PROVE  IInv'
<1>1. Types /\ WorkInv BY DEF IInv
<1>2. UNCHANGED <<row, carries, turns, task, acked, taken, torn>>
  BY DEF SweepStarts, OtherTurn, OtherTurnEnds, vars, rowVars, daemonVars, history
<1>3. WorkOK' /\ MarkedFirst' /\ RefInv' /\ StakeInv' /\ AnswerInv'
  <2>1. row' \in [Events -> Rows] BY <1>1, <1>2 DEF Types
  <2>2. \A e \in Events : Recovered(e) BY <1>2 DEF Recovered
  <2>3. QED BY <1>2, <2>1, <2>2, RecoveredKeeps
<1>4. LoopHoldsLock'
  <2>1. CASE lock' = lock BY <1>1, <1>2, <2>1 DEF WorkInv, LoopHoldsLock, At
  <2>2. CASE lock = NoOne \/ lock = "other"
    <3>1. \A q \in Procs : ~At(q, "looping")
      BY <1>1, <2>2, Names DEF WorkInv, LoopHoldsLock
    <3>2. lock' \notin Procs
      BY <2>2, Names DEF SweepStarts, OtherTurn, OtherTurnEnds, vars, daemonVars
    <3>3. QED BY <1>2, <3>1, <3>2 DEF LoopHoldsLock, At
  <2>3. QED BY <2>1, <2>2 DEF SweepStarts, OtherTurn, OtherTurnEnds, vars, daemonVars
<1>5. replays' \subseteq Events /\ redeliver' \subseteq Snapshots /\ SweepAlone'
  <2>1. CASE \E due \in SUBSET Events : SweepStarts(due)
    <3>1. PICK due \in SUBSET Events : SweepStarts(due) BY <2>1
    <3>2. replays' = due \cap Retryable
      BY <3>1 DEF SweepStarts
    <3>3. redeliver' = {[ev |-> e, reply |-> row[e].reply, link |-> row[e].link,
                         count |-> row[e].count] : e \in due \cap RetryableDeliveries}
      BY <3>1 DEF SweepStarts
    <3>4. ~Active(Sweep)' BY <1>2, <3>1 DEF SweepStarts, Active, At
    <3>5. \A e \in replays' : e \in Events /\ row'[e].proc = "failed"
      BY <1>2, <3>2 DEF Retryable
    <3>6. ASSUME NEW s \in redeliver'
          PROVE  /\ s \in Snapshots
                 /\ row'[s.ev].proc = "processed" /\ row'[s.ev].deliv = "failed"
                 /\ s.reply = row'[s.ev].reply /\ s.link = row'[s.ev].link
                 /\ s.count = row'[s.ev].count
      <4>1. PICK e \in due \cap RetryableDeliveries :
              s = [ev |-> e, reply |-> row[e].reply, link |-> row[e].link, count |-> row[e].count]
        BY <3>3, <3>6
      <4>2. e \in Events /\ row[e].proc = "processed" /\ row[e].deliv = "failed"
        BY <4>1 DEF RetryableDeliveries
      <4>3. s.ev = e /\ s.reply = row[e].reply /\ s.link = row[e].link /\ s.count = row[e].count
        BY <4>1
      <4>4. row[e].reply \in Nat /\ row[e].link \in Nat /\ row[e].count \in Nat
        BY <1>1, <4>2 DEF Types, Rows
      <4>5. s \in Snapshots BY <4>1, <4>2, <4>4 DEF Snapshots
      <4>6. QED BY <1>2, <4>2, <4>3, <4>5
    <3>7. QED BY <3>4, <3>5, <3>6 DEF SweepAlone
  <2>2. CASE replays' = replays /\ redeliver' = redeliver
    BY <1>1, <1>2, <2>2 DEF Types, WorkInv, SweepAlone, Active, At, Ev
  <2>3. QED BY <2>1, <2>2 DEF OtherTurn, OtherTurnEnds, vars, daemonVars
<1>6. Types' BY <1>1, <1>2, <1>5 DEF Types
<1>7. QED BY <1>3, <1>4, <1>5, <1>6 DEF IInv, WorkInv

\* A crash cuts off the loop that runs, and leaves the other turns.
LEMMA CrashTurns ==
  ASSUME Types, WorkInv, RefInv, Crash
  PROVE  /\ turns' \in Seq(UserRows) /\ Turns' = Turns /\ TurnsGrow
         /\ \A t \in Turns : \/ turns'[t] = turns[t]
                             \/ \E p \in Procs : At(p, "looping") /\ task[p].turn = t
<1>1. CASE lock \notin Procs
  <2>1. turns' = turns BY <1>1 DEF Crash
  <2>2. QED BY <2>1 DEF Types, Turns, TurnsGrow
<1>2. CASE lock \in Procs
  <2>1. PICK p \in Procs : p = lock BY <1>2
  <2>2. At(p, "looping") /\ Active(p) BY <2>1 DEF WorkInv, LoopHoldsLock, Active, At
  <2>3. PICK e \in Events : e = Ev(p) BY <2>2, OneWorker
  <2>4. PICK t \in Nat : t = task[p].turn BY <2>2, <2>3, AtWork DEF Works
  <2>5. t \in Turns
    BY <2>2, <2>4 DEF RefInv, TaskRefs, TaskRefAt, At, Before, TurnOf
  <2>6. PICK size \in Streamed(p) : turns' = [turns EXCEPT ![t].size = size]
    BY <1>2, <2>1, <2>4 DEF Crash
  <2>7. PICK v \in UserRows : /\ v = [turns[t] EXCEPT !.size = size]
                              /\ v.msg = turns[t].msg /\ v.keyed = turns[t].keyed
    <3>1. turns[t] \in UserRows BY <2>5 DEF Types, Turns
    <3>2. size \in Nat BY <2>3, StreamedNat
    <3>3. QED BY <3>1, <3>2, EndedTypes
  <2>8. TurnWritten(t, v) BY <2>6, <2>7 DEF TurnWritten
  <2>9. /\ turns' \in Seq(UserRows) /\ Turns' = Turns /\ TurnsGrow
        /\ \A u \in Turns : u # t => turns'[u] = turns[u]
    BY <2>2, <2>3, <2>4, <2>7, <2>8, LoopOver
  <2>10. QED BY <2>2, <2>4, <2>9
<1>3. QED BY <1>1, <1>2

\* It ends all work and leaves the rows; a segment that was acknowledged and not
\* counted yet is torn.
LEMMA CrashKeeps ==
  ASSUME IInv, Crash
  PROVE  IInv'
<1>1. Types /\ WorkInv /\ RefInv /\ StakeInv /\ AnswerInv BY DEF IInv
<1>2. /\ UNCHANGED <<carries, acked, taken>> /\ lock' = NoOne
      /\ replays' = {} /\ redeliver' = {} /\ task' = [p \in Procs |-> NoTask]
      /\ row' = [e \in Events |-> [row[e] EXCEPT !.old = row[e].proc # "none"]]
      /\ torn' = torn \cup {<<task[p].turn, task[p].seg>> :
                              p \in {q \in Procs : At(q, "acknowledged")}}
  BY DEF Crash
<1>3. \A p \in Procs : /\ task'[p] = NoTask /\ ~Active(p)' /\ ~At(p, "looping")'
                       /\ ~At(p, "processing")' /\ \A e : ~On(p, e)'
  BY <1>2 DEF NoTask, Active, At, On
<1>4. ASSUME NEW e \in Events
      PROVE  /\ row'[e] \in Rows
             /\ row'[e].reply = row[e].reply /\ row'[e].link = row[e].link
             /\ row'[e].count = row[e].count /\ row'[e].proc = row[e].proc
             /\ row'[e].deliv = row[e].deliv /\ (row'[e].old <=> row[e].proc # "none")
  <2>1. row[e] \in Rows BY <1>1 DEF Types
  <2>2. row'[e] = [row[e] EXCEPT !.old = row[e].proc # "none"] BY <1>2
  <2>3. (row[e].proc # "none") \in BOOLEAN OBVIOUS
  <2>4. row'[e] \in Rows BY <2>1, <2>2, <2>3, RowTypes
  <2>5. QED BY <2>1, <2>2, <2>4 DEF Rows
<1>5. /\ turns' \in Seq(UserRows) /\ Turns' = Turns /\ TurnsGrow
      /\ \A t \in Turns : \/ turns'[t] = turns[t]
                          \/ \E p \in Procs : At(p, "looping") /\ task[p].turn = t
  BY <1>1, CrashTurns
<1>6. \A t \in Turns : /\ turns'[t].msg = turns[t].msg /\ (IsKeyed(t)' <=> IsKeyed(t))
                       /\ Said(t) => turns'[t] = turns[t]
  BY <1>5 DEF TurnsGrow, IsKeyed
<1>7. Types'
  BY <1>1, <1>2, <1>4, <1>5 DEF Types
<1>8. WorkInv'
  <2>1. WorkOK' BY <1>3 DEF WorkOK
  <2>2. SweepAlone' BY <1>2, <1>3, Names DEF SweepAlone
  <2>3. LoopHoldsLock' BY <1>2, <1>3, Names DEF LoopHoldsLock
  <2>4. MarkedFirst' BY <1>1, <1>4 DEF WorkInv, MarkedFirst, MarkedAt
  <2>5. QED BY <2>1, <2>2, <2>3, <2>4 DEF WorkInv
<1>9. RefInv'
  <2>1. KeyedOnce' BY <1>1, <1>5, <1>6 DEF RefInv, KeyedOnce
  <2>2. ASSUME NEW e \in Events PROVE RowRefAt(e)'
    <3>1. RowRefAt(e) BY <1>1 DEF RefInv, RowRefs
    <3>2. PICK u : u = row[e].reply OBVIOUS
    <3>3. u # 0 => TurnOf(e, u) /\ Said(u) /\ u \in Turns BY <3>1, <3>2 DEF RowRefAt, TurnOf
    <3>4. u # 0 => turns'[u] = turns[u] BY <1>6, <3>3
    <3>5. u # 0 => /\ TurnOf(e, u)' /\ Said(u)' /\ (Shared(u)' <=> Shared(u))
                   /\ (IsKeyed(u)' <=> IsKeyed(u))
      BY <1>2, <1>5, <3>3, <3>4 DEF TurnOf, Said, Shared, IsKeyed
    <3>6. row[e].link # 0 => (TurnOf(e, row[e].link))'
      BY <1>2, <1>4, <1>5, <1>6, <3>1 DEF RowRefAt, TurnOf
    <3>7. QED BY <1>2, <1>4, <3>1, <3>2, <3>5, <3>6 DEF RowRefAt, TurnOf, Said, Shared, IsKeyed
  <2>3. TaskRefs' BY <1>3 DEF TaskRefs
  <2>4. LoopsAlone' BY <1>3 DEF LoopsAlone
  <2>5. QED BY <2>1, <2>2, <2>3, <2>4 DEF RefInv, RowRefs
<1>10. StakeInv'
  <2>1. \A e \in Events, t \in Turns : Stake(e, t)' => Stake(e, t)
    BY <1>3, <1>4 DEF Stake, Plain
  <2>2. ASSUME NEW t \in Turns, t \notin taken, turns'[t].size > 0,
               NEW e \in Events, NEW f \in Events, Stake(e, t), Stake(f, t)
        PROVE  e = f
    <3>1. CASE turns'[t] = turns[t] BY <1>1, <2>2, <3>1 DEF StakeInv, OneStake
    <3>2. ASSUME NEW p \in Procs, At(p, "looping"), task[p].turn = t PROVE e = f
      BY <1>1, <2>2, <3>2, LoopNoStake
    <3>3. QED BY <1>5, <3>1, <3>2
  <2>3. OneStake' BY <1>2, <1>5, <2>1, <2>2 DEF OneStake
  <2>4. AckedCounted'
    <3>1. SUFFICES ASSUME NEW t \in Nat, NEW i \in Nat, <<t, i>> \in acked, <<t, i>> \notin torn'
                   PROVE  t \in Turns /\ \E e \in Events : CountedOn(e, t, i)'
      BY <1>2, <1>5 DEF AckedCounted
    <3>2. <<t, i>> \in acked \ torn BY <1>2, <3>1
    <3>3. t \in Turns BY <1>1, <3>2 DEF StakeInv, AckedCounted
    <3>4. PICK e \in Events : CountedOn(e, t, i) BY <1>1, <3>2 DEF StakeInv, AckedCounted
    <3>5. ~Counting(e, t, i) BY <1>2, <3>1 DEF Counting
    <3>6. CountedOn(e, t, i)' BY <1>4, <3>4, <3>5 DEF CountedOn
    <3>7. QED BY <3>3, <3>6
  <2>5. QED BY <2>3, <2>4 DEF StakeInv
<1>11. AnswerInv'
  <2>1. \A e \in Events : Plain(e)' <=> Plain(e) BY <1>4 DEF Plain
  <2>2. CountedAcked' BY <1>1, <1>2, <1>4, <2>1 DEF AnswerInv, CountedAcked
  <2>3. \A m : Answered(m) => Answered(m)' BY <1>2, <1>5, AnswerStays
  <2>4. \A e \in Events : Owes(e) => Owes(e)' BY <1>3, <1>4, <2>1 DEF Owes
  <2>5. \A m : Resolved(m) => Resolved(m)' BY <1>2, <2>3, <2>4 DEF Resolved
  <2>6. SiblingAnswers'
    <3>1. SUFFICES ASSUME NEW g \in Events, row[g].link # 0, row[g].deliv = "delivered",
                          NEW m, m = carries[g], NEW u, u = row[g].link, Said(u)'
                   PROVE  Resolved(m)'
      BY <1>2, <1>4 DEF SiblingAnswers, Said, Resolved, Answered
    <3>2. u \in Turns BY <1>1, <3>1 DEF RefInv, RowRefs, RowRefAt, TurnOf
    <3>3. \A p \in Procs : At(p, "looping") => task[p].turn # u
      BY <1>1, <3>1 DEF RefInv, LoopsAlone, LoopAt
    <3>4. turns'[u] = turns[u] BY <1>5, <3>2, <3>3
    <3>5. Said(u) BY <3>1, <3>4 DEF Said
    <3>6. QED BY <1>1, <2>5, <3>1, <3>5 DEF AnswerInv, SiblingAnswers
  <2>7. \A e \in Events, t \in Turns : Reruns(e, t) => Reruns(e, t)'
    BY <1>3, <1>4 DEF Reruns
  <2>8. CutShort'
    <3>1. SUFFICES ASSUME NEW t \in Turns, IsKeyed(t)', ~Said(t)', NEW m, m = turns'[t].msg
                   PROVE  Resolved(m)' \/ \E r \in Events : carries[r] = m /\ Reruns(r, t)'
      BY <1>2, <1>5 DEF CutShort, Resolved, Answered
    <3>2. IsKeyed(t) /\ turns[t].msg = m BY <1>6, <3>1
    <3>3. ~Said(t)
      <4>1. Said(t) => Said(t)' BY <1>6 DEF Said
      <4>2. QED BY <3>1, <4>1
    <3>4. QED BY <1>1, <2>5, <2>7, <3>2, <3>3 DEF AnswerInv, CutShort
  <2>9. DeliveredMeansAnswered'
    <3>1. SUFFICES ASSUME NEW e \in Events, row[e].proc # "none", NEW m, m = carries[e],
                          \A f \in Events : (carries[f] = m /\ row[f].proc # "none") =>
                             row[f].proc = "processed" /\ row[f].deliv = "delivered" /\ Plain(f)
                   PROVE  Answered(m)'
      BY <1>2, <1>4, <2>1 DEF DeliveredMeansAnswered, Answered, Plain
    <3>2. Answered(m)
      BY <1>1, <3>1 DEF AnswerInv, DeliveredMeansAnswered, Answered, Plain
    <3>3. QED BY <2>3, <3>2
  <2>10. QED BY <2>2, <2>6, <2>8, <2>9 DEF AnswerInv
<1>12. QED BY <1>7, <1>8, <1>9, <1>10, <1>11 DEF IInv

-----------------------------------------------------------------------------
(* The invariant, and what it says.                                        *)

LEMMA InitIInv == Init => IInv
<1> SUFFICES ASSUME Init PROVE IInv OBVIOUS
<1>1. Types BY InitTypes
<1>2. /\ turns = <<>> /\ task = [p \in Procs |-> NoTask] /\ row = [e \in Events |-> NoRow]
      /\ replays = {} /\ redeliver = {} /\ acked = {} /\ lock = NoOne
  BY DEF Init
<1>3. Turns = {} BY <1>2 DEF Turns
<1>4. \A p \in Procs : ~Active(p) /\ \A a : At(p, a) => a = "none"
  BY <1>2 DEF Active, At, NoTask
<1>5. \A e \in Events : /\ row[e].proc = "none" /\ row[e].deliv = "pending" /\ row[e].count = 0
                        /\ row[e].link = 0 /\ row[e].reply = 0 /\ ~row[e].old
  BY <1>2 DEF NoRow
<1>6. WorkInv
  BY <1>2, <1>4, <1>5, Names DEF WorkInv, WorkOK, SweepAlone, LoopHoldsLock, MarkedFirst, MarkedAt
<1>7. RefInv
  BY <1>3, <1>4, <1>5 DEF RefInv, KeyedOnce, RowRefs, RowRefAt, TaskRefs, LoopsAlone
<1>8. StakeInv BY <1>2, <1>3 DEF StakeInv, OneStake, AckedCounted
<1>9. AnswerInv
  BY <1>3, <1>4, <1>5 DEF AnswerInv, CountedAcked, SiblingAnswers, CutShort, DeliveredMeansAnswered
<1>10. QED BY <1>1, <1>6, <1>7, <1>8, <1>9 DEF IInv

\* One step of a process, in its section or beside the others.
LEMMA ProcessKeeps ==
  ASSUME IInv, NEW p \in Procs, Section(p) \/ Step(p)
  PROVE  IInv'
<1>1. Types /\ WorkInv BY DEF IInv
<1>2. Active(p)
  BY DEF Section, Step, Bookkeep, SettleWithoutPost, FinalizeDelivery, Complete, LosesLock,
         Deduplicated, StartTurn, Post, Acknowledge, SegmentDelivered, PostFails, AnswerLost,
         Active, At
<1>3. PICK e \in Events : e = Ev(p) BY <1>1, <1>2, OneWorker
<1>4. CASE Section(p)
  <2>1. CASE Bookkeep(p) BY <1>3, <2>1, BookkeepKeeps
  <2>2. CASE SettleWithoutPost(p)
    <3>1. \A q \in Procs \ {p} : ~InSection(q) BY <1>4 DEF Section
    <3>2. QED BY <1>3, <2>2, <3>1, SettleKeeps
  <2>3. CASE FinalizeDelivery(p) BY <1>3, <2>3, FinalizeKeeps
  <2>4. CASE Complete(p) BY <1>3, <2>4, CompleteKeeps
  <2>5. QED BY <1>4, <2>1, <2>2, <2>3, <2>4 DEF Section
<1>5. CASE Step(p)
  <2>1. CASE LosesLock(p) BY <1>3, <2>1, LosesLockKeeps
  <2>2. CASE Deduplicated(p) BY <1>3, <2>2, DeduplicatedKeeps
  <2>3. CASE StartTurn(p) BY <1>3, <2>3, StartTurnKeeps
  <2>4. ASSUME NEW size \in Streamed(p), NEW end \in {"silent", "ended"}, NEW known \in BOOLEAN,
               LoopEnds(p, size, end, known)
        PROVE  IInv'
    BY <1>3, <2>4, LoopEndsKeeps
  <2>5. ASSUME NEW size \in Streamed(p), NEW fatal \in BOOLEAN, LoopThrows(p, size, fatal)
        PROVE  IInv'
    BY <1>3, <2>5, LoopThrowsKeeps
  <2>6. CASE Post(p) BY <1>3, <2>6, PostKeeps
  <2>7. CASE Acknowledge(p) BY <1>3, <2>7, AcknowledgeKeeps
  <2>8. CASE SegmentDelivered(p) BY <1>3, <2>8, SegmentKeeps
  <2>9. ASSUME NEW fatal \in BOOLEAN, PostFails(p, fatal) \/ AnswerLost(p, fatal)
        PROVE  IInv'
    BY <1>3, <2>9, PostFailsKeeps
  <2>10. QED BY <1>5, <2>1, <2>2, <2>3, <2>4, <2>5, <2>6, <2>7, <2>8, <2>9 DEF Step
<1>6. QED BY <1>4, <1>5

LEMMA NextIInv ==
  ASSUME IInv, [Next]_vars
  PROVE  IInv'
<1>1. ASSUME NEW e \in Events, Dispatching(e) PROVE IInv'
  <2>1. e \in Procs BY Names
  <2>2. CASE Section(e) \/ Step(e) BY <2>1, <2>2, ProcessKeeps
  <2>3. CASE Ingress(e) BY <2>3, InterceptKeeps, RefuseKeeps, DispatchKeeps, AdmitKeeps DEF Ingress
  <2>4. QED BY <1>1, <2>2, <2>3 DEF Dispatching
<1>2. ASSUME NEW e \in Events, Receive(e) \/ ReplayDeadLetter(e) PROVE IInv'
  BY <1>2, ReceiveKeeps, ReplayDeadLetterKeeps
<1>3. CASE RetrySweep
  <2>1. Sweep \in Procs BY Names
  <2>2. CASE Section(Sweep) \/ Step(Sweep) BY <2>1, <2>2, ProcessKeeps
  <2>3. CASE Sweeping
    <3>1. CASE \E due \in SUBSET (Retryable \cup RetryableDeliveries) : SweepStarts(due)
      <4>1. Retryable \cup RetryableDeliveries \subseteq Events BY DEF Retryable, RetryableDeliveries
      <4>2. \E due \in SUBSET Events : SweepStarts(due) BY <3>1, <4>1
      <4>3. QED BY <4>2, OutsideKeeps
    <3>2. ASSUME NEW e \in replays, SweepReplay(e) PROVE IInv'
      <4>1. e \in Events BY DEF IInv, Types
      <4>2. QED BY <3>2, <4>1, SweepReplayKeeps
    <3>3. ASSUME NEW s \in redeliver, SweepRedeliver(s) PROVE IInv'
      BY <3>3, SweepRedeliverKeeps
    <3>4. QED BY <2>3, <3>1, <3>2, <3>3 DEF Sweeping
  <2>4. QED BY <1>3, <2>2, <2>3 DEF RetrySweep
<1>4. CASE OtherTurn \/ OtherTurnEnds \/ UNCHANGED vars BY <1>4, OutsideKeeps
<1>5. CASE Crash BY <1>5, CrashKeeps
<1>6. CASE Recover BY <1>6, RecoverKeeps
<1>7. QED BY <1>1, <1>2, <1>3, <1>4, <1>5, <1>6 DEF Next

\* What DeliveredMeansAnswered and PostedOnce rest on holds in every state.
LEMMA DeliveryInv == Spec => []IInv
<1>1. Init => IInv BY InitIInv
<1>2. IInv /\ [Next]_vars => IInv' BY NextIInv
<1>3. QED BY <1>1, <1>2, PTL DEF Spec

\* A segment that the platform has acknowledged is not posted again, for any
\* number of events, repeated webhooks, segments, attempts, dead letters
\* replayed, crashes and recoveries: a retry goes on from deliveredSegmentCount
\* and one event at a time has a claim to the reply, unless a deduplicated
\* event took the reply over, or the daemon died between the platform's answer and
\* the count of the segment.
THEOREM DeliveryPostedOnce == Spec => []PostedOnce
<1>1. ASSUME IInv PROVE PostedOnce
  <2>1. SUFFICES ASSUME NEW p \in Procs, At(p, "posted"),
                        <<task[p].turn, task[p].seg>> \in acked \ torn, task[p].turn \notin taken
                 PROVE  FALSE
    BY DEF PostedOnce
  <2>2. Types /\ WorkInv /\ RefInv /\ OneStake /\ AckedCounted BY <1>1 DEF IInv, StakeInv
  <2>3. Active(p) BY <2>1 DEF Active, At
  <2>4. PICK e \in Events : e = Ev(p) BY <2>2, <2>3, OneWorker
  <2>5. task[p] \in Works /\ row[e] \in Rows BY <2>2, <2>3, <2>4, AtWork
  <2>6. PICK t \in Nat, i \in Nat : t = task[p].turn /\ i = task[p].seg BY <2>5 DEF Works
  <2>7. i = row[e].count + 1 /\ row[e].count \in Nat
    BY <2>1, <2>2, <2>3, <2>4, <2>5, <2>6 DEF RefInv, TaskRefs, TaskRefAt, At, Posting, Rows
  <2>8. Stake(e, t) BY <2>1, <2>3, <2>4, <2>6 DEF Stake, On, At, Posting
  <2>9. t \in Turns BY <2>1, <2>2, <2>6 DEF AckedCounted
  <2>10. turns[t].size > 0
    BY <2>1, <2>2, <2>3, <2>6 DEF RefInv, TaskRefs, TaskRefAt, At
  <2>11. PICK f \in Events : CountedOn(f, t, i) BY <2>1, <2>2, <2>6 DEF AckedCounted
  <2>12. row[f].count \in Nat /\ i > 0 BY <2>2, <2>11 DEF Types, Rows, CountedOn
  <2>13. Stake(f, t)
    <3>1. CASE Counting(f, t, i) BY <3>1 DEF Counting, Stake, At, Posting
    <3>2. CASE i <= row[f].count
      <4>1. row[f].count # 0 BY <2>12, <3>2
      <4>2. QED BY <2>11, <4>1 DEF CountedOn, Stake
    <3>3. QED BY <2>11, <3>1, <3>2 DEF CountedOn
  <2>14. f = e BY <2>1, <2>2, <2>6, <2>8, <2>9, <2>10, <2>13 DEF OneStake
  <2>15. ~Counting(e, t, i) BY <2>1, <2>2, <2>3, <2>4, OneWorker DEF Counting, At
  <2>16. QED BY <2>7, <2>11, <2>14, <2>15 DEF CountedOn
<1>2. QED BY <1>1, DeliveryInv, PTL

\* When every event of a message is on record as delivered and no row names the
\* reply of an earlier attempt, all that one of its turns has to say was posted and
\* acknowledged, and that turn was not cut off before it said anything, whatever
\* the order of dispatches, sweeps, deduplications, stops, failures, crashes and
\* recoveries: settling without a post always leaves a sibling that answers.
THEOREM DeliveryAnswered == Spec => []DeliveredMeansAnswered
BY DeliveryInv, PTL DEF IInv, AnswerInv
=============================================================================
