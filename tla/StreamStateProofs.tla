------------------------- MODULE StreamStateProofs -------------------------
(***************************************************************************)
(* The safety of the event stream, for every reservation block, every ring *)
(* size and any number of events and restarts: which seqs can be issued    *)
(* twice, that a stamp lies above the anchor, that the anchor claims only  *)
(* what the rows hold, and that a served replay has no hole.               *)
(***************************************************************************)
EXTENDS StreamState, SequenceTheorems, TLAPS

\* The counter stays within what is reserved in memory, and while every
\* reservation write has succeeded the file holds that ceiling too.
ReservedAhead ==
  /\ nextSeq <= ceiling + 1
  /\ "reservation" \notin faults => ceiling <= disk

\* The file never falls below a seq it covered when that seq was issued, and
\* the counter has passed every such seq.
CoveredBehind ==
  \A i \in Events :
    log[i].covered => log[i].seq <= disk /\ log[i].seq < nextSeq

\* The events of the running process are the end of the log, in the order of
\* their seqs, from firstStampedSeq to below the counter.
ProcessInOrder ==
  /\ first < nextSeq
  /\ \A i \in Events :
       /\ log[i].boot <= boot
       /\ log[i].boot = boot => /\ 1 <= first
                                /\ first <= log[i].seq
                                /\ log[i].seq < nextSeq
  /\ \A i, j \in Events :
       i < j /\ log[i].boot = boot =>
         log[j].boot = boot /\ log[i].seq < log[j].seq

\* What the anchor may be raised to lies below the counter, and so does the
\* anchor while one of the counter's two safeguards works.
AnchorBehind ==
  /\ streamed < nextSeq
  /\ flushed < nextSeq
  /\ "reservation" \notin faults => anchor <= disk
  /\ ~CounterLost => anchor < nextSeq

\* The content of the running turn: streamed text is mirrored only while a
\* call streams or the next one has no row yet, after every tool result still
\* being written.
TurnContent ==
  /\ turn \notin {"streaming", "reserving"} => mirror = {}
  /\ \A i \in mirror \cup batch : log[i].boot = boot
  /\ \A i \in arriving, m \in mirror : i < m
  /\ turn = "idle" => row = {}
  /\ turn \in {"tools", "unfinalized"} => ~awaiting

\* Content outside the rows is known to be unsaved, is on its way, went with
\* an abandoned call, or is mirrored above both the anchor and the turn's
\* flushed seq.
ContentHeld ==
  /\ Content \subseteq rows \cup unsaved \cup arriving \cup mirror \cup discarded
  /\ \A m \in mirror : log[m].seq <= flushed => m \in rows \cup unsaved \cup discarded
  /\ ~CounterLost =>
       \A m \in mirror : log[m].seq <= anchor => m \in rows \cup unsaved \cup discarded

\* What an abandoned call takes along: the row that awaits finalization holds
\* nothing but mirrored text, so only text goes, and a call that streams has
\* not lost its row.
CallContent ==
  /\ awaiting => row = {}
  /\ \A i \in mirror : log[i].kind = "delta"
  /\ \A i \in batch : log[i].kind = "result"
  /\ \A i \in discarded : log[i].kind = "delta" /\ i \notin rows
  /\ turn = "streaming" => mirror \cap discarded = {}

IInv ==
  /\ TypeOK
  /\ ReservedAhead
  /\ CoveredBehind
  /\ ProcessInOrder
  /\ AnchorBehind
  /\ TurnContent
  /\ ContentHeld
  /\ CallContent
  /\ OnlyUncoveredReissued
-----------------------------------------------------------------------------
(* The counter.                                                            *)

\* Nothing is stamped, written or anchored when the first daemon starts.
LEMMA InitStream == Init => IInv
<1> SUFFICES ASSUME Init PROVE IInv
  OBVIOUS
<1>1. /\ log = <<>> /\ Len(log) = 0 /\ Events = {} /\ Content = {}
      /\ log \in Seq([seq : Nat, kind : Emits, boot : Nat, covered : BOOLEAN])
  BY DEF Init, Events, Content
<1>2. boot \in 1..MaxBoots
  BY StreamAssumption DEF Init
<1>3. TypeOK
  <2>1. awaiting \in BOOLEAN /\ row \subseteq Events
    BY DEF Init
  <2>2. /\ log \in Seq([seq : Nat, kind : Emits, boot : Nat, covered : BOOLEAN])
        /\ nextSeq \in Nat \ {0} /\ ceiling \in Nat /\ first \in Nat /\ disk \in Nat
        /\ ringLo \in 1..(Len(log) + 1) /\ anchor \in Nat /\ streamed \in Nat
        /\ flushed \in Nat
    BY <1>1 DEF Init
  <2>3. /\ turn \in Turns /\ rows \subseteq Events /\ mirror \subseteq Events
        /\ unsaved \subseteq Events /\ discarded \subseteq Events
        /\ arriving \subseteq batch /\ batch \subseteq Events
        /\ faults \subseteq {"reservation", "floor"}
    BY DEF Init, Turns
  <2>. QED BY <1>2, <2>1, <2>2, <2>3 DEF TypeOK
<1>4. ReservedAhead /\ AnchorBehind /\ TurnContent
  BY DEF Init, ReservedAhead, AnchorBehind, TurnContent, CounterLost
<1>5. CoveredBehind /\ ProcessInOrder /\ OnlyUncoveredReissued
  BY <1>1 DEF Init, CoveredBehind, ProcessInOrder, OnlyUncoveredReissued
<1>6. ContentHeld /\ CallContent
  BY <1>1 DEF Init, ContentHeld, CallContent
<1>. QED
  BY <1>3, <1>4, <1>5, <1>6 DEF IInv

\* reserveSeqCapacity never moves the counter back, and a counter that has to
\* reserve first jumps over the ceiling it finds on disk.
LEMMA ReservedNextAhead ==
  ASSUME NEW next \in Nat, NEW c \in Nat, NEW onDisk \in Nat
  PROVE  /\ ReservedNext(next, c, onDisk) \in Nat
         /\ ReservedNext(next, c, onDisk) >= next
         /\ next > c => ReservedNext(next, c, onDisk) > onDisk
         /\ next <= c => ReservedNext(next, c, onDisk) = next
  BY DEF ReservedNext, Max2

\* What stampAndBuffer does: one event is appended under a seq that the counter
\* had not passed, nothing on disk is lost, and the counter moves just past it.
StampedAs(kind, seq) ==
  /\ log' \in Seq([seq : Nat, kind : Emits, boot : Nat, covered : BOOLEAN])
  /\ Len(log') = Len(log) + 1
  /\ \A i \in 1..Len(log) : log'[i] = log[i]
  /\ log'[Len(log) + 1].seq = seq
  /\ log'[Len(log) + 1].kind = kind
  /\ log'[Len(log) + 1].boot = boot
  /\ log'[Len(log) + 1].covered => seq <= disk'
  /\ nextSeq' = seq + 1 /\ nextSeq <= seq
  /\ disk' \in Nat /\ disk <= disk'
  /\ first' = IF first = 0 THEN seq ELSE first
  /\ ringLo' \in 1..(Len(log') + 1)
  /\ boot' = boot
  /\ faults \subseteq faults' /\ faults' \subseteq faults \cup {"reservation"}
  /\ ceiling' \in Nat
  /\ ReservedAhead'

LEMMA StampEffect ==
  ASSUME TypeOK, ReservedAhead, NEW kind, NEW ok \in BOOLEAN, Stamp(kind, ok)
  PROVE  \E seq \in Nat : StampedAs(kind, seq)
<1> DEFINE seq == ReservedNext(nextSeq, ceiling, disk)
           top == seq + Block - 1
           entry == [seq |-> seq, kind |-> kind, boot |-> boot, covered |-> seq <= disk']
           Entries == [seq : Nat, kind : Emits, boot : Nat, covered : BOOLEAN]
<1>1. /\ nextSeq \in Nat \ {0} /\ ceiling \in Nat /\ disk \in Nat /\ first \in Nat
      /\ log \in Seq(Entries) /\ ringLo \in 1..(Len(log) + 1) /\ boot \in Nat
  BY StreamAssumption DEF TypeOK
<1>2. /\ seq \in Nat /\ seq >= nextSeq
      /\ nextSeq > ceiling => seq > disk
      /\ nextSeq <= ceiling => seq = nextSeq
  BY <1>1, ReservedNextAhead
<1>3. top \in Nat /\ top >= seq
  BY <1>2, StreamAssumption
<1>4. /\ disk' = IF nextSeq > ceiling /\ ok THEN top ELSE disk
      /\ ceiling' = IF nextSeq > ceiling THEN top ELSE ceiling
      /\ nextSeq' = seq + 1
      /\ first' = IF first = 0 THEN seq ELSE first
      /\ log' = Append(log, entry)
      /\ kind \in Emits
      /\ boot' = boot
  BY Zenon DEF Stamp
<1>5. entry \in Entries
  <2>1. (seq <= disk') \in BOOLEAN
    OBVIOUS
  <2>. QED BY <1>1, <1>2, <1>4, <2>1
<1>6. /\ entry.seq = seq /\ entry.kind = kind /\ entry.boot = boot
      /\ entry.covered => seq <= disk'
  OBVIOUS
<1> HIDE DEF entry, Entries, seq, top
<1>7. /\ log' \in Seq(Entries) /\ Len(log') = Len(log) + 1
      /\ \A i \in 1..Len(log) : log'[i] = log[i]
      /\ log'[Len(log) + 1] = entry
  BY <1>1, <1>4, <1>5
<1>8. faults' = IF ok THEN faults ELSE faults \cup {"reservation"}
  BY DEF Stamp
<1>9. ReservedAhead'
  <2>1. nextSeq' <= ceiling' + 1
    BY <1>1, <1>2, <1>3, <1>4
  <2>2. CASE ok
    BY <1>1, <1>2, <1>3, <1>4, <1>8, <2>1, <2>2 DEF ReservedAhead
  <2>3. CASE ~ok
    BY <1>8, <2>1, <2>3 DEF ReservedAhead
  <2>. QED BY <2>2, <2>3
<1>10. ringLo' \in 1..(Len(log') + 1)
  <2>1. ringLo' = EvictedByCount(ringLo, Len(log) + 1)
    BY DEF Stamp
  <2>2. Len(log) \in Nat
    BY <1>1
  <2>. QED BY <1>1, <1>7, <2>1, <2>2, StreamAssumption DEF EvictedByCount, Max2
<1>11. ceiling' \in Nat /\ disk' \in Nat /\ disk <= disk'
  BY <1>1, <1>2, <1>3, <1>4
<1>12. faults \subseteq faults' /\ faults' \subseteq faults \cup {"reservation"}
  BY <1>8
<1>13. StampedAs(kind, seq)
  BY <1>2, <1>4, <1>6, <1>7, <1>9, <1>10, <1>11, <1>12 DEF StampedAs, Entries
<1>. QED
  BY <1>2, <1>13

\* The parts of the invariant that only the counter, the log and the file
\* bear on.
CounterInv == ReservedAhead /\ CoveredBehind /\ ProcessInOrder /\ OnlyUncoveredReissued

\* The numbers of a state are numbers, those of its events too.
LEMMA Numbers ==
  ASSUME TypeOK
  PROVE  /\ Len(log) \in Nat /\ Events = 1..Len(log)
         /\ nextSeq \in Nat /\ nextSeq >= 1 /\ ceiling \in Nat /\ disk \in Nat
         /\ first \in Nat /\ boot \in Nat
         /\ anchor \in Nat /\ streamed \in Nat /\ flushed \in Nat
         /\ \A i \in Events : log[i].seq \in Nat /\ log[i].boot \in Nat
<1>1. \A i \in 1..Len(log) : log[i] \in [seq : Nat, kind : Emits, boot : Nat, covered : BOOLEAN]
  BY ElementOfSeq, Zenon DEF TypeOK
<1>2. \A i \in Events : log[i].seq \in Nat /\ log[i].boot \in Nat
  BY <1>1 DEF Events
<1>3. boot \in 1..MaxBoots /\ MaxBoots \in Nat
  BY StreamAssumption DEF TypeOK
<1>4. boot \in Nat
  BY <1>3
<1>5. Len(log) \in Nat
  BY DEF TypeOK
<1>. QED BY <1>2, <1>4, <1>5 DEF TypeOK, Events

\* A stamp keeps them: its seq is above every seq of this process and above
\* every seq the file has ever covered.
LEMMA StampKeepsCounter ==
  ASSUME TypeOK, CounterInv, NEW kind, NEW seq \in Nat, StampedAs(kind, seq)
  PROVE  CounterInv'
<1> DEFINE n == Len(log) + 1
<1>1. /\ Len(log') = n
      /\ \A i \in 1..Len(log) : log'[i] = log[i]
      /\ nextSeq' = seq + 1 /\ nextSeq <= seq
      /\ disk' \in Nat /\ disk <= disk' /\ boot' = boot
      /\ first' = IF first = 0 THEN seq ELSE first
      /\ ReservedAhead'
  BY DEF StampedAs
<1>2. /\ log'[n].seq = seq /\ log'[n].boot = boot
      /\ log'[n].covered => seq <= disk'
  BY DEF StampedAs
<1>3. /\ Len(log) \in Nat /\ nextSeq \in Nat /\ nextSeq >= 1 /\ disk \in Nat
      /\ first \in Nat /\ boot \in Nat
      /\ \A i \in Events : log[i].seq \in Nat /\ log[i].boot \in Nat
  BY Numbers
<1>4. /\ \A i \in Events' : i \in Events \/ i = n
      /\ \A i \in Events : log'[i] = log[i] /\ i < n
      /\ \A i, j \in Events' : i < j => i \in Events
  BY <1>1, <1>3 DEF Events
<1> HIDE DEF n
<1>7. CoveredBehind'
  <2> SUFFICES ASSUME NEW i \in Events', log'[i].covered
               PROVE  log'[i].seq <= disk' /\ log'[i].seq < nextSeq'
    BY DEF CoveredBehind
  <2>1. CASE i \in Events
    <3>1. log[i].seq <= disk /\ log[i].seq < nextSeq
      BY <1>4, <2>1 DEF CounterInv, CoveredBehind
    <3>. QED BY <1>1, <1>3, <1>4, <2>1, <3>1
  <2>2. CASE i = n
    BY <1>1, <1>2, <2>2
  <2>. QED BY <1>4, <2>1, <2>2
<1>8. ProcessInOrder'
  <2>0. first < nextSeq /\ (first = 0 => \A i \in Events : log[i].boot # boot)
    BY DEF CounterInv, ProcessInOrder
  <2>1. ASSUME NEW i \in Events'
        PROVE  /\ log'[i].boot <= boot'
               /\ log'[i].boot = boot' => /\ 1 <= first'
                                          /\ first' <= log'[i].seq
                                          /\ log'[i].seq < nextSeq'
    <3>1. CASE i \in Events
      <4>1. log'[i] = log[i] /\ log[i].boot <= boot /\ log[i].seq \in Nat
        BY <1>3, <1>4, <3>1 DEF CounterInv, ProcessInOrder
      <4>2. log[i].boot = boot =>
              1 <= first /\ first <= log[i].seq /\ log[i].seq < nextSeq /\ first' = first
        BY <1>1, <2>0, <3>1 DEF CounterInv, ProcessInOrder
      <4>. QED BY <1>1, <1>3, <4>1, <4>2
    <3>2. CASE i = n
      <4>1. 1 <= first' /\ first' <= seq
        BY <1>1, <1>3, <2>0
      <4>. QED BY <1>1, <1>2, <1>3, <3>2, <4>1
    <3>. QED BY <1>4, <3>1, <3>2
  <2>2. ASSUME NEW i \in Events', NEW j \in Events', i < j, log'[i].boot = boot'
        PROVE  log'[j].boot = boot' /\ log'[i].seq < log'[j].seq
    <3>1. i \in Events /\ log'[i] = log[i] /\ log[i].boot = boot /\ log[i].seq \in Nat
      BY <1>1, <1>3, <1>4, <2>2
    <3>2. CASE j \in Events
      BY <1>1, <1>4, <2>2, <3>1, <3>2 DEF CounterInv, ProcessInOrder
    <3>3. CASE j = n
      <4>1. log[i].seq < nextSeq
        BY <3>1 DEF CounterInv, ProcessInOrder
      <4>. QED BY <1>1, <1>2, <1>3, <3>1, <3>3, <4>1
    <3>. QED BY <1>4, <3>2, <3>3
  <2>3. first' < nextSeq'
    BY <1>1, <1>3, <2>0
  <2>. QED BY <2>1, <2>2, <2>3 DEF ProcessInOrder
<1>9. OnlyUncoveredReissued'
  <2> SUFFICES ASSUME NEW i \in Events', NEW j \in Events',
                      i < j, log'[j].seq <= log'[i].seq
               PROVE  ~log'[i].covered
    BY DEF OnlyUncoveredReissued
  <2>1. i \in Events /\ log'[i] = log[i] /\ log[i].seq \in Nat
    BY <1>3, <1>4
  <2>2. CASE j \in Events
    BY <1>4, <2>1, <2>2 DEF CounterInv, OnlyUncoveredReissued
  <2>3. CASE j = n
    BY <1>1, <1>2, <1>3, <2>1, <2>3 DEF CounterInv, CoveredBehind
  <2>. QED BY <1>4, <2>2, <2>3
<1>. QED
  BY <1>1, <1>7, <1>8, <1>9 DEF CounterInv

\* A step that leaves the log, the counter and the file alone keeps them too.
LEMMA QuietKeepsCounter ==
  ASSUME CounterInv, UNCHANGED <<log, nextSeq, ceiling, first, boot, disk, faults>>
  PROVE  CounterInv'
  BY DEF CounterInv, ReservedAhead, CoveredBehind, ProcessInOrder,
         OnlyUncoveredReissued, Events

-----------------------------------------------------------------------------
(* The anchor.                                                             *)

\* recordConversationPersistedSeq leaves the anchor or moves it to the seq.
LEMMA RecordEffect ==
  ASSUME NEW seq, RecordSeq(seq) PROVE anchor' \in {anchor, seq}
  BY DEF RecordSeq, Raised

\* An anchor below the counter, moved to a seq below the counter, is covered by
\* the file as long as every reservation write has succeeded.
LEMMA AnchorMove ==
  ASSUME TypeOK, AnchorBehind, NEW seq \in Nat, anchor' \in {anchor, seq},
         NEW n \in Nat, nextSeq' = n, nextSeq <= n, seq < n,
         NEW d \in Nat, disk' = d, disk <= d,
         NEW c \in Nat, ceiling' = c,
         faults \subseteq faults', ReservedAhead'
  PROVE  /\ anchor' \in Nat
         /\ "reservation" \notin faults' => anchor' <= disk'
         /\ ~CounterLost' => anchor' < nextSeq'
<1>1. nextSeq \in Nat /\ disk \in Nat /\ anchor \in Nat
  BY Numbers
<1>2. CounterLost => CounterLost'
  BY DEF CounterLost
<1>3. /\ "reservation" \notin faults' => anchor <= disk /\ seq <= d
      /\ ~CounterLost' => anchor < nextSeq
  BY <1>1, <1>2 DEF AnchorBehind, ReservedAhead
<1>. QED
  BY <1>1, <1>3

\* The events of a stamp: those there were, as they were, and the new one.
LEMMA StampedEvents ==
  ASSUME TypeOK, NEW kind, NEW seq \in Nat, StampedAs(kind, seq)
  PROVE  /\ Stamped \in Nat /\ Stamped \notin Events
         /\ Events' = Events \cup {Stamped}
         /\ \A i \in Events : log'[i] = log[i] /\ i < Stamped
         /\ log'[Stamped].seq = seq /\ log'[Stamped].boot = boot'
         /\ log'[Stamped].kind = kind
         /\ Content' = IF kind = "other" THEN Content ELSE Content \cup {Stamped}
<1>1. /\ Len(log) \in Nat /\ Len(log') = Len(log) + 1
      /\ \A i \in 1..Len(log) : log'[i] = log[i]
      /\ log'[Stamped].seq = seq /\ log'[Stamped].kind = kind
      /\ log'[Stamped].boot = boot /\ boot' = boot
  BY Numbers DEF StampedAs, Stamped
<1>2. /\ Stamped \in Nat /\ Stamped \notin Events
      /\ Events' = Events \cup {Stamped}
      /\ \A i \in Events : log'[i] = log[i] /\ i < Stamped
  BY <1>1 DEF Stamped, Events
<1>3. Content' = {i \in Events' : log'[i].kind # "other"}
  BY DEF Content
<1>4. Content' = IF kind = "other" THEN Content ELSE Content \cup {Stamped}
  BY <1>1, <1>2, <1>3 DEF Content
<1>. QED
  BY <1>1, <1>2, <1>4

\* A stamp of a step of the stream, whether or not its reservation succeeds.
LEMMA StampOf ==
  ASSUME IInv, NEW kind, \E ok \in Outcomes("reservation") : Stamp(kind, ok)
  PROVE  \E seq \in Nat : StampedAs(kind, seq)
<1>1. PICK ok \in BOOLEAN : Stamp(kind, ok)
  BY DEF Outcomes
<1>. QED
  BY <1>1, StampEffect DEF IInv

\* After a stamp the counter is ahead of its own event, of the anchor, moved
\* to it or not, and of what a flush may record.
LEMMA StampKeepsAnchor ==
  ASSUME IInv, NEW kind, NEW seq \in Nat, StampedAs(kind, seq),
         anchor' \in {anchor, seq}, streamed' \in {streamed, seq}, flushed' = flushed
  PROVE  AnchorBehind' /\ anchor' \in Nat /\ streamed' \in Nat /\ flushed' \in Nat
<1>1. /\ nextSeq \in Nat /\ nextSeq <= seq /\ nextSeq' = seq + 1
      /\ streamed \in Nat /\ flushed \in Nat
      /\ streamed < nextSeq /\ flushed < nextSeq
  BY Numbers DEF IInv, StampedAs, AnchorBehind
<1>2. /\ seq + 1 \in Nat /\ nextSeq <= seq + 1 /\ seq < seq + 1
  BY <1>1
<1>3. PICK d \in Nat : disk' = d
  BY DEF StampedAs
<1>4. PICK c \in Nat : ceiling' = c
  BY DEF StampedAs
<1>5. disk <= d /\ faults \subseteq faults' /\ ReservedAhead'
  BY <1>3 DEF StampedAs
<1>6. /\ anchor' \in Nat
      /\ "reservation" \notin faults' => anchor' <= disk'
      /\ ~CounterLost' => anchor' < nextSeq'
  BY <1>1, <1>2, <1>3, <1>4, <1>5, AnchorMove DEF IInv
<1>. QED
  BY <1>1, <1>6 DEF AnchorBehind

\* The type of the state after a stamp, given that of what the step does with
\* the new event.
LEMMA StampKeepsType ==
  ASSUME IInv, NEW kind, NEW seq \in Nat, StampedAs(kind, seq),
         anchor' \in Nat, streamed' \in Nat, flushed' \in Nat, turn' \in Turns,
         rows' \subseteq rows \cup {Stamped}, mirror' \subseteq mirror \cup {Stamped},
         unsaved' \subseteq unsaved \cup {Stamped}, discarded' = discarded,
         awaiting' \in BOOLEAN, row' \subseteq row \cup {Stamped},
         batch' \subseteq batch \cup {Stamped}, arriving' \subseteq batch'
  PROVE  TypeOK'
<1>1. /\ nextSeq' = seq + 1
      /\ first' = IF first = 0 THEN seq ELSE first
      /\ log' \in Seq([seq : Nat, kind : Emits, boot : Nat, covered : BOOLEAN])
      /\ ceiling' \in Nat /\ disk' \in Nat
      /\ ringLo' \in 1..(Len(log') + 1) /\ boot' = boot
      /\ faults' \subseteq faults \cup {"reservation"}
  BY DEF StampedAs
<1>2. nextSeq' \in Nat \ {0} /\ first' \in Nat
  BY <1>1 DEF IInv, TypeOK
<1>3. Events' = Events \cup {Stamped}
  BY StampedEvents DEF IInv
<1>4. /\ rows' \subseteq Events' /\ mirror' \subseteq Events' /\ unsaved' \subseteq Events'
      /\ batch' \subseteq Events' /\ row' \subseteq Events' /\ discarded' \subseteq Events'
  BY <1>3 DEF IInv, TypeOK
<1>5. boot' \in 1..MaxBoots /\ faults' \subseteq {"reservation", "floor"}
  BY <1>1 DEF IInv, TypeOK
<1>. QED
  BY <1>1, <1>2, <1>4, <1>5 DEF TypeOK

-----------------------------------------------------------------------------
(* The steps of a turn that stamp an event.                                *)

\* persistUserMessage and its echo: the row is there before the anchor moves.
LEMMA UserEchoStep == IInv /\ UserEcho => IInv'
<1> SUFFICES ASSUME IInv, UserEcho PROVE IInv'
  OBVIOUS
<1>1. PICK seq \in Nat : StampedAs("echo", seq)
  BY StampOf DEF UserEcho
<1>2. CounterInv'
  BY <1>1, StampKeepsCounter DEF IInv, CounterInv
<1>3. /\ turn = "idle" /\ turn' = "streaming" /\ rows' = rows \cup {Stamped}
      /\ UNCHANGED <<mirror, streamed, flushed, batch, arriving, unsaved, row, discarded>>
      /\ awaiting' = TRUE /\ row = {}
      /\ RecordSeq(nextSeq' - 1)
  BY DEF UserEcho, IInv, TurnContent
<1>4. anchor' \in {anchor, seq}
  <2>1. nextSeq' - 1 = seq
    BY <1>1 DEF StampedAs
  <2>. QED BY <1>3, <2>1, RecordEffect
<1>5. /\ AnchorBehind' /\ anchor' \in Nat /\ streamed' \in Nat /\ flushed' \in Nat
  BY <1>1, <1>3, <1>4, StampKeepsAnchor
<1>6. TypeOK'
  <2>1. arriving' \subseteq batch'
    BY <1>3 DEF IInv, TypeOK
  <2>2. /\ awaiting' \in BOOLEAN /\ row' \subseteq row \cup {Stamped}
        /\ discarded' = discarded
    BY <1>3
  <2>. QED BY <1>1, <1>3, <1>5, <2>1, <2>2, StampKeepsType DEF Turns
<1>7. /\ \A i \in Events : log'[i] = log[i]
      /\ boot' = boot
      /\ Content' = Content \cup {Stamped}
      /\ batch \subseteq Events /\ arriving \subseteq batch
  BY <1>1, StampedEvents DEF IInv, TypeOK, StampedAs
<1>8. mirror = {} /\ mirror' = {}
  BY <1>3 DEF IInv, TurnContent
<1>9. TurnContent'
  BY <1>3, <1>7, <1>8 DEF IInv, TurnContent
<1>10. ContentHeld'
  BY <1>3, <1>7, <1>8 DEF IInv, ContentHeld
<1>11. CallContent'
  <2>1. /\ batch \subseteq Events /\ mirror \subseteq Events /\ discarded \subseteq Events
        /\ Stamped \notin Events /\ \A i \in Events : log'[i] = log[i]
        /\ log'[Stamped].kind = "echo"
    BY <1>1, StampedEvents DEF IInv, TypeOK
  <2>2. mirror = {} /\ row' = {}
    BY <1>3, <1>8
  <2>. QED BY <1>3, <2>1, <2>2 DEF IInv, CallContent
<1>. QED
  BY <1>11, <1>2, <1>5, <1>6, <1>9, <1>10 DEF IInv, CounterInv

\* A delta: mirrored above the anchor, the flushed seq and every tool result
\* that is still being written.
LEMMA DeltaStep == IInv /\ Delta => IInv'
<1> SUFFICES ASSUME IInv, Delta PROVE IInv'
  OBVIOUS
<1>1. PICK seq \in Nat : StampedAs("delta", seq)
  BY StampOf DEF Delta
<1>2. CounterInv'
  BY <1>1, StampKeepsCounter DEF IInv, CounterInv
<1>3. /\ turn = "streaming" /\ mirror' = mirror \cup {Stamped}
      /\ streamed' = nextSeq' - 1
      /\ UNCHANGED <<anchor, rows, turn, flushed, batch, arriving, unsaved, awaiting, row, discarded>>
  BY DEF Delta, callVars
<1>4. streamed' \in {streamed, seq}
  <2>1. nextSeq' - 1 = seq
    BY <1>1 DEF StampedAs
  <2>. QED BY <1>3, <2>1
<1>5. /\ AnchorBehind' /\ anchor' \in Nat /\ streamed' \in Nat /\ flushed' \in Nat
  BY <1>1, <1>3, <1>4, StampKeepsAnchor
<1>6. TypeOK'
  <2>1. /\ arriving' \subseteq batch' /\ turn' \in Turns
        /\ awaiting' \in BOOLEAN /\ row' \subseteq row \cup {Stamped}
        /\ discarded' = discarded
    BY <1>3 DEF IInv, TypeOK
  <2>. QED BY <1>1, <1>3, <1>5, <2>1, StampKeepsType
<1>7. /\ \A i \in Events : log'[i] = log[i] /\ i < Stamped
      /\ log'[Stamped].seq = seq /\ log'[Stamped].boot = boot'
      /\ boot' = boot
      /\ Content' = Content \cup {Stamped}
      /\ batch \subseteq Events /\ arriving \subseteq batch /\ mirror \subseteq Events
      /\ CounterLost => CounterLost'
  <2>1. CounterLost => CounterLost'
    BY <1>1 DEF StampedAs, CounterLost
  <2>. QED BY <1>1, <2>1, StampedEvents DEF IInv, TypeOK, StampedAs
<1>8. TurnContent'
  BY <1>3, <1>7 DEF IInv, TurnContent
<1>9. /\ nextSeq \in Nat /\ nextSeq <= seq /\ anchor \in Nat /\ flushed \in Nat
      /\ flushed < nextSeq /\ (~CounterLost => anchor < nextSeq)
  BY <1>1, Numbers DEF IInv, StampedAs, AnchorBehind
<1>10. ~(seq <= flushed) /\ (~CounterLost => ~(seq <= anchor))
  BY <1>9
<1>11. ContentHeld'
  BY <1>3, <1>7, <1>10 DEF IInv, ContentHeld
<1>12. CallContent'
  <2>1. /\ batch \subseteq Events /\ mirror \subseteq Events /\ discarded \subseteq Events
        /\ Stamped \notin Events /\ \A i \in Events : log'[i] = log[i]
        /\ log'[Stamped].kind = "delta"
    BY <1>1, StampedEvents DEF IInv, TypeOK
  <2>. QED BY <1>3, <2>1 DEF IInv, CallContent
<1>. QED
  BY <1>12, <1>2, <1>5, <1>6, <1>8, <1>11 DEF IInv, CounterInv

\* handleToolUse: nothing is mirrored while tools are announced, and the block
\* is in the finalized row, or unsaved with it.
LEMMA ToolStartStep == IInv /\ ToolStart => IInv'
<1> SUFFICES ASSUME IInv, ToolStart PROVE IInv'
  OBVIOUS
<1>1. PICK seq \in Nat : StampedAs("tool", seq)
  BY StampOf DEF ToolStart
<1>2. CounterInv'
  BY <1>1, StampKeepsCounter DEF IInv, CounterInv
<1>3. /\ turn \in {"tools", "unfinalized"}
      /\ \/ rows' = rows \cup {Stamped} /\ unsaved' = unsaved
         \/ unsaved' = unsaved \cup {Stamped} /\ rows' = rows
      /\ UNCHANGED <<turn, mirror, streamed, flushed, batch, arriving, awaiting, discarded>>
      /\ row' = row \cup {Stamped} /\ ~awaiting
      /\ RecordSeq(nextSeq' - 1)
  BY DEF ToolStart, IInv, TurnContent
<1>4. anchor' \in {anchor, seq}
  <2>1. nextSeq' - 1 = seq
    BY <1>1 DEF StampedAs
  <2>. QED BY <1>3, <2>1, RecordEffect
<1>5. /\ AnchorBehind' /\ anchor' \in Nat /\ streamed' \in Nat /\ flushed' \in Nat
  BY <1>1, <1>3, <1>4, StampKeepsAnchor
<1>6. TypeOK'
  <2>1. /\ arriving' \subseteq batch' /\ turn' \in Turns
        /\ rows' \subseteq rows \cup {Stamped} /\ unsaved' \subseteq unsaved \cup {Stamped}
        /\ mirror' \subseteq mirror \cup {Stamped} /\ batch' \subseteq batch \cup {Stamped}
        /\ awaiting' \in BOOLEAN /\ row' \subseteq row \cup {Stamped}
        /\ discarded' = discarded
    BY <1>3 DEF IInv, TypeOK
  <2>. QED BY <1>1, <1>5, <2>1, StampKeepsType
<1>7. /\ \A i \in Events : log'[i] = log[i]
      /\ boot' = boot
      /\ Content' = Content \cup {Stamped}
      /\ batch \subseteq Events /\ arriving \subseteq batch
  BY <1>1, StampedEvents DEF IInv, TypeOK, StampedAs
<1>8. mirror = {} /\ mirror' = {}
  BY <1>3 DEF IInv, TurnContent
<1>9. TurnContent'
  BY <1>3, <1>7, <1>8 DEF IInv, TurnContent
<1>10. ContentHeld'
  BY <1>3, <1>7, <1>8 DEF IInv, ContentHeld
<1>11. CallContent'
  <2>1. /\ batch \subseteq Events /\ mirror \subseteq Events /\ discarded \subseteq Events
        /\ Stamped \notin Events /\ \A i \in Events : log'[i] = log[i]
        /\ log'[Stamped].kind = "tool"
    BY <1>1, StampedEvents DEF IInv, TypeOK
  <2>. QED BY <1>3, <2>1 DEF IInv, CallContent
<1>. QED
  BY <1>11, <1>2, <1>5, <1>6, <1>9, <1>10 DEF IInv, CounterInv

\* handleToolResult up to its await.
LEMMA ToolResultStep == IInv /\ ToolResult => IInv'
<1> SUFFICES ASSUME IInv, ToolResult PROVE IInv'
  OBVIOUS
<1>1. PICK seq \in Nat : StampedAs("result", seq)
  BY StampOf DEF ToolResult
<1>2. CounterInv'
  BY <1>1, StampKeepsCounter DEF IInv, CounterInv
<1>3. /\ turn \in {"tools", "unfinalized"}
      /\ batch' = batch \cup {Stamped} /\ arriving' = arriving \cup {Stamped}
      /\ UNCHANGED <<anchor, rows, turn, mirror, streamed, flushed, unsaved, awaiting, row, discarded>>
  BY DEF ToolResult, callVars
<1>4. /\ AnchorBehind' /\ anchor' \in Nat /\ streamed' \in Nat /\ flushed' \in Nat
  BY <1>1, <1>3, StampKeepsAnchor
<1>5. TypeOK'
  <2>1. /\ arriving' \subseteq batch' /\ turn' \in Turns
        /\ awaiting' \in BOOLEAN /\ row' \subseteq row \cup {Stamped}
        /\ discarded' = discarded
    BY <1>3 DEF IInv, TypeOK
  <2>. QED BY <1>1, <1>3, <1>4, <2>1, StampKeepsType
<1>6. /\ \A i \in Events : log'[i] = log[i]
      /\ log'[Stamped].boot = boot' /\ boot' = boot
      /\ Content' = Content \cup {Stamped}
      /\ batch \subseteq Events
  BY <1>1, StampedEvents DEF IInv, TypeOK, StampedAs
<1>7. mirror = {} /\ mirror' = {}
  BY <1>3 DEF IInv, TurnContent
<1>8. TurnContent'
  BY <1>3, <1>6, <1>7 DEF IInv, TurnContent
<1>9. ContentHeld'
  BY <1>3, <1>6, <1>7 DEF IInv, ContentHeld
<1>10. CallContent'
  <2>1. /\ batch \subseteq Events /\ mirror \subseteq Events /\ discarded \subseteq Events
        /\ Stamped \notin Events /\ \A i \in Events : log'[i] = log[i]
        /\ log'[Stamped].kind = "result"
    BY <1>1, StampedEvents DEF IInv, TypeOK
  <2>. QED BY <1>3, <2>1 DEF IInv, CallContent
<1>. QED
  BY <1>10, <1>2, <1>4, <1>5, <1>8, <1>9 DEF IInv, CounterInv

\* An event of another conversation only moves the counter.
LEMMA OtherEventStep == IInv /\ OtherEvent => IInv'
<1> SUFFICES ASSUME IInv, OtherEvent PROVE IInv'
  OBVIOUS
<1>1. PICK seq \in Nat : StampedAs("other", seq)
  BY StampOf DEF OtherEvent
<1>2. CounterInv'
  BY <1>1, StampKeepsCounter DEF IInv, CounterInv
<1>3. UNCHANGED <<anchor, rows, turn, mirror, streamed, flushed, batch, arriving, unsaved,
                  awaiting, row, discarded>>
  BY DEF OtherEvent, turnVars, callVars
<1>4. /\ AnchorBehind' /\ anchor' \in Nat /\ streamed' \in Nat /\ flushed' \in Nat
  BY <1>1, <1>3, StampKeepsAnchor
<1>5. TypeOK'
  <2>1. /\ arriving' \subseteq batch' /\ turn' \in Turns
        /\ awaiting' \in BOOLEAN /\ row' \subseteq row \cup {Stamped}
        /\ discarded' = discarded
    BY <1>3 DEF IInv, TypeOK
  <2>. QED BY <1>1, <1>3, <1>4, <2>1, StampKeepsType
<1>6. /\ \A i \in Events : log'[i] = log[i]
      /\ boot' = boot
      /\ Content' = Content
      /\ batch \subseteq Events /\ arriving \subseteq batch /\ mirror \subseteq Events
      /\ CounterLost => CounterLost'
  <2>1. CounterLost => CounterLost'
    BY <1>1 DEF StampedAs, CounterLost
  <2>. QED BY <1>1, <2>1, StampedEvents DEF IInv, TypeOK, StampedAs
<1>7. TurnContent'
  BY <1>3, <1>6 DEF IInv, TurnContent
<1>8. ContentHeld'
  BY <1>3, <1>6 DEF IInv, ContentHeld
<1>9. CallContent'
  <2>1. /\ batch \subseteq Events /\ mirror \subseteq Events /\ discarded \subseteq Events
        /\ Stamped \notin Events /\ \A i \in Events : log'[i] = log[i]
        /\ log'[Stamped].kind = "other"
    BY <1>1, StampedEvents DEF IInv, TypeOK
  <2>. QED BY <1>3, <2>1 DEF IInv, CallContent
<1>. QED
  BY <1>9, <1>2, <1>4, <1>5, <1>7, <1>8 DEF IInv, CounterInv

-----------------------------------------------------------------------------
(* The steps that stamp nothing.                                           *)

quiet == <<log, nextSeq, ceiling, first, boot, disk, faults>>

\* They keep the counter, and an anchor they move stays behind it.
LEMMA QuietKeepsAnchor ==
  ASSUME IInv, UNCHANGED quiet, NEW seq \in Nat, seq < nextSeq,
         anchor' \in {anchor, seq}, streamed' \in {streamed, 0},
         flushed' \in {flushed, streamed, 0}
  PROVE  /\ CounterInv' /\ AnchorBehind'
         /\ anchor' \in Nat /\ streamed' \in Nat /\ flushed' \in Nat
<1>1. /\ nextSeq \in Nat /\ nextSeq >= 1 /\ disk \in Nat /\ ceiling \in Nat
      /\ streamed \in Nat /\ flushed \in Nat
      /\ streamed < nextSeq /\ flushed < nextSeq
  BY Numbers DEF IInv, AnchorBehind
<1>2. CounterInv'
  BY QuietKeepsCounter DEF IInv, CounterInv, quiet
<1>3. /\ nextSeq' = nextSeq /\ nextSeq <= nextSeq /\ disk' = disk /\ disk <= disk
      /\ ceiling' = ceiling /\ faults \subseteq faults' /\ ReservedAhead'
  BY <1>1, <1>2 DEF quiet, CounterInv
<1>4. /\ anchor' \in Nat
      /\ "reservation" \notin faults' => anchor' <= disk'
      /\ ~CounterLost' => anchor' < nextSeq'
  BY <1>1, <1>3, AnchorMove DEF IInv
<1>. QED
  BY <1>1, <1>2, <1>3, <1>4 DEF AnchorBehind

\* What a set of events in the log, the rows and the turn give the type after a
\* quiet step.
LEMMA QuietKeepsType ==
  ASSUME IInv, UNCHANGED quiet, ringLo' \in 1..(Len(log) + 1),
         anchor' \in Nat, streamed' \in Nat, flushed' \in Nat, turn' \in Turns,
         rows' \subseteq Events, mirror' \subseteq Events, unsaved' \subseteq Events,
         awaiting' \in BOOLEAN, row' \subseteq Events, discarded' \subseteq Events,
         batch' \subseteq Events, arriving' \subseteq batch'
  PROVE  TypeOK'
  BY DEF IInv, TypeOK, quiet, Events

\* flushAccumulatedContent: all that is mirrored is in the rows before its seq
\* is recorded, or is known to be unsaved.
LEMMA FlushStep == IInv /\ Flush => IInv'
<1> SUFFICES ASSUME IInv, Flush PROVE IInv'
  OBVIOUS
<1>1. /\ UNCHANGED quiet
      /\ UNCHANGED <<turn, mirror, streamed, batch, arriving, ringLo, awaiting, row, discarded>>
  BY DEF Flush, quiet, processVars, callVars
<1>2. /\ anchor' \in {anchor, streamed} /\ flushed' \in {flushed, streamed, 0}
      /\ \/ rows' = rows \cup (mirror \ discarded) /\ unsaved' = unsaved \ mirror
         \/ /\ rows' = rows /\ unsaved' = unsaved \cup (mirror \ rows)
  <2>1. CASE /\ rows' = rows \cup (mirror \ discarded)
             /\ RecordSeq(FlushSeq)
             /\ flushed' = Max2(flushed, streamed)
             /\ unsaved' = unsaved \ mirror
    BY <2>1, RecordEffect DEF FlushSeq, Max2
  <2>2. CASE /\ unsaved' = unsaved \cup (mirror \ rows)
             /\ UNCHANGED <<rows, anchor, flushed>>
    BY <2>2
  <2>. QED BY <2>1, <2>2 DEF Flush
<1>3. streamed \in Nat /\ streamed < nextSeq
  BY Numbers DEF IInv, AnchorBehind
<1>4. /\ CounterInv' /\ AnchorBehind'
      /\ anchor' \in Nat /\ streamed' \in Nat /\ flushed' \in Nat
  BY <1>1, <1>2, <1>3, QuietKeepsAnchor
<1>5. TypeOK'
  BY <1>1, <1>2, <1>4, QuietKeepsType DEF IInv, TypeOK
<1>6. TurnContent'
  BY <1>1 DEF IInv, TurnContent, quiet
<1>7. Content' = Content /\ mirror \subseteq rows' \cup unsaved' \cup discarded
  BY <1>1, <1>2 DEF quiet, Content, Events
<1>8. ContentHeld'
  BY <1>1, <1>2, <1>7 DEF IInv, ContentHeld
<1>9. CallContent'
  BY <1>1, <1>2 DEF IInv, CallContent, quiet
<1>. QED
  BY <1>9, <1>4, <1>5, <1>6, <1>8 DEF IInv, CounterInv

\* The writes of a set of events leave each of them in the rows or unsaved,
\* and take nothing out of the two together.
LEMMA SavedEffect ==
  ASSUME NEW written, NEW failed, Saved(written, failed)
  PROVE  /\ rows \cup unsaved \subseteq rows' \cup unsaved'
         /\ written \cup failed \subseteq rows' \cup unsaved'
         /\ rows' \subseteq rows \cup written
         /\ unsaved' \subseteq unsaved \cup failed
         /\ faults' = faults
  BY DEF Saved

\* handleMessageComplete: batch and mirror are written or known to be unsaved
\* when both are cleared.
LEMMA MessageCompleteStep == IInv /\ MessageComplete => IInv'
<1> SUFFICES ASSUME IInv, MessageComplete PROVE IInv'
  OBVIOUS
<1>1. PICK results \in Writes(batch), ok \in BOOLEAN :
        /\ Saved(results \cup (IF ok THEN mirror ELSE {}),
                 (batch \ results) \cup (IF ok THEN {} ELSE mirror))
        /\ IF ok THEN RecordSeq(streamed) /\ flushed' = Max2(flushed, streamed)
                 ELSE UNCHANGED <<anchor, flushed>>
        /\ turn' = IF ok THEN "tools" ELSE "unfinalized"
  BY DEF MessageComplete, Outcomes
<1>2. results \subseteq batch
  BY DEF Writes
<1>3. /\ rows \cup unsaved \subseteq rows' \cup unsaved'
      /\ mirror \cup batch \subseteq rows' \cup unsaved'
      /\ rows' \subseteq rows \cup mirror \cup batch
      /\ unsaved' \subseteq unsaved \cup mirror \cup batch
      /\ faults' = faults
  BY <1>1, <1>2, SavedEffect
<1>4. /\ UNCHANGED quiet /\ mirror' = {} /\ streamed' = 0 /\ batch' = {}
      /\ arriving = {} /\ arriving' = {} /\ ringLo' = ringLo
      /\ awaiting' = FALSE /\ row' = mirror /\ discarded' = discarded
      /\ turn = "streaming" /\ turn' \in {"tools", "unfinalized"}
  BY <1>1, <1>3 DEF MessageComplete, ResultsSettled, quiet, processVars
<1>5. anchor' \in {anchor, streamed} /\ flushed' \in {flushed, streamed, 0} /\ turn' \in Turns
  BY <1>1, RecordEffect DEF Max2, Turns
<1>6. streamed \in Nat /\ streamed < nextSeq
  BY Numbers DEF IInv, AnchorBehind
<1>7. /\ CounterInv' /\ AnchorBehind'
      /\ anchor' \in Nat /\ streamed' \in Nat /\ flushed' \in Nat
  BY <1>4, <1>5, <1>6, QuietKeepsAnchor
<1>8. TypeOK'
  BY <1>3, <1>4, <1>5, <1>7, QuietKeepsType DEF IInv, TypeOK
<1>9. TurnContent'
  BY <1>4 DEF TurnContent
<1>10. Content' = Content
  BY <1>4 DEF quiet, Content, Events
<1>11. ContentHeld'
  BY <1>3, <1>4, <1>10 DEF IInv, ContentHeld
<1>12. CallContent'
  BY <1>3, <1>4 DEF IInv, CallContent, quiet
<1>. QED
  BY <1>12, <1>7, <1>8, <1>9, <1>11 DEF IInv, CounterInv

\* The on-arrival write: the seq it records is that of a result below every
\* mirrored delta.
LEMMA ResultWriteStep ==
  ASSUME IInv, NEW i \in Events, ResultWrite(i) PROVE IInv'
<1>1. /\ i \in arriving /\ arriving' = arriving \ {i}
      /\ UNCHANGED <<turn, mirror, streamed, flushed, batch, ringLo, awaiting, row, discarded>>
      /\ UNCHANGED <<log, nextSeq, ceiling, first, boot, disk>>
  BY DEF ResultWrite, processVars, callVars
<1>2. /\ rows \cup unsaved \subseteq rows' \cup unsaved'
      /\ batch \subseteq rows' \cup unsaved'
      /\ rows' \subseteq rows \cup batch /\ unsaved' \subseteq unsaved \cup batch
      /\ faults' = faults
      /\ anchor' \in {anchor, log[i].seq}
  <2>1. CASE Saved(batch, {}) /\ RecordSeq(log[i].seq)
    BY <2>1, SavedEffect, RecordEffect
  <2>2. CASE Saved({}, batch) /\ UNCHANGED anchor
    BY <2>2, SavedEffect
  <2>. QED BY <2>1, <2>2 DEF ResultWrite, ResultsWritten
<1>3. UNCHANGED quiet
  BY <1>1, <1>2 DEF quiet
<1>4. /\ i \in batch /\ log[i].seq \in Nat /\ log[i].boot = boot
      /\ batch \subseteq Events /\ mirror \subseteq Events
      /\ \A m \in Events : log[m].seq \in Nat
  BY <1>1, Numbers DEF IInv, TypeOK, TurnContent
<1>5. /\ log[i].seq < nextSeq
      /\ \A m \in mirror : log[i].seq < log[m].seq
  <2>1. \A m \in mirror : i < m
    BY <1>1 DEF IInv, TurnContent
  <2>. QED BY <1>4, <2>1 DEF IInv, ProcessInOrder
<1>6. /\ CounterInv' /\ AnchorBehind'
      /\ anchor' \in Nat /\ streamed' \in Nat /\ flushed' \in Nat
  BY <1>1, <1>2, <1>3, <1>4, <1>5, QuietKeepsAnchor
<1>7. TypeOK'
  <2>1. /\ ringLo' \in 1..(Len(log) + 1) /\ turn' \in Turns
        /\ rows' \subseteq Events /\ mirror' \subseteq Events /\ unsaved' \subseteq Events
        /\ batch' \subseteq Events /\ arriving' \subseteq batch'
        /\ awaiting' \in BOOLEAN /\ row' \subseteq Events /\ discarded' \subseteq Events
    BY <1>1, <1>2 DEF IInv, TypeOK
  <2>. QED BY <1>3, <1>6, <2>1, QuietKeepsType
<1>8. TurnContent'
  BY <1>1 DEF IInv, TurnContent
<1>9. Content' = Content
  BY <1>1 DEF Content, Events
<1>10. \A m \in mirror : ~(log[m].seq <= log[i].seq)
  BY <1>4, <1>5
<1>11. ContentHeld'
  <2>1. Content' \subseteq rows' \cup unsaved' \cup arriving' \cup mirror' \cup discarded'
    BY <1>1, <1>2, <1>4, <1>9 DEF IInv, ContentHeld
  <2>2. \A m \in mirror' : log'[m].seq <= flushed' => m \in rows' \cup unsaved' \cup discarded'
    BY <1>1, <1>2 DEF IInv, ContentHeld
  <2>3. CounterLost' = CounterLost
    BY <1>2 DEF CounterLost
  <2>4. ~CounterLost' =>
          \A m \in mirror' : log'[m].seq <= anchor' => m \in rows' \cup unsaved' \cup discarded'
    BY <1>1, <1>2, <1>10, <2>3 DEF IInv, ContentHeld
  <2>. QED BY <2>1, <2>2, <2>4 DEF ContentHeld
<1>12. CallContent'
  BY <1>1, <1>2 DEF IInv, CallContent
<1>. QED
  BY <1>12, <1>6, <1>7, <1>8, <1>11 DEF IInv, CounterInv

\* An entry leaves the ring by age or size, which the invariant does not ask
\* about.
LEMMA ExpireStep == IInv /\ Expire => IInv'
<1> SUFFICES ASSUME IInv, Expire PROVE IInv'
  OBVIOUS
<1>1. /\ UNCHANGED quiet
      /\ UNCHANGED <<anchor, rows, turn, awaiting, row, mirror, streamed, flushed, batch,
                     arriving, unsaved, discarded>>
  BY DEF Expire, quiet, turnVars, callVars
<1>2. ringLo' \in 1..(Len(log) + 1)
  <2>1. ringLo \in 1..(Len(log) + 1) /\ Len(log) \in Nat
    BY Numbers DEF IInv, TypeOK
  <2>. QED BY <2>1 DEF Expire
<1>3. /\ CounterInv' /\ AnchorBehind'
      /\ anchor' \in Nat /\ streamed' \in Nat /\ flushed' \in Nat
  <2>1. 0 \in Nat /\ 0 < nextSeq
    BY Numbers DEF IInv
  <2>. QED BY <1>1, <2>1, QuietKeepsAnchor
<1>4. TypeOK'
  <2>1. /\ turn' \in Turns
        /\ rows' \subseteq Events /\ mirror' \subseteq Events /\ unsaved' \subseteq Events
        /\ awaiting' \in BOOLEAN /\ row' \subseteq Events /\ discarded' \subseteq Events
        /\ batch' \subseteq Events /\ arriving' \subseteq batch'
    BY <1>1 DEF IInv, TypeOK
  <2>. QED BY <1>1, <1>2, <1>3, <2>1, QuietKeepsType
<1>5. TurnContent' /\ CallContent'
  BY <1>1 DEF IInv, TurnContent, CallContent, quiet
<1>6. Content' = Content /\ CounterLost' = CounterLost /\ log' = log
  BY <1>1 DEF quiet, Content, Events, CounterLost
<1>7. ContentHeld'
  BY <1>1, <1>6 DEF IInv, ContentHeld
<1>. QED
  BY <1>3, <1>4, <1>5, <1>7 DEF IInv, CounterInv

\* The row of a call that never completed holds mirrored text only.
LEMMA AbandonedText ==
  ASSUME IInv, NEW gone \in Writes(Abandoned) PROVE gone \subseteq mirror
  BY DEF Writes, Abandoned, IInv, CallContent

\* handleLlmCallStarted up to its await: what goes with the deleted row is
\* discarded, and stays mirrored until the next row is there.
LEMMA LlmCallStartedStep == IInv /\ LlmCallStarted => IInv'
<1> SUFFICES ASSUME IInv, LlmCallStarted PROVE IInv'
  OBVIOUS
<1>1. PICK gone \in Writes(Abandoned) : rows' = rows \ gone /\ discarded' = discarded \cup gone
  BY DEF LlmCallStarted
<1>2. gone \subseteq mirror
  BY AbandonedText
<1>3. /\ UNCHANGED quiet
      /\ UNCHANGED <<anchor, awaiting, row, mirror, streamed, flushed, batch, arriving,
                     unsaved, ringLo>>
      /\ turn # "idle" /\ turn' = "reserving"
  BY DEF LlmCallStarted, quiet, processVars, callVars
<1>4. /\ CounterInv' /\ AnchorBehind'
      /\ anchor' \in Nat /\ streamed' \in Nat /\ flushed' \in Nat
  <2>1. 0 \in Nat /\ 0 < nextSeq
    BY Numbers DEF IInv
  <2>. QED BY <1>3, <2>1, QuietKeepsAnchor
<1>5. TypeOK'
  <2>1. /\ turn' \in Turns /\ ringLo' \in 1..(Len(log) + 1)
        /\ rows' \subseteq Events /\ mirror' \subseteq Events /\ unsaved' \subseteq Events
        /\ awaiting' \in BOOLEAN /\ row' \subseteq Events /\ discarded' \subseteq Events
        /\ batch' \subseteq Events /\ arriving' \subseteq batch'
    BY <1>1, <1>2, <1>3 DEF IInv, TypeOK, Turns
  <2>. QED BY <1>3, <1>4, <2>1, QuietKeepsType
<1>6. TurnContent'
  BY <1>3 DEF IInv, TurnContent, quiet
<1>7. CallContent'
  BY <1>1, <1>2, <1>3 DEF IInv, CallContent, quiet
<1>8. Content' = Content /\ CounterLost' = CounterLost /\ log' = log
  BY <1>3 DEF quiet, Content, Events, CounterLost
<1>9. rows \cup discarded \subseteq rows' \cup discarded'
  BY <1>1
<1>10. ContentHeld'
  BY <1>3, <1>8, <1>9 DEF IInv, ContentHeld
<1>. QED
  BY <1>4, <1>5, <1>6, <1>7, <1>10 DEF IInv, CounterInv

\* handleLlmCallStarted after its await: nothing is mirrored for the new row,
\* and what was still mirrored is in the rows or discarded.
LEMMA RowReservedStep == IInv /\ RowReserved => IInv'
<1> SUFFICES ASSUME IInv, RowReserved PROVE IInv'
  OBVIOUS
<1>1. /\ UNCHANGED quiet
      /\ UNCHANGED <<anchor, rows, flushed, batch, arriving, unsaved, ringLo>>
      /\ turn' = "streaming" /\ awaiting' = TRUE /\ row' = {}
      /\ mirror' = {} /\ streamed' = 0
      /\ discarded' = discarded \cup (mirror \ rows)
  BY DEF RowReserved, quiet, processVars
<1>2. /\ CounterInv' /\ AnchorBehind'
      /\ anchor' \in Nat /\ streamed' \in Nat /\ flushed' \in Nat
  <2>1. 0 \in Nat /\ 0 < nextSeq
    BY Numbers DEF IInv
  <2>. QED BY <1>1, <2>1, QuietKeepsAnchor
<1>3. TypeOK'
  <2>1. /\ turn' \in Turns /\ ringLo' \in 1..(Len(log) + 1)
        /\ rows' \subseteq Events /\ mirror' \subseteq Events /\ unsaved' \subseteq Events
        /\ awaiting' \in BOOLEAN /\ row' \subseteq Events /\ discarded' \subseteq Events
        /\ batch' \subseteq Events /\ arriving' \subseteq batch'
    BY <1>1 DEF IInv, TypeOK, Turns
  <2>. QED BY <1>1, <1>2, <2>1, QuietKeepsType
<1>4. TurnContent' /\ CallContent'
  BY <1>1 DEF IInv, TurnContent, CallContent, quiet
<1>5. Content' = Content
  BY <1>1 DEF quiet, Content, Events
<1>6. ContentHeld'
  BY <1>1, <1>5 DEF IInv, ContentHeld
<1>. QED
  BY <1>2, <1>3, <1>4, <1>6 DEF IInv, CounterInv

\* releaseTurn follows the settling of the batch and of the pending flush.
LEMMA EndTurnStep == IInv /\ EndTurn => IInv'
<1> SUFFICES ASSUME IInv, EndTurn PROVE IInv'
  OBVIOUS
<1>1. PICK results \in Writes(batch), content \in Writes(mirror) :
        /\ Saved(results \cup (content \ discarded),
                 (batch \ results) \cup (mirror \ content))
        /\ IF content = {} THEN UNCHANGED anchor ELSE RecordSeq(streamed)
  BY DEF EndTurn
<1>2. results \subseteq batch /\ content \subseteq mirror
  BY DEF Writes
<1>3. /\ rows \cup unsaved \subseteq rows' \cup unsaved'
      /\ mirror \cup batch \subseteq rows' \cup unsaved' \cup discarded
      /\ rows' \cap discarded \subseteq rows \cup batch
      /\ rows' \subseteq rows \cup mirror \cup batch
      /\ unsaved' \subseteq unsaved \cup mirror \cup batch
      /\ faults' = faults
  <2>1. rows' = rows \cup results \cup (content \ discarded)
    BY <1>1 DEF Saved
  <2>. QED BY <1>1, <1>2, <2>1, SavedEffect
<1>4. /\ UNCHANGED quiet /\ mirror' = {} /\ streamed' = 0 /\ flushed' = 0 /\ batch' = {}
      /\ arriving = {} /\ arriving' = {} /\ ringLo' = ringLo /\ turn' = "idle"
      /\ awaiting' = FALSE /\ row' = {} /\ discarded' = discarded
  BY <1>3 DEF EndTurn, TurnReleased, ResultsSettled, quiet, processVars
<1>5. anchor' \in {anchor, streamed}
  BY <1>1, RecordEffect
<1>6. streamed \in Nat /\ streamed < nextSeq
  BY Numbers DEF IInv, AnchorBehind
<1>7. /\ CounterInv' /\ AnchorBehind'
      /\ anchor' \in Nat /\ streamed' \in Nat /\ flushed' \in Nat
  BY <1>4, <1>5, <1>6, QuietKeepsAnchor
<1>8. TypeOK'
  BY <1>3, <1>4, <1>7, QuietKeepsType DEF IInv, TypeOK, Turns
<1>9. TurnContent'
  BY <1>4 DEF TurnContent
<1>10. Content' = Content
  BY <1>4 DEF quiet, Content, Events
<1>11. ContentHeld'
  BY <1>3, <1>4, <1>10 DEF IInv, ContentHeld
<1>12. CallContent'
  BY <1>3, <1>4 DEF IInv, CallContent, quiet
<1>. QED
  BY <1>12, <1>7, <1>8, <1>9, <1>11 DEF IInv, CounterInv

\* The provider-error path: the batch is settled as in EndTurn, and every
\* mirrored delta stays in a leaked row or is discarded.
LEMMA FailTurnStep == IInv /\ FailTurn => IInv'
<1> SUFFICES ASSUME IInv, FailTurn PROVE IInv'
  OBVIOUS
<1>1. PICK results \in Writes(batch), gone \in Writes(Abandoned) :
        /\ rows' = (rows \cup results) \ gone
        /\ unsaved' = (unsaved \ results) \cup ((batch \ results) \ rows)
        /\ discarded' = discarded \cup gone \cup (mirror \ rows)
  BY DEF FailTurn
<1>2. gone \subseteq mirror /\ results \subseteq batch
  BY AbandonedText DEF Writes
<1>3. mirror \cap batch = {}
  BY DEF IInv, CallContent
<1>4. /\ rows \cup unsaved \cup discarded \subseteq rows' \cup unsaved' \cup discarded'
      /\ mirror \cup batch \subseteq rows' \cup unsaved' \cup discarded'
      /\ rows' \subseteq rows \cup batch /\ unsaved' \subseteq unsaved \cup batch
      /\ discarded' \subseteq discarded \cup mirror
  BY <1>1, <1>2, <1>3
<1>5. /\ UNCHANGED quiet /\ mirror' = {} /\ streamed' = 0 /\ flushed' = 0 /\ batch' = {}
      /\ arriving = {} /\ arriving' = {} /\ ringLo' = ringLo /\ turn' = "idle"
      /\ awaiting' = FALSE /\ row' = {} /\ anchor' = anchor
  BY DEF FailTurn, TurnReleased, ResultsSettled, quiet, processVars
<1>6. /\ CounterInv' /\ AnchorBehind'
      /\ anchor' \in Nat /\ streamed' \in Nat /\ flushed' \in Nat
  <2>1. 0 \in Nat /\ 0 < nextSeq
    BY Numbers DEF IInv
  <2>. QED BY <1>5, <2>1, QuietKeepsAnchor
<1>7. TypeOK'
  <2>1. /\ turn' \in Turns /\ ringLo' \in 1..(Len(log) + 1)
        /\ rows' \subseteq Events /\ mirror' \subseteq Events /\ unsaved' \subseteq Events
        /\ awaiting' \in BOOLEAN /\ row' \subseteq Events /\ discarded' \subseteq Events
        /\ batch' \subseteq Events /\ arriving' \subseteq batch'
    BY <1>4, <1>5 DEF IInv, TypeOK, Turns
  <2>. QED BY <1>5, <1>6, <2>1, QuietKeepsType
<1>8. TurnContent'
  BY <1>5 DEF TurnContent
<1>9. CallContent'
  <2>1. \A i \in discarded' : log[i].kind = "delta" /\ i \notin rows'
    <3> SUFFICES ASSUME NEW i \in discarded' PROVE log[i].kind = "delta" /\ i \notin rows'
      OBVIOUS
    <3>1. log[i].kind = "delta" /\ i \notin batch
      BY <1>4 DEF IInv, CallContent
    <3>2. i \in gone \/ i \notin rows
      BY <1>1 DEF IInv, CallContent
    <3>. QED BY <1>1, <1>2, <3>1, <3>2
  <2>. QED BY <1>5, <2>1 DEF CallContent, quiet
<1>10. Content' = Content
  BY <1>5 DEF quiet, Content, Events
<1>11. ContentHeld'
  BY <1>4, <1>5, <1>10 DEF IInv, ContentHeld
<1>. QED
  BY <1>6, <1>7, <1>8, <1>9, <1>11 DEF IInv, CounterInv

\* handleNotifyConversationPersisted: an idle conversation mirrors nothing, and
\* a streaming one hands off only what it has flushed.
LEMMA WorkerPersistedStep == IInv /\ WorkerPersisted => IInv'
<1> SUFFICES ASSUME IInv, WorkerPersisted PROVE IInv'
  OBVIOUS
<1>1. /\ UNCHANGED quiet
      /\ UNCHANGED <<turn, rows, mirror, streamed, flushed, batch, arriving, unsaved, ringLo,
                     awaiting, row, discarded>>
      /\ anchor' \in {anchor, HandoffSeq}
  BY RecordEffect DEF WorkerPersisted, quiet, processVars, turnVars, callVars
<1>2. /\ HandoffSeq \in Nat /\ HandoffSeq < nextSeq
      /\ turn # "idle" => HandoffSeq = flushed
  BY Numbers DEF IInv, AnchorBehind, HandoffSeq, CurrentSeq
<1>3. /\ CounterInv' /\ AnchorBehind'
      /\ anchor' \in Nat /\ streamed' \in Nat /\ flushed' \in Nat
  BY <1>1, <1>2, QuietKeepsAnchor
<1>4. TypeOK'
  <2>1. /\ ringLo' \in 1..(Len(log) + 1) /\ turn' \in Turns
        /\ rows' \subseteq Events /\ mirror' \subseteq Events /\ unsaved' \subseteq Events
        /\ batch' \subseteq Events /\ arriving' \subseteq batch'
        /\ awaiting' \in BOOLEAN /\ row' \subseteq Events /\ discarded' \subseteq Events
    BY <1>1 DEF IInv, TypeOK
  <2>. QED BY <1>1, <1>3, <2>1, QuietKeepsType
<1>5. TurnContent'
  BY <1>1 DEF IInv, TurnContent, quiet
<1>6. /\ Content' = Content /\ CounterLost' = CounterLost /\ log' = log
      /\ turn = "idle" => mirror = {}
  BY <1>1 DEF quiet, Content, Events, CounterLost, IInv, TurnContent
<1>7. ContentHeld'
  BY <1>1, <1>2, <1>6 DEF IInv, ContentHeld
<1>8. CallContent'
  BY <1>1 DEF IInv, CallContent, quiet
<1>. QED
  BY <1>8, <1>3, <1>4, <1>5, <1>7 DEF IInv, CounterInv

-----------------------------------------------------------------------------
(* A restart.                                                              *)

\* What the new process resumes with: a counter above the file it found and,
\* when the column was readable, above the anchor.
Resumed(next, readable) ==
  /\ nextSeq' = next
  /\ disk + 1 <= next
  /\ readable => anchor < next
  /\ ceiling' \in Nat /\ disk' \in Nat /\ disk <= disk'
  /\ ReservedAhead'
  /\ faults \subseteq faults' /\ faults' \subseteq faults \cup {"floor", "reservation"}
  /\ ~readable => "floor" \in faults'

\* loadSeqReservation, floorSeqAbove and the reservation it may make.
LEMMA RestartResumes ==
  ASSUME IInv, Restart
  PROVE  \E next \in Nat, readable \in BOOLEAN : Resumed(next, readable)
<1> DEFINE loaded == LoadedNext(disk)
           floor(r) == IF r THEN Floored(loaded) ELSE loaded
           reserves(r) == floor(r) > loaded
           next(r) == IF reserves(r) THEN ReservedNext(floor(r), disk, disk) ELSE floor(r)
<1>1. PICK readable \in BOOLEAN, ok \in BOOLEAN :
        /\ nextSeq' = next(readable)
        /\ ceiling' = IF reserves(readable) THEN next(readable) + Block - 1 ELSE disk
        /\ disk' = IF reserves(readable) /\ ok THEN next(readable) + Block - 1 ELSE disk
        /\ faults' = faults \cup (IF readable THEN {} ELSE {"floor"})
                            \cup (IF ok THEN {} ELSE {"reservation"})
  <2>1. Outcomes("floor") \subseteq BOOLEAN /\ Outcomes("reservation") \subseteq BOOLEAN
    BY DEF Outcomes
  <2>. QED BY <2>1, Zenon DEF Restart
<1>2. disk \in Nat /\ anchor \in Nat
  BY Numbers DEF IInv
<1>3. loaded = disk + 1 /\ loaded \in Nat
  BY <1>2 DEF LoadedNext
<1>4. floor(readable) \in Nat /\ floor(readable) >= loaded /\ (readable => floor(readable) > anchor)
  BY <1>2, <1>3 DEF Floored
<1>5. /\ next(readable) \in Nat /\ next(readable) >= floor(readable)
      /\ ~reserves(readable) => next(readable) = disk + 1
  <2>1. /\ ReservedNext(floor(readable), disk, disk) \in Nat
        /\ ReservedNext(floor(readable), disk, disk) >= floor(readable)
    <3> HIDE DEF floor
    <3>. QED BY <1>2, <1>4, ReservedNextAhead
  <2>2. CASE reserves(readable)
    <3> HIDE DEF floor
    <3>. QED BY <2>1, <2>2
  <2>3. CASE ~reserves(readable)
    <3> HIDE DEF floor, loaded
    <3>. QED BY <1>2, <1>3, <1>4, <2>3
  <2>. QED BY <2>2, <2>3
<1> DEFINE n == next(readable)
           top == n + Block - 1
<1>6. n \in Nat /\ disk + 1 <= n /\ (readable => anchor < n)
  BY <1>2, <1>3, <1>4, <1>5
<1>7. top \in Nat /\ n <= top
  BY <1>6, StreamAssumption
<1>8. ~reserves(readable) => n = disk + 1
  BY <1>5
<1>9. /\ nextSeq' = n
      /\ ceiling' = IF reserves(readable) THEN top ELSE disk
      /\ disk' = IF reserves(readable) /\ ok THEN top ELSE disk
  BY <1>1
<1> HIDE DEF n, top, next, reserves, floor, loaded
<1>10. ceiling' \in Nat /\ disk' \in Nat /\ disk <= disk'
  BY <1>2, <1>6, <1>7, <1>9
<1>11. /\ faults \subseteq faults' /\ faults' \subseteq faults \cup {"floor", "reservation"}
       /\ ~readable => "floor" \in faults'
       /\ "reservation" \notin faults' => ok
  BY <1>1
<1>12. ReservedAhead'
  <2>1. nextSeq' <= ceiling' + 1
    BY <1>2, <1>6, <1>7, <1>8, <1>9
  <2>2. "reservation" \notin faults' => ceiling' <= disk'
    BY <1>2, <1>7, <1>9, <1>11
  <2>. QED BY <2>1, <2>2 DEF ReservedAhead
<1>13. Resumed(n, readable)
  BY <1>6, <1>9, <1>10, <1>11, <1>12 DEF Resumed
<1>. QED
  BY <1>6, <1>13

\* The new process has stamped nothing, so the counter has nothing of its own
\* to be above; what the old one mirrored and buffered is unsaved.
LEMMA RestartStep == IInv /\ Restart => IInv'
<1> SUFFICES ASSUME IInv, Restart PROVE IInv'
  OBVIOUS
<1>1. PICK next \in Nat, readable \in BOOLEAN : Resumed(next, readable)
  BY RestartResumes
<1>2. /\ boot < MaxBoots /\ boot' = boot + 1 /\ first' = 0 /\ ringLo' = Len(log) + 1
      /\ unsaved' = unsaved \cup ((mirror \cup batch) \ rows)
      /\ turn' = "idle" /\ mirror' = {} /\ batch' = {} /\ arriving' = {}
      /\ streamed' = 0 /\ flushed' = 0 /\ awaiting' = FALSE /\ row' = {}
      /\ UNCHANGED <<log, anchor, rows, discarded>>
  BY DEF Restart, TurnReleased
<1>3. /\ Len(log) \in Nat /\ disk \in Nat /\ anchor \in Nat /\ boot \in Nat
      /\ MaxBoots \in Nat /\ boot >= 1
      /\ \A i \in Events : log[i].seq \in Nat /\ log[i].boot \in Nat
  BY Numbers, StreamAssumption DEF IInv, TypeOK
<1>4. PICK d \in Nat : disk' = d /\ disk <= d
  BY <1>1 DEF Resumed
<1>5. nextSeq' = next /\ disk + 1 <= next /\ (readable => anchor < next)
  BY <1>1 DEF Resumed
<1>6. TypeOK'
  <2>1. /\ boot' \in 1..MaxBoots /\ ringLo' \in 1..(Len(log') + 1)
        /\ nextSeq' \in Nat \ {0} /\ first' \in Nat
    BY <1>2, <1>3, <1>5
  <2>2. ceiling' \in Nat /\ disk' \in Nat /\ faults' \subseteq {"reservation", "floor"}
    BY <1>1 DEF Resumed, IInv, TypeOK
  <2>3. unsaved' \subseteq Events' /\ rows' \subseteq Events' /\ discarded' \subseteq Events'
    BY <1>2 DEF IInv, TypeOK, Events
  <2>. QED BY <1>2, <2>1, <2>2, <2>3 DEF IInv, TypeOK, Turns
<1>7. Events' = Events /\ Content' = Content
  BY <1>2 DEF Events, Content
<1>8. CounterInv'
  <2>1. CoveredBehind'
    <3> SUFFICES ASSUME NEW i \in Events, log[i].covered
                 PROVE  log[i].seq <= disk' /\ log[i].seq < nextSeq'
      BY <1>2, <1>7 DEF CoveredBehind
    <3>1. log[i].seq <= disk
      BY DEF IInv, CoveredBehind
    <3>. QED BY <1>3, <1>4, <1>5, <3>1
  <2>2. \A i \in Events : log[i].boot < boot + 1
    BY <1>3 DEF IInv, ProcessInOrder
  <2>3. ProcessInOrder'
    <3>1. first' < nextSeq'
      BY <1>2, <1>3, <1>5
    <3>2. \A i \in Events : log[i].boot <= boot' /\ log[i].boot # boot'
      BY <1>2, <1>3, <2>2
    <3>. QED BY <1>2, <1>7, <3>1, <3>2 DEF ProcessInOrder
  <2>4. OnlyUncoveredReissued'
    BY <1>2, <1>7 DEF IInv, OnlyUncoveredReissued
  <2>. QED BY <1>1, <2>1, <2>3, <2>4 DEF CounterInv, Resumed
<1>9. AnchorBehind'
  <2>1. /\ faults \subseteq faults' /\ (~readable => "floor" \in faults')
    BY <1>1 DEF Resumed
  <2>2. "reservation" \notin faults' => anchor <= disk
    BY <2>1 DEF IInv, AnchorBehind
  <2>3. "reservation" \notin faults' => anchor' <= disk'
    BY <1>2, <1>3, <1>4, <2>2
  <2>4. ~CounterLost' => anchor' < nextSeq'
    <3>1. ~CounterLost' => readable \/ "reservation" \notin faults'
      BY <2>1 DEF CounterLost
    <3>. QED BY <1>2, <1>3, <1>5, <2>2, <3>1
  <2>5. streamed' < nextSeq' /\ flushed' < nextSeq'
    BY <1>2, <1>3, <1>5
  <2>. QED BY <2>3, <2>4, <2>5 DEF AnchorBehind
<1>10. TurnContent'
  BY <1>2 DEF TurnContent
<1>11. ContentHeld'
  BY <1>2, <1>7 DEF IInv, ContentHeld, TypeOK
<1>12. CallContent'
  BY <1>2 DEF IInv, CallContent
<1>. QED
  BY <1>12, <1>6, <1>8, <1>9, <1>10, <1>11 DEF IInv, CounterInv

-----------------------------------------------------------------------------
(* The theorems.                                                           *)

\* Every step of the stream preserves the invariant.
LEMMA NextStream == IInv /\ [Next]_vars => IInv'
<1>1. CASE UNCHANGED vars
  BY <1>1 DEF vars, processVars, turnVars, callVars, CallContent, IInv, TypeOK, ReservedAhead, CoveredBehind,
              ProcessInOrder, AnchorBehind, TurnContent, ContentHeld,
              OnlyUncoveredReissued, CounterLost, Content, Events
<1>. QED
  BY <1>1, UserEchoStep, DeltaStep, FlushStep, MessageCompleteStep, ToolStartStep,
     ToolResultStep, ResultWriteStep, LlmCallStartedStep, RowReservedStep, ExpireStep,
     EndTurnStep, FailTurnStep,
     WorkerPersistedStep, OtherEventStep, RestartStep
  DEF Next

\* The stream's state has its types, however long the daemon runs.
THEOREM StreamTypes == Spec => []TypeOK
<1>1. IInv => TypeOK
  BY DEF IInv
<1>. QED
  BY InitStream, NextStream, <1>1, PTL DEF Spec

\* reserveSeqCapacity and loadSeqReservation: only a seq above the ceiling on
\* disk at its time is ever issued again, for every block size, every failure
\* of the reservation file and any number of deaths of the daemon.
THEOREM StreamReissue == Spec => []OnlyUncoveredReissued
<1>1. IInv => OnlyUncoveredReissued
  BY DEF IInv
<1>. QED
  BY InitStream, NextStream, <1>1, PTL DEF Spec

\* The anchor claims only what the rows hold, however flushes, finalizations,
\* retried calls, tool results, worker hand-offs and deaths interleave; what an
\* abandoned call takes with its row is streamed text and nothing else.
THEOREM StreamAnchorHonest == Spec => []AnchorHonest
<1>1. IInv => AnchorHonest
  <2> SUFFICES ASSUME IInv, ~CounterLost, NEW i \in Content, log[i].seq <= anchor
               PROVE  i \in rows \cup unsaved \cup arriving \cup discarded
    BY DEF AnchorHonest, IInv, CallContent
  <2>. QED BY DEF IInv, ContentHeld
<1>. QED
  BY InitStream, NextStream, <1>1, PTL DEF Spec

\* getReplayWindow: what it serves lacks no event of this process above the
\* cursor, whatever the ring evicted and whichever process the cursor is from.
THEOREM StreamReplay == Spec => []ReplayHasNoHole
<1>1. IInv => ReplayHasNoHole
  <2> SUFFICES ASSUME IInv, Ring # {}, NEW cursor \in 0..CurrentSeq, WindowServed(cursor),
                      NEW i \in Events, log[i].boot = boot, log[i].seq > cursor
               PROVE  i \in Window(cursor)
    BY DEF ReplayHasNoHole
  <2>1. /\ Len(log) \in Nat /\ ringLo \in Nat /\ ringLo >= 1 /\ Events = 1..Len(log)
        /\ nextSeq \in Nat /\ nextSeq >= 1 /\ first \in Nat
        /\ \A k \in Events : log[k].seq \in Nat
    BY Numbers DEF IInv, TypeOK
  <2>2. ringLo \in Events /\ cursor \in Nat
    BY <2>1 DEF Ring, CurrentSeq
  <2>3. ASSUME i < ringLo PROVE FALSE
    <3>1. first <= log[i].seq /\ log[i].seq < log[ringLo].seq
      BY <2>2, <2>3 DEF IInv, ProcessInOrder
    <3>2. cursor + 1 >= log[ringLo].seq \/ log[ringLo].seq = first
      BY DEF WindowServed, CoversRestartGap
    <3>. QED BY <2>1, <2>2, <3>1, <3>2
  <2>. QED BY <2>1, <2>3 DEF Window, Ring
<1>. QED
  BY InitStream, NextStream, <1>1, PTL DEF Spec

\* floorSeqAbove: every stamp lies above the anchor unless both safeguards of
\* the counter have failed.
THEOREM StreamStampsAbove == Spec => StampsAboveAnchors
<1> DEFINE Above == Len(log') > Len(log) /\ ~CounterLost => log'[Len(log')].seq > anchor
<1>1. ASSUME IInv, NEW kind, NEW seq \in Nat, StampedAs(kind, seq) PROVE Above
  <2>1. /\ log'[Len(log')].seq = seq /\ nextSeq <= seq
        /\ nextSeq \in Nat /\ anchor \in Nat /\ (~CounterLost => anchor < nextSeq)
    BY <1>1, Numbers DEF IInv, StampedAs, AnchorBehind
  <2>. QED BY <2>1
<1>2. ASSUME IInv, log' = log PROVE Above
  <2>1. Len(log) \in Nat
    BY <1>2, Numbers DEF IInv
  <2>. QED BY <1>2, <2>1
<1>3. IInv /\ [Next]_vars => Above
  <2> SUFFICES ASSUME IInv, [Next]_vars PROVE Above
    OBVIOUS
  <2> HIDE DEF Above
  <2>1. \/ log' = log
        \/ \E kind : \E ok \in Outcomes("reservation") : Stamp(kind, ok)
    BY DEF Next, UserEcho, Delta, Flush, MessageComplete, ToolStart, ToolResult,
           ResultWrite, LlmCallStarted, RowReserved, EndTurn, FailTurn, WorkerPersisted, OtherEvent, Expire, Restart, vars
  <2>. QED BY <1>1, <1>2, <2>1, StampOf
<1>4. IInv /\ [Next]_vars => [Above]_vars
  BY <1>3
<1>. QED
  BY InitStream, NextStream, <1>4, PTL DEF Spec, StampsAboveAnchors
=============================================================================
