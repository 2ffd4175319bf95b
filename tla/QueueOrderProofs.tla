------------------------- MODULE QueueOrderProofs -------------------------
(***************************************************************************)
(* The order of the queue, its byte count, and who drains it, for every    *)
(* set of messages, senders and chains.                                    *)
(*                                                                         *)
(* A step does one of a few things to the line of a chain and the queue    *)
(* (LineMove): it pushes, takes a run off the head, puts one back in       *)
(* front, clears, removes one message, or steers.  The byte count and the  *)
(* order follow from these; what is put back still comes before what is    *)
(* queued, since one chain at most has a line to put back (InLine).        *)
(*                                                                         *)
(* That nothing is stranded follows from the flag: its holder is a chain   *)
(* at work that kicks a drain in the end (FlagInv), so that a drain that   *)
(* finds the flag held may give up.                                        *)
(*                                                                         *)
(* A fact about all sequences is proved by a least counterexample: the     *)
(* shortest prefix for which it fails.                                     *)
(***************************************************************************)
EXTENDS ConversationQueueProofs, FiniteSetTheorems

----------------------------------------------------------------------------
(* The bytes of a sequence.                                                *)

\* f counts the bytes of the first items of s, up to the n-th.
Counts(f, s, n) ==
  /\ f \in [0..n -> Nat] /\ f[0] = 0
  /\ \A i \in 1..n : f[i] = f[i - 1] + Size[s[i]]

\* The size of each item is a number (estimateItemBytes).
LEMMA SizeOfItem ==
  ASSUME NEW s \in Seq(Msgs)
  PROVE  Len(s) \in Nat /\ \A i \in 1 .. Len(s) : s[i] \in Msgs /\ Size[s[i]] \in Nat
BY LenProperties, ElementOfSeq, QueueAssumption

\* The items of a sequence can be counted: a first prefix that cannot be
\* would be one item longer than one that can.
LEMMA CountExists ==
  ASSUME NEW s \in Seq(Msgs)
  PROVE  \E f : Counts(f, s, Len(s))
<1> DEFINE T == {k \in 0 .. Len(s) : ~ \E f : Counts(f, s, k)}
<1>1. Len(s) \in Nat /\ \A i \in 1 .. Len(s) : Size[s[i]] \in Nat
  BY SizeOfItem
<1> SUFFICES ASSUME T # {} PROVE FALSE
  BY <1>1
<1>2. T \subseteq Nat
  BY <1>1
<1>3. PICK k \in T : \A y \in T : k <= y
  BY <1>2, LeastElement
<1>4. k # 0
  <2>1. Counts([i \in 0..0 |-> 0], s, 0)
    BY DEF Counts
  <2> QED BY <1>3, <2>1
<1>5. k \in Nat /\ k - 1 \in 0 .. Len(s) /\ k \in 1 .. Len(s) /\ k - 1 \notin T
  BY <1>1, <1>3, <1>4
<1>6. PICK f : Counts(f, s, k - 1)
  BY <1>5
<1> DEFINE g == [i \in 0..k |-> IF i < k THEN f[i] ELSE f[k - 1] + Size[s[k]]]
<1>7. /\ f \in [0 .. k - 1 -> Nat] /\ f[0] = 0
      /\ \A i \in 1 .. k - 1 : f[i] = f[i - 1] + Size[s[i]]
  BY <1>6 DEF Counts
<1>8. f[k - 1] \in Nat /\ Size[s[k]] \in Nat
  BY <1>1, <1>5, <1>7
<1>9. g \in [0..k -> Nat] /\ g[0] = 0
  BY <1>5, <1>7, <1>8
<1>10. ASSUME NEW i \in 1..k PROVE g[i] = g[i - 1] + Size[s[i]]
  BY <1>5, <1>7
<1>11. Counts(g, s, k)
  BY <1>9, <1>10 DEF Counts
<1> QED BY <1>3, <1>11

\* BytesOf is the last of the counts: the recursive function that it is
\* defined by agrees with any function of counts, at each item in turn.
LEMMA BytesCounted ==
  ASSUME NEW s \in Seq(Msgs), NEW f, Counts(f, s, Len(s))
  PROVE  BytesOf(s) = f[Len(s)] /\ BytesOf(s) \in Nat
<1> DEFINE n == Len(s)
           R(g) == g = [i \in 0..n |-> IF i = 0 THEN 0 ELSE g[i - 1] + Size[s[i]]]
           u == CHOOSE g : R(g)
<1>1. n \in Nat
  BY SizeOfItem
<1>2. /\ f \in [0..n -> Nat] /\ f[0] = 0
      /\ \A i \in 1..n : f[i] = f[i - 1] + Size[s[i]]
  BY DEF Counts
<1>3. R(f)
  <2> HIDE DEF n
  <2> QED BY <1>1, <1>2
<1>4. R(u)
  BY <1>3
<1>5. BytesOf(s) = u[n]
  BY DEF BytesOf
<1> HIDE DEF u, n
<1> DEFINE T == {k \in 0..n : u[k] # f[k]}
<1>6. ASSUME T # {} PROVE FALSE
  <2>1. T \subseteq Nat
    BY <1>1
  <2>2. PICK k \in T : \A y \in T : k <= y
    BY <1>6, <2>1, LeastElement
  <2>3. k # 0
    BY <1>1, <1>2, <1>4, <2>2
  <2>4. k \in 1..n /\ k - 1 \in 0..n /\ k - 1 \notin T
    BY <1>1, <2>2, <2>3
  <2>5. u[k - 1] = f[k - 1] /\ u[k] = u[k - 1] + Size[s[k]]
    BY <1>4, <2>4
  <2> QED BY <1>2, <2>2, <2>4, <2>5
<1>7. u[n] = f[n] /\ f[n] \in Nat
  BY <1>1, <1>2, <1>6
<1> QED BY <1>5, <1>7 DEF n

\* The bytes of a requeue are those of what is put back and of what is there.
LEMMA BytesOfConcat ==
  ASSUME NEW s \in Seq(Msgs), NEW t \in Seq(Msgs)
  PROVE  /\ BytesOf(s \o t) = BytesOf(s) + BytesOf(t)
         /\ BytesOf(s) \in Nat /\ BytesOf(t) \in Nat
<1> DEFINE k == Len(s)  l == Len(t)  u == s \o t
<1>1. k \in Nat /\ l \in Nat
  BY SizeOfItem
<1>2. /\ u \in Seq(Msgs) /\ Len(u) = k + l
      /\ \A i \in 1 .. k + l : u[i] = IF i <= k THEN s[i] ELSE t[i - k]
  BY ConcatProperties
<1>3. PICK f : Counts(f, s, k)
  BY CountExists
<1>4. PICK g : Counts(g, t, l)
  BY CountExists
<1>5. BytesOf(s) = f[k] /\ BytesOf(t) = g[l] /\ BytesOf(s) \in Nat /\ BytesOf(t) \in Nat
  BY <1>3, <1>4, BytesCounted
<1> DEFINE h == [i \in 0 .. k + l |-> IF i <= k THEN f[i] ELSE f[k] + g[i - k]]
<1>6. BytesOf(s \o t) = h[k + l]
  <2>1. /\ f \in [0..k -> Nat] /\ f[0] = 0
        /\ \A i \in 1..k : f[i] = f[i - 1] + Size[s[i]]
    BY <1>3 DEF Counts
  <2>2. /\ g \in [0..l -> Nat] /\ g[0] = 0
        /\ \A i \in 1..l : g[i] = g[i - 1] + Size[t[i]]
    BY <1>4 DEF Counts
  <2>3. \A i \in 1..l : Size[t[i]] \in Nat
    BY SizeOfItem
  <2> HIDE DEF k, l, u
  <2>4. h \in [0 .. k + l -> Nat] /\ h[0] = 0
    <3>1. f[k] \in Nat
      BY <1>1, <2>1
    <3>2. \A i \in 0 .. k + l : i > k => i - k \in 0..l /\ g[i - k] \in Nat
      BY <1>1, <2>2
    <3>3. \A i \in 0 .. k + l : (IF i <= k THEN f[i] ELSE f[k] + g[i - k]) \in Nat
      BY <1>1, <2>1, <3>1, <3>2
    <3>4. h \in [0 .. k + l -> Nat]
      BY <3>3
    <3>5. 0 \in 0 .. k + l /\ 0 <= k
      BY <1>1
    <3>6. h[0] = 0
      BY <2>1, <3>5
    <3> QED BY <3>4, <3>6
  <2>5. ASSUME NEW i \in 1 .. k + l PROVE h[i] = h[i - 1] + Size[u[i]]
    <3>1. CASE i <= k
      <4>1. i \in 1..k /\ i - 1 <= k /\ u[i] = s[i] /\ i \in 0 .. k + l /\ i - 1 \in 0 .. k + l
        BY <1>1, <1>2, <3>1
      <4> QED BY <2>1, <3>1, <4>1
    <3>2. CASE i = k + 1
      <4>1. /\ i \in 0 .. k + l /\ i - 1 \in 0 .. k + l /\ ~(i <= k) /\ i - 1 = k
            /\ i - k = 1 /\ 1 \in 1..l /\ u[i] = t[1]
        BY <1>1, <1>2, <3>2
      <4>2. h[i] = f[k] + g[1] /\ h[i - 1] = f[k]
        BY <1>1, <4>1
      <4>3. g[1] = Size[t[1]]
        BY <2>2, <2>3, <4>1
      <4> HIDE DEF h
      <4> QED BY <4>1, <4>2, <4>3
    <3>3. CASE i > k + 1
      <4>1. /\ i \in 0 .. k + l /\ i - 1 \in 0 .. k + l /\ ~(i <= k) /\ ~(i - 1 <= k)
            /\ i - k \in 1..l /\ (i - k) - 1 = (i - 1) - k /\ (i - k) - 1 \in 0..l
            /\ u[i] = t[i - k]
        BY <1>1, <1>2, <3>3
      <4>2. h[i] = f[k] + g[i - k] /\ h[i - 1] = f[k] + g[(i - k) - 1]
        BY <4>1
      <4>3. g[i - k] = g[(i - k) - 1] + Size[t[i - k]]
        BY <2>2, <4>1
      <4>4. f[k] \in Nat /\ g[(i - k) - 1] \in Nat /\ Size[t[i - k]] \in Nat
        <5>1. f[k] \in Nat
          BY <1>1, <2>1
        <5>2. g[(i - k) - 1] \in Nat
          BY <2>2, <4>1
        <5> QED BY <2>3, <4>1, <5>1, <5>2
      <4> HIDE DEF h
      <4> QED BY <4>1, <4>2, <4>3, <4>4
    <3> QED BY <1>1, <3>1, <3>2, <3>3
  <2>6. Counts(h, u, k + l)
    BY <2>4, <2>5 DEF Counts
  <2> HIDE DEF h
  <2>7. Counts(h, u, Len(u))
    BY <1>2, <2>6
  <2>8. BytesOf(u) = h[Len(u)]
    <3>1. u \in Seq(Msgs)
      BY <1>2
    <3> QED BY <2>7, <3>1, BytesCounted
  <2> QED BY <1>2, <2>8 DEF u
<1>7. h[k + l] = f[k] + g[l]
  <2>1. g[0] = 0 /\ f[k] \in Nat
    BY <1>4, <1>5 DEF Counts
  <2> HIDE DEF k, l
  <2>2. CASE l = 0
    BY <1>1, <2>1, <2>2
  <2>3. CASE l # 0
    BY <1>1, <2>3
  <2> QED BY <2>2, <2>3
<1> HIDE DEF h, k, l
<1> QED BY <1>5, <1>6, <1>7

\* Nothing has no bytes, and a message its size.
LEMMA BytesOfShort ==
  /\ BytesOf(<<>>) = 0
  /\ \A m \in Msgs : BytesOf(<<m>>) = Size[m]
<1>1. BytesOf(<<>>) = 0
  <2>1. <<>> \in Seq(Msgs) /\ Len(<<>>) = 0
    OBVIOUS
  <2> DEFINE f == [i \in 0..0 |-> 0]
  <2>2. Counts(f, <<>>, 0) /\ f[0] = 0
    BY DEF Counts
  <2> HIDE DEF f
  <2>3. Counts(f, <<>>, Len(<<>>))
    BY <2>1, <2>2
  <2>4. BytesOf(<<>>) = f[Len(<<>>)]
    BY <2>1, <2>3, BytesCounted
  <2> QED BY <2>1, <2>2, <2>4
<1>2. ASSUME NEW m \in Msgs PROVE BytesOf(<<m>>) = Size[m]
  <2> DEFINE s == <<m>>  f == [i \in 0..1 |-> IF i = 0 THEN 0 ELSE Size[m]]
  <2>1. s \in Seq(Msgs) /\ Len(s) = 1 /\ s[1] = m
    OBVIOUS
  <2>2. Size[m] \in Nat
    BY QueueAssumption
  <2>3. f \in [0..1 -> Nat] /\ f[0] = 0 /\ f[1] = Size[m]
    BY <2>2
  <2> HIDE DEF s, f
  <2>4. \A i \in 1..1 : i = 1 /\ i - 1 = 0
    OBVIOUS
  <2>5. Counts(f, s, 1)
    BY <2>1, <2>2, <2>3, <2>4 DEF Counts
  <2>6. Counts(f, s, Len(s))
    BY <2>1, <2>5
  <2>7. BytesOf(s) = f[Len(s)]
    BY <2>1, <2>6, BytesCounted
  <2>8. BytesOf(s) = Size[m]
    BY <2>1, <2>3, <2>7
  <2> QED BY <2>8 DEF s
<1> QED BY <1>1, <1>2

\* A push (MessageQueue.push).
LEMMA BytesOfPush ==
  ASSUME NEW s \in Seq(Msgs), NEW m \in Msgs
  PROVE  BytesOf(Append(s, m)) = BytesOf(s) + Size[m]
<1>1. Append(s, m) = s \o <<m>> /\ <<m>> \in Seq(Msgs)
  OBVIOUS
<1>2. BytesOf(s \o <<m>>) = BytesOf(s) + BytesOf(<<m>>)
  BY <1>1, BytesOfConcat
<1> QED BY <1>1, <1>2, BytesOfShort

\* What a drain takes and what it leaves (shiftN).
LEMMA BytesOfSplit ==
  ASSUME NEW s \in Seq(Msgs), NEW n \in 0 .. Len(s)
  PROVE  /\ s = SubSeq(s, 1, n) \o SubSeq(s, n + 1, Len(s))
         /\ BytesOf(s) = BytesOf(SubSeq(s, 1, n)) + BytesOf(SubSeq(s, n + 1, Len(s)))
         /\ BytesOf(SubSeq(s, 1, n)) \in Nat
         /\ BytesOf(SubSeq(s, n + 1, Len(s))) \in Nat
<1> DEFINE a == SubSeq(s, 1, n)  b == SubSeq(s, n + 1, Len(s))
<1>1. /\ a \in Seq(Msgs) /\ b \in Seq(Msgs) /\ Len(a) = n /\ Len(b) = Len(s) - n
      /\ \A i \in 1..n : a[i] = s[i]
      /\ \A i \in 1 .. Len(s) - n : b[i] = s[n + i]
  BY SplitElements
<1>2. Len(s) \in Nat /\ n \in Nat /\ n <= Len(s)
  BY SizeOfItem
<1> HIDE DEF a, b
<1>3. s = a \o b
  <2>1. /\ a \o b \in Seq(Msgs) /\ Len(a \o b) = Len(a) + Len(b)
        /\ \A i \in 1 .. Len(a) + Len(b) :
             (a \o b)[i] = IF i <= Len(a) THEN a[i] ELSE b[i - Len(a)]
    BY <1>1, ConcatProperties
  <2>2. Len(a \o b) = Len(s)
    BY <1>1, <1>2, <2>1
  <2>3. ASSUME NEW i \in 1 .. Len(s) PROVE s[i] = (a \o b)[i]
    <3>1. CASE i <= n
      <4>1. i \in 1..n /\ i \in 1 .. Len(a) + Len(b) /\ i <= Len(a)
        BY <1>1, <1>2, <3>1
      <4> QED BY <1>1, <2>1, <4>1
    <3>2. CASE i > n
      <4>1. /\ i - n \in 1 .. Len(s) - n /\ n + (i - n) = i /\ ~(i <= Len(a))
            /\ i \in 1 .. Len(a) + Len(b) /\ Len(a) = n
        BY <1>1, <1>2, <3>2
      <4>2. (a \o b)[i] = b[i - Len(a)]
        BY <2>1, <4>1
      <4>3. b[i - n] = s[n + (i - n)]
        BY <1>1, <4>1
      <4> QED BY <4>1, <4>2, <4>3
    <3>3. i <= n \/ i > n
      BY <1>2
    <3> QED BY <3>1, <3>2, <3>3
  <2> QED BY <2>1, <2>2, <2>3, SeqEqual
<1>4. BytesOf(a \o b) = BytesOf(a) + BytesOf(b) /\ BytesOf(a) \in Nat /\ BytesOf(b) \in Nat
  BY <1>1, BytesOfConcat
<1>5. BytesOf(s) = BytesOf(a) + BytesOf(b)
  BY <1>3, <1>4
<1> QED BY <1>3, <1>4, <1>5 DEF a, b

\* A message taken out of the middle of the queue.
LEMMA QueueSpliced ==
  ASSUME queue \in Seq(Msgs), NEW m \in ToSet(queue)
  PROVE  \E a, b \in Seq(Msgs) :
           queue = a \o (<<m>> \o b) /\ Spliced(m) = a \o b
<1> DEFINE i == CHOOSE j \in DOMAIN queue : queue[j] = m
           p == i - 1
           a == SubSeq(queue, 1, p)  r == SubSeq(queue, p + 1, Len(queue))
           b == SubSeq(queue, i + 1, Len(queue))
<1>1. i \in DOMAIN queue /\ queue[i] = m
  BY DEF ToSet
<1>2. Len(queue) \in Nat /\ i \in 1 .. Len(queue)
  BY <1>1, LenProperties
<1>3. Spliced(m) = a \o b
  BY DEF Spliced, RemoveAt
<1> HIDE DEF i
<1>4. p \in 0 .. Len(queue) /\ p + 1 = i
  BY <1>2
<1> HIDE DEF p
<1>5. /\ a \in Seq(Msgs) /\ r \in Seq(Msgs) /\ Len(r) = Len(queue) - p
      /\ \A k \in 1 .. Len(queue) - p : r[k] = queue[p + k]
      /\ queue = a \o r
  <2>1. /\ a \in Seq(Msgs) /\ r \in Seq(Msgs) /\ Len(r) = Len(queue) - p
        /\ \A k \in 1 .. Len(queue) - p : r[k] = queue[p + k]
    BY <1>4, SplitElements
  <2>2. queue = a \o r
    BY <1>4, BytesOfSplit
  <2> QED BY <2>1, <2>2
<1>6. r # <<>> /\ r[1] = m
  <2> HIDE DEF r, a
  <2>1. 1 \in 1 .. Len(queue) - p /\ Len(r) # 0
    BY <1>2, <1>4, <1>5
  <2>2. r # <<>>
    BY <2>1
  <2> QED BY <1>1, <1>4, <1>5, <2>1, <2>2
<1>7. Head(r) = m /\ Tail(r) \in Seq(Msgs)
  <2> HIDE DEF r
  <2> QED BY <1>5, <1>6, TailElements
<1>8. Tail(r) = b
  <2>1. i \in 1 .. Len(queue) /\ Len(queue) \in i .. Len(queue)
    BY <1>2
  <2>2. Tail(SubSeq(queue, i, Len(queue))) = SubSeq(queue, i + 1, Len(queue))
    BY <2>1, HeadTailOfSubSeq
  <2>3. r = SubSeq(queue, i, Len(queue))
    BY <1>4
  <2> QED BY <2>2, <2>3
<1>9. r = <<m>> \o Tail(r)
  <2> HIDE DEF r
  <2>1. r = <<Head(r)>> \o Tail(r)
    BY <1>5, <1>6, HeadTailProperties
  <2> QED BY <1>7, <2>1
<1> HIDE DEF a, b, r
<1>10. b \in Seq(Msgs) /\ queue = a \o (<<m>> \o b)
  BY <1>5, <1>7, <1>8, <1>9
<1> QED BY <1>3, <1>5, <1>10

----------------------------------------------------------------------------
(* What a step does to the queue, to its bytes and to the order.           *)

\* The chain has taken its messages out of the queue and may put them back
\* at its head.
Lined(c) == stage[c] = "resolving" \/ Len(batch[c]) > 1

\* What a chain has lined up after a step it had before, but for the first.
LineKept(c) == Lined(c)' => Lined(c) /\ (batch'[c] = batch[c] \/ batch'[c] = Tail(batch[c]))

\* A message that a send has in hand was there before, or was not sent yet.
SendKept(c) ==
  stage'[c] \in SendStages =>
    \/ stage[c] \in SendStages /\ batch'[c] = batch[c]
    \/ \E m \in Msgs : outcome[m] = "unsent" /\ batch'[c] = <<m>>

\* MessageQueue is left alone.
Still == UNCHANGED <<queue, currentBytes, rank>>

\* push, of a message that was never queued.
Pushed(c, m) ==
  /\ c \in Chains /\ stage'[c] = "queued"
  /\ \/ outcome[m] = "unsent"
     \/ (stage[c] \in SendStages \/ origin[c] = "interrupt") /\ batch[c] = <<m>>
  /\ queue' = Append(queue, m) /\ currentBytes' = currentBytes + Size[m]
  /\ rank' = [rank EXCEPT ![m] = Cardinality({n \in Msgs : rank[n] > 0}) + 1]

\* The shifts of a drain that finds the flag free and no dispatch on its way.
Shifted(c, n) ==
  /\ n \in 0 .. Len(queue) /\ owner = NoOne /\ \A d \in Chains : stage[d] # "resolving"
  /\ batch'[c] = SubSeq(queue, 1, n) /\ queue' = SubSeq(queue, n + 1, Len(queue))
  /\ currentBytes' = currentBytes - BytesOf(SubSeq(queue, 1, n))
  /\ UNCHANGED rank

\* The unshifts of requeueDrainedMessages.
Unshifted(c) ==
  /\ stage[c] = "resolving" /\ stage'[c] \in {"drain", "idle"} /\ batch'[c] = <<>>
  /\ queue' = batch[c] \o queue /\ currentBytes' = currentBytes + BytesOf(batch[c])
  /\ UNCHANGED rank

\* clear, and removeByRequestId.
Cleared == queue' = <<>> /\ currentBytes' = 0 /\ UNCHANGED rank
Removed(m) ==
  /\ m \in ToSet(queue) /\ queue' = Spliced(m)
  /\ currentBytes' = currentBytes - Size[m] /\ UNCHANGED rank

\* A step of chain c, or of none.
LineMove(c) ==
  /\ Alike(c)
  /\ c \in Chains => SendKept(c)
  /\ \/ /\ c \in Chains => LineKept(c)
        /\ \/ Still \/ Cleared
           \/ \E m \in Msgs : Pushed(c, m) \/ Removed(m) \/ SteerToMessage(m)
     \/ c \in Chains /\ (Unshifted(c) \/ \E n \in Nat : Shifted(c, n))

LineMoves == \E c \in Chains \cup {NoOne} : LineMove(c)

\* A step that touches stage, batch and turn of one chain.
LEMMA OneSteps ==
  ASSUME IInv, NEW c \in Chains, NEW f, LikeStage(f), NEW next, NEW b, NEW t,
         stage' = [f EXCEPT ![c] = next],
         batch' = [batch EXCEPT ![c] = b], turn' = [turn EXCEPT ![c] = t]
  PROVE  Alike(c) /\ stage'[c] = next /\ batch'[c] = b
<1>1. f \in [Chains -> Stages] /\ batch \in [Chains -> Seq(Msgs)]
      /\ turn \in [Chains -> SUBSET Msgs]
  BY DEF IInv, MsgInv, MsgTypes, ChainInv, ChainTypes, LikeStage
<1> QED BY <1>1 DEF Alike, LikeStage

\* The stages are like themselves.
LEMMA LikeItself ==
  ASSUME IInv
  PROVE  /\ LikeStage(stage) /\ LikeStage(NotifyIdle(stage)) /\ LikeStage(Settled(stage))
         /\ LikeStage(AmongCleared) /\ \A c \in Chains : LikeStage(AmongReleased(c))
BY StagesAlike DEF IInv, ChainInv, ChainTypes

\* Variables set to what they were.
LEMMA SameOnce ==
  ASSUME IInv, NEW c \in Chains
  PROVE  /\ batch = [batch EXCEPT ![c] = batch[c]] /\ turn = [turn EXCEPT ![c] = turn[c]]
         /\ stage = [stage EXCEPT ![c] = stage[c]]
BY SameAgain DEF IInv, MsgInv, ChainInv

\* A chain that comes to rest has nothing lined up.
LEMMA RestsUnlined ==
  ASSUME IInv, NEW c \in Chains, NEW f, LikeStage(f), NEW next,
         next \notin SendStages, next # "resolving", RestAmong(c, f, next)
  PROVE  /\ Alike(c) /\ stage'[c] = next /\ batch'[c] = <<>>
         /\ ~Lined(c)' /\ SendKept(c) /\ LineKept(c)
<1>1. Alike(c) /\ stage'[c] = next /\ batch'[c] = <<>>
  BY OneSteps DEF RestAmong
<1>2. ~(Len(<<>>) > 1)
  OBVIOUS
<1> QED BY <1>1, <1>2 DEF Lined, LineKept, SendKept

\* A chain goes on with what is in its hands.
LEMMA GoesOnInLine ==
  ASSUME IInv, NEW c \in Chains, NEW f, LikeStage(f), NEW next,
         stage' = [f EXCEPT ![c] = next], UNCHANGED <<batch, turn>>, Still,
         next = "resolving" => stage[c] = "resolving",
         next \in SendStages => stage[c] \in SendStages
  PROVE  LineMove(c)
<1>1. Alike(c) /\ stage'[c] = next /\ batch'[c] = batch[c]
  BY OneSteps, SameOnce
<1> QED BY <1>1 DEF LineMove, Lined, LineKept, SendKept

\* queueSend and enqueueMessage, wherever a refusal leaves the chain.
LEMMA EnqueueElseLines ==
  ASSUME IInv, NEW c \in Chains, NEW f, LikeStage(f), NEW m \in Msgs,
         \/ outcome[m] = "unsent"
         \/ (stage[c] \in SendStages \/ origin[c] = "interrupt") /\ batch[c] = <<m>>,
         NEW refused \in {"idle", "drain"}, EnqueueElse(c, f, m, refused)
  PROVE  LineMove(c)
<1>1. refused \notin SendStages /\ "queued" \notin SendStages /\ refused # "resolving"
  BY DEF SendStages
<1>2. CASE currentBytes + Size[m] > MaxBytes /\ queue # <<>>
  <2>1. RestAmong(c, f, refused) /\ Still
    BY <1>2 DEF EnqueueElse, Still, queueVars
  <2>2. Alike(c) /\ SendKept(c) /\ LineKept(c)
    BY <1>1, <2>1, RestsUnlined
  <2> QED BY <2>1, <2>2 DEF LineMove
<1>3. CASE ~(currentBytes + Size[m] > MaxBytes /\ queue # <<>>)
  <2>1. RestAmong(c, f, "queued")
    BY <1>3 DEF EnqueueElse
  <2>2. Alike(c) /\ SendKept(c) /\ LineKept(c) /\ stage'[c] = "queued"
    BY <1>1, <2>1, RestsUnlined
  <2>3. Pushed(c, m)
    BY <1>3, <2>2 DEF EnqueueElse, Pushed
  <2> QED BY <2>2, <2>3 DEF LineMove
<1> QED BY <1>2, <1>3

LEMMA EnqueueLines ==
  ASSUME IInv, NEW c \in Chains, NEW f, LikeStage(f), NEW m \in Msgs,
         outcome[m] = "unsent" \/ (stage[c] \in SendStages /\ batch[c] = <<m>>),
         EnqueueAmong(c, f, m)
  PROVE  LineMove(c)
BY EnqueueElseLines DEF EnqueueAmong

\* The send route.
LEMMA SendMessageLines ==
  ASSUME IInv, NEW c \in Chains, NEW m \in Msgs, SendMessage(c, m)
  PROVE  LineMove(c)
<1>1. stage[c] = "idle" /\ outcome[m] = "unsent" /\ LikeStage(stage)
  BY LikeItself DEF SendMessage
<1>2. CASE EnqueueMessage(c, m)
  BY <1>1, <1>2, EnqueueLines DEF EnqueueMessage
<1>3. ASSUME NEW next \in {"sending", "interrupting"}, Accept(c, m, next)
      PROVE  LineMove(c)
  <2>1. Alike(c) /\ stage'[c] = next /\ batch'[c] = <<m>>
    BY <1>1, <1>3, OneSteps, SameOnce DEF Accept
  <2>2. Len(<<m>>) = 1 /\ ~(1 > 1)
    OBVIOUS
  <2>3. ~Lined(c)'
    BY <2>1, <2>2 DEF Lined
  <2>4. LineKept(c) /\ SendKept(c)
    BY <1>1, <2>1, <2>3 DEF LineKept, SendKept
  <2>5. Still
    BY <1>3 DEF Accept, Still, queueVars
  <2> QED BY <2>1, <2>4, <2>5 DEF LineMove
<1> QED BY <1>2, <1>3 DEF SendMessage

\* completeSend.
LEMMA CompleteSendLines ==
  ASSUME IInv, NEW c \in Chains, CompleteSend(c)
  PROVE  LineMove(c)
<1>1. stage[c] = "sending" /\ stage[c] \in SendStages /\ LikeStage(stage)
  BY LikeItself DEF CompleteSend, SendStages
<1>2. batch[c] = <<Head(batch[c])>> /\ Head(batch[c]) \in Msgs
  BY <1>1, SendHasOne
<1>3. CASE isProcessing
  BY <1>1, <1>2, <1>3, EnqueueLines DEF CompleteSend, EnqueueMessage
<1>4. CASE ~isProcessing
  <2>1. PICK next \in {"holding", "persisting"} : stage' = [stage EXCEPT ![c] = next]
    BY <1>4 DEF CompleteSend
  <2>2. UNCHANGED <<batch, turn>> /\ Still
    BY <1>4 DEF CompleteSend, Still, queueVars, rowVars
  <2> QED BY <1>1, <2>1, <2>2, GoesOnInLine
<1> QED BY <1>3, <1>4

\* interruptRunningTurn, after its abort.
LEMMA InterruptLines ==
  ASSUME IInv, NEW c \in Chains,
         \/ InterruptUnwound(c) \/ InterruptFencePass(c) \/ InterruptRepaired(c)
         \/ InterruptBusy(c) \/ InterruptClaim(c) \/ InterruptFails(c)
  PROVE  LineMove(c)
<1>1. stage[c] \in SendStages /\ LikeStage(stage) /\ LikeStage(AmongReleased(c))
  BY LikeItself DEF InterruptUnwound, InterruptFencePass, InterruptRepaired,
     InterruptBusy, InterruptClaim, InterruptFails, SendStages
<1>2. batch[c] = <<Head(batch[c])>> /\ Head(batch[c]) \in Msgs
  BY <1>1, SendHasOne
<1>3. CASE InterruptUnwound(c)
  <2>1. PICK next \in {"claiming", "outlasting"} : stage' = [stage EXCEPT ![c] = next]
    BY <1>3 DEF InterruptUnwound
  <2>2. UNCHANGED <<batch, turn>> /\ Still
    BY <1>3 DEF InterruptUnwound, Still, queueVars, rowVars
  <2> QED BY <1>1, <2>1, <2>2, GoesOnInLine
<1>4. CASE InterruptFencePass(c)
  <2>1. stage' = [stage EXCEPT ![c] = "mending"] /\ UNCHANGED <<batch, turn>> /\ Still
    BY <1>4 DEF InterruptFencePass, Still, queueVars, rowVars
  <2> QED BY <1>1, <2>1, GoesOnInLine
<1>5. CASE InterruptRepaired(c)
  <2>1. /\ stage' = [AmongReleased(c) EXCEPT ![c] = "sending"]
        /\ UNCHANGED <<batch, turn>> /\ Still
    BY <1>5 DEF InterruptRepaired, Still, queueVars, rowVars
  <2> QED BY <1>1, <2>1, GoesOnInLine
<1>6. CASE InterruptClaim(c) /\ ~isProcessing
  <2>1. stage' = [stage EXCEPT ![c] = "fencing"] /\ UNCHANGED <<batch, turn>> /\ Still
    BY <1>6 DEF InterruptClaim, Still, queueVars, rowVars
  <2> QED BY <1>1, <2>1, GoesOnInLine
<1>7. CASE InterruptBusy(c) \/ (InterruptClaim(c) /\ isProcessing)
  BY <1>1, <1>2, <1>7, EnqueueLines DEF InterruptBusy, InterruptClaim, EnqueueMessage
<1>8. CASE InterruptFails(c)
  BY <1>1, <1>2, <1>8, EnqueueLines DEF InterruptFails
<1> QED BY <1>3, <1>4, <1>5, <1>6, <1>7, <1>8

\* A hand-over that throws after the answer.
LEMMA HandoverLines ==
  ASSUME IInv, NEW c \in Chains, HandoverFails(c)
  PROVE  LineMove(c)
<1> DEFINE to == IF stage[c] = "holding" THEN "drain" ELSE "idle"
<1>1. PICK m \in Msgs : batch[c] = <<m>> /\ EnqueueElse(c, AmongReleased(c), m, to)
  BY DEF HandoverFails
<1>2. origin[c] = "interrupt" /\ to \in {"idle", "drain"} /\ LikeStage(AmongReleased(c))
  BY LikeItself DEF HandoverFails
<1> HIDE DEF to
<1> QED BY <1>1, <1>2, EnqueueElseLines

\* The steps after which a chain rests, or drains.
LEMMA RestLines ==
  ASSUME IInv, NEW c \in Chains, QueueSendKick(c) \/ ReleaseHold(c) \/ ReleaseTurn(c)
  PROVE  LineMove(c)
<1>1. /\ LikeStage(stage) /\ LikeStage(NotifyIdle(stage)) /\ LikeStage(AmongReleased(c))
      /\ {"idle", "drain", "awaiting", "finalizing"} \cap SendStages = {}
  BY LikeItself DEF SendStages
<1>2. \E f, next : /\ LikeStage(f) /\ next \in {"idle", "drain", "awaiting", "finalizing"}
                   /\ RestAmong(c, f, next)
  BY <1>1 DEF QueueSendKick, ReleaseHold, ReleaseTurn, Rest
<1>3. PICK f, next : /\ LikeStage(f) /\ next \in {"idle", "drain", "awaiting", "finalizing"}
                     /\ RestAmong(c, f, next)
  BY <1>2
<1>4. next \notin SendStages /\ next # "resolving"
  BY <1>1, <1>3
<1>5. Alike(c) /\ SendKept(c) /\ LineKept(c)
  BY <1>3, <1>4, RestsUnlined
<1>6. Still
  BY DEF QueueSendKick, ReleaseHold, ReleaseTurn, Still, queueVars, rowVars
<1> QED BY <1>5, <1>6 DEF LineMove

\* drainQueue and its continuation after a repair.
LEMMA DrainLines ==
  ASSUME IInv, NEW c \in Chains, DrainQueue(c) \/ RepairDone(c),
         \A d \in Chains : stage[d] # "resolving"
  PROVE  LineMove(c)
<1>1. /\ LikeStage(stage) /\ UNCHANGED rank
      /\ {"idle", "resolving", "repairing", "repairingDurable"} \cap SendStages = {}
  BY LikeItself DEF SendStages, DrainQueue, RepairDone
<1>2. CASE Rest(c, "idle") /\ UNCHANGED queueVars
  <2>1. RestAmong(c, stage, "idle") /\ Still
    BY <1>1, <1>2 DEF Rest, Still, queueVars
  <2>2. Alike(c) /\ SendKept(c) /\ LineKept(c)
    BY <1>1, <2>1, RestsUnlined
  <2> QED BY <2>1, <2>2 DEF LineMove
<1>3. CASE /\ \E next \in {"repairing", "repairingDurable"} :
                stage' = [stage EXCEPT ![c] = next]
           /\ UNCHANGED <<queueVars, batch, turn>>
  <2>1. PICK next \in {"repairing", "repairingDurable"} : stage' = [stage EXCEPT ![c] = next]
    BY <1>3
  <2>2. UNCHANGED <<batch, turn>> /\ Still
    BY <1>1, <1>3 DEF Still, queueVars
  <2> QED BY <1>1, <2>1, <2>2, GoesOnInLine
<1>4. ASSUME NEW n, n = 1 \/ n = PassthroughRun(queue), queue # <<>>, ~isProcessing,
             batch' = [batch EXCEPT ![c] = SubSeq(queue, 1, n)],
             queue' = SubSeq(queue, n + 1, Len(queue)),
             currentBytes' = currentBytes - BytesOf(SubSeq(queue, 1, n)),
             stage' = [stage EXCEPT ![c] = "resolving"],
             turn' = [turn EXCEPT ![c] = {}]
      PROVE  LineMove(c)
  <2>1. n \in 1 .. Len(queue) /\ n \in Nat
    BY <1>4, TakenOfOneSender DEF IInv, MsgInv, MsgTypes
  <2>2. n \in 0 .. Len(queue)
    BY <2>1
  <2>3. Alike(c) /\ stage'[c] = "resolving" /\ batch'[c] = SubSeq(queue, 1, n)
    BY <1>1, <1>4, OneSteps
  <2>4. Shifted(c, n)
    BY <1>1, <1>4, <2>2, <2>3 DEF Shifted, isProcessing
  <2>5. SendKept(c)
    BY <1>1, <2>3 DEF SendKept
  <2> QED BY <2>1, <2>3, <2>4, <2>5 DEF LineMove
<1>5. ASSUME NEW st, DrainTake(c, st) PROVE LineMove(c)
  <2> DEFINE k == IF st THEN 1 ELSE PassthroughRun(queue)
  <2>1. k = 1 \/ k = PassthroughRun(queue)
    OBVIOUS
  <2>2. \/ Rest(c, "idle") /\ UNCHANGED queueVars
        \/ /\ queue # <<>> /\ ~isProcessing
           /\ batch' = [batch EXCEPT ![c] = SubSeq(queue, 1, k)]
           /\ queue' = SubSeq(queue, k + 1, Len(queue))
           /\ currentBytes' = currentBytes - BytesOf(SubSeq(queue, 1, k))
           /\ stage' = [stage EXCEPT ![c] = "resolving"]
           /\ turn' = [turn EXCEPT ![c] = {}]
    BY <1>5 DEF DrainTake
  <2> HIDE DEF k
  <2> QED BY <1>2, <1>4, <2>1, <2>2
<1>6. \/ \E st : DrainTake(c, st)
      \/ /\ \E next \in {"repairing", "repairingDurable"} :
              stage' = [stage EXCEPT ![c] = next]
         /\ UNCHANGED <<queueVars, batch, turn>>
  <2>1. CASE RepairDone(c)
    BY <2>1 DEF RepairDone
  <2>2. CASE DrainQueue(c) /\ ~pendingSteerRepair /\ ~pendingInterruptRepair
    BY <2>2 DEF DrainQueue
  <2>3. CASE DrainQueue(c) /\ (pendingSteerRepair \/ pendingInterruptRepair)
    BY <2>3 DEF DrainQueue, queueVars
  <2> QED BY <2>1, <2>2, <2>3
<1> QED BY <1>3, <1>5, <1>6

\* A chain whose drain was rejected has nothing in hand.
LEMMA RejectedUnlined ==
  ASSUME IInv, NEW c \in Chains, DrainRejected(c)
  PROVE  /\ Alike(c) /\ stage'[c] \in {"drain", "idle"} /\ batch'[c] = <<>>
         /\ ~Lined(c)' /\ SendKept(c) /\ LineKept(c)
<1>1. PICK next \in {"drain", "idle"} : stage' = [stage EXCEPT ![c] = next]
  BY DEF DrainRejected
<1>2. Alike(c) /\ stage'[c] = next /\ batch'[c] = <<>>
  BY <1>1, LikeItself, OneSteps DEF DrainRejected
<1>3. ~(Len(<<>>) > 1) /\ next \notin SendStages
  BY DEF SendStages
<1> QED BY <1>2, <1>3 DEF Lined, LineKept, SendKept

\* dispatchDrainWithRestore, resolveSlash and the repair that fails.
LEMMA DispatchLines ==
  ASSUME IInv, NEW c \in Chains, RepairFails(c) \/ DispatchThrows(c) \/ ResolveSlash(c)
  PROVE  LineMove(c)
<1>1. LikeStage(stage) /\ {"idle", "slashing", "persisting"} \cap SendStages = {}
  BY LikeItself DEF SendStages
<1>2. CASE RepairFails(c)
  <2>1. Alike(c) /\ SendKept(c) /\ LineKept(c)
    BY <1>2, RejectedUnlined DEF RepairFails
  <2>2. Still
    BY <1>2 DEF RepairFails, Still, queueVars
  <2> QED BY <2>1, <2>2 DEF LineMove
<1>3. CASE DispatchThrows(c)
  <2>1. Alike(c) /\ SendKept(c) /\ stage'[c] \in {"drain", "idle"} /\ batch'[c] = <<>>
    BY <1>3, RejectedUnlined DEF DispatchThrows
  <2>2. Unshifted(c)
    BY <1>3, <2>1 DEF DispatchThrows, RequeueDrainedMessages, Unshifted
  <2> QED BY <2>1, <2>2 DEF LineMove
<1>4. CASE ResolveSlash(c) /\ RequeueDrainedMessages(c) /\ Rest(c, "idle")
  <2>1. Alike(c) /\ SendKept(c) /\ stage'[c] = "idle" /\ batch'[c] = <<>>
    BY <1>1, <1>4, RestsUnlined DEF Rest
  <2>2. Unshifted(c)
    BY <1>4, <2>1 DEF ResolveSlash, RequeueDrainedMessages, Unshifted
  <2> QED BY <2>1, <2>2 DEF LineMove
<1>5. ASSUME ResolveSlash(c), UNCHANGED <<queueVars, batch, turn>>,
             NEW next \in {"slashing", "persisting"}, stage' = [stage EXCEPT ![c] = next]
      PROVE  LineMove(c)
  <2>1. UNCHANGED <<batch, turn>> /\ Still
    BY <1>5 DEF ResolveSlash, Still, queueVars
  <2> QED BY <1>1, <1>5, <2>1, GoesOnInLine
<1>6. CASE ResolveSlash(c)
  <2>1. \/ RequeueDrainedMessages(c) /\ Rest(c, "idle")
        \/ /\ UNCHANGED <<queueVars, batch, turn>>
           /\ \E next \in {"slashing", "persisting"} : stage' = [stage EXCEPT ![c] = next]
    BY <1>6 DEF ResolveSlash, queueVars
  <2> QED BY <1>4, <1>5, <1>6, <2>1
<1> QED BY <1>2, <1>3, <1>6

\* A chain whose first message is over.
LEMMA OneFewer ==
  ASSUME IInv, NEW c \in Chains, batch[c] # <<>>, batch'[c] = Tail(batch[c]),
         stage'[c] = "resolving" => Tail(batch[c]) # <<>>
  PROVE  LineKept(c)
<1>1. batch[c] \in Seq(Msgs)
  BY DEF IInv, MsgInv, MsgTypes
<1>2. /\ Tail(batch[c]) \in Seq(Msgs) /\ Len(Tail(batch[c])) = Len(batch[c]) - 1
      /\ Len(batch[c]) \in Nat
  BY <1>1, TailElements, LenProperties
<1>3. Tail(batch[c]) # <<>> => Len(Tail(batch[c])) # 0
  BY <1>2, EmptySeq
<1>4. Lined(c)' => Len(Tail(batch[c])) >= 1
  BY <1>2, <1>3 DEF Lined
<1>5. Lined(c)' => Len(batch[c]) > 1
  BY <1>2, <1>4
<1> QED BY <1>5 DEF LineKept, Lined

\* The persists of a batch, the slash command, and the loop that starts.
LEMMA PersistLines ==
  ASSUME IInv, NEW c \in Chains,
         SlashDone(c) \/ PersistDone(c) \/ HeadSkipped(c) \/ TailSkipped(c)
  PROVE  LineMove(c)
<1> DEFINE r == Tail(batch[c])
<1>1. /\ LikeStage(stage) /\ LikeStage(Settled(stage)) /\ LikeStage(AmongReleased(c))
      /\ {"drain", "running", "persisting", "resolving", "idle"} \cap SendStages = {}
  BY LikeItself DEF SendStages
<1>2. Still
  BY DEF SlashDone, PersistDone, HeadSkipped, TailSkipped, Still, queueVars
<1>3. \E t : turn' = [turn EXCEPT ![c] = t]
  <2>1. turn' = turn => turn' = [turn EXCEPT ![c] = turn[c]]
    BY SameOnce
  <2> QED BY <2>1 DEF SlashDone, PersistDone, HeadSkipped, TailSkipped
<1>4. PICK t : turn' = [turn EXCEPT ![c] = t]
  BY <1>3
<1>5. ASSUME NEW f, LikeStage(f), NEW next, stage' = [f EXCEPT ![c] = next],
             next \in {"drain", "running"}, batch' = [batch EXCEPT ![c] = <<>>]
      PROVE  LineMove(c)
  <2>1. Alike(c) /\ stage'[c] = next /\ batch'[c] = <<>>
    BY <1>4, <1>5, OneSteps
  <2>2. ~(Len(<<>>) > 1) /\ next \notin SendStages
    BY <1>1, <1>5
  <2>3. LineKept(c) /\ SendKept(c)
    BY <1>5, <2>1, <2>2 DEF Lined, LineKept, SendKept
  <2> QED BY <1>2, <2>1, <2>3 DEF LineMove
<1>6. ASSUME NEW f, LikeStage(f), NEW next, stage' = [f EXCEPT ![c] = next],
             next \in {"persisting", "resolving", "drain", "idle"}, stage[c] = "persisting",
             batch' = [batch EXCEPT ![c] = r], next = "resolving" => r # <<>>
      PROVE  LineMove(c)
  <2>1. Alike(c) /\ stage'[c] = next /\ batch'[c] = r
    BY <1>4, <1>6, OneSteps
  <2>2. batch[c] # <<>>
    BY <1>6, PersistingHas
  <2>3. LineKept(c)
    BY <1>6, <2>1, <2>2, OneFewer
  <2>4. SendKept(c)
    BY <1>1, <1>6, <2>1 DEF SendKept
  <2> QED BY <1>2, <2>1, <2>3, <2>4 DEF LineMove
<1>7. CASE SlashDone(c)
  BY <1>1, <1>5, <1>7 DEF SlashDone
<1>8. CASE StartLoop(c)
  BY <1>1, <1>5, <1>8 DEF StartLoop
<1>9. CASE (PersistDone(c) \/ TailSkipped(c)) /\ ~StartLoop(c)
  <2>1. /\ stage[c] = "persisting" /\ batch' = [batch EXCEPT ![c] = r]
        /\ stage' = stage
    BY <1>9 DEF PersistDone, TailSkipped
  <2>2. stage' = [stage EXCEPT ![c] = "persisting"]
    BY <2>1, SameOnce
  <2> QED BY <1>1, <1>6, <2>1, <2>2
<1>10. CASE HeadSkipped(c)
  <2> DEFINE next == IF r # <<>> THEN "resolving" ELSE IF origin[c] = "drain" THEN "drain" ELSE "idle"
  <2>1. /\ stage[c] = "persisting" /\ batch' = [batch EXCEPT ![c] = r]
        /\ stage' = [AmongReleased(c) EXCEPT ![c] = next]
    BY <1>10 DEF HeadSkipped
  <2>2. next \in {"persisting", "resolving", "drain", "idle"}
        /\ (next = "resolving" => r # <<>>)
    OBVIOUS
  <2> HIDE DEF next, r
  <2>3. LikeStage(AmongReleased(c))
    BY <1>1
  <2> QED BY <1>6, <2>1, <2>2, <2>3
<1> QED BY <1>7, <1>8, <1>9, <1>10

\* Turns and commits that end.
LEMMA CommitLines ==
  ASSUME IInv
  PROVE  /\ OutstandingCommitSettles => LineMove(NoOne)
         /\ \A c \in Chains : TurnFinally(c) => LineMove(c)
<1>1. ASSUME OutstandingCommitSettles PROVE LineMove(NoOne)
  <2>1. /\ stage' = Settled(stage) /\ LikeStage(Settled(stage)) /\ Still
        /\ batch' = batch /\ turn' = turn
    BY <1>1, LikeItself DEF OutstandingCommitSettles, Still, queueVars, rowVars
  <2>2. Alike(NoOne)
    BY <2>1 DEF Alike, LikeStage
  <2> QED BY <2>1, <2>2, QueueAssumption DEF LineMove
<1>2. ASSUME NEW c \in Chains, TurnFinally(c) PROVE LineMove(c)
  <2> DEFINE f == [stage EXCEPT ![c] = "drain"]
  <2>1. /\ stage' = Settled(f) \/ stage' = f
        /\ Still /\ batch' = batch /\ turn' = turn
    BY <1>2 DEF TurnFinally, Still, queueVars, rowVars
  <2>2. stage \in [Chains -> Stages]
    BY DEF IInv, ChainInv, ChainTypes
  <2>3. Alike(c) /\ stage'[c] = "drain"
    BY <2>1, <2>2 DEF Alike, Settled
  <2>4. SendKept(c)
    BY <2>3 DEF SendKept, SendStages
  <2>5. LineKept(c)
    BY <2>1, <2>3 DEF LineKept, Lined
  <2> QED BY <2>1, <2>3, <2>4, <2>5 DEF LineMove
<1> QED BY <1>1, <1>2

\* Stop, steer and teardown touch an idle chain at most.
LEMMA KickLines ==
  ASSUME IInv, NEW kick, KickDrain(kick)
  PROVE  \E c \in Chains \cup {NoOne} :
           Alike(c) /\ (c \in Chains => SendKept(c) /\ LineKept(c))
<1>1. LikeStage(AmongCleared) /\ "drain" \notin SendStages
  BY LikeItself DEF SendStages
<1>2. ASSUME NEW c \in Chains, RestAmong(c, AmongCleared, "drain")
      PROVE  Alike(c) /\ SendKept(c) /\ LineKept(c)
  BY <1>1, <1>2, RestsUnlined
<1>3. CASE stage' = AmongCleared /\ UNCHANGED <<batch, turn>>
  <2>1. Alike(NoOne)
    BY <1>1, <1>3 DEF Alike, LikeStage
  <2> QED BY <2>1, QueueAssumption
<1> QED BY <1>2, <1>3 DEF KickDrain

\* Stop, teardown, steer and delete.
LEMMA UserLines ==
  ASSUME IInv,
         \/ UserInterrupt \/ DiscardQueueOnAbort
         \/ \E m \in Msgs : SteerToMessage(m) \/ DeleteQueuedMessage(m)
  PROVE  LineMoves
<1>1. ASSUME NEW kick, KickDrain(kick),
             \/ Still \/ Cleared \/ \E m \in Msgs : SteerToMessage(m)
      PROVE  LineMoves
  BY <1>1, KickLines DEF LineMoves, LineMove
<1>2. CASE UserInterrupt
  BY <1>1, <1>2 DEF UserInterrupt, Still, queueVars, rowVars
<1>3. CASE DiscardQueueOnAbort
  BY <1>1, <1>3 DEF DiscardQueueOnAbort, Cleared
<1>4. ASSUME NEW m \in Msgs, SteerToMessage(m) PROVE LineMoves
  <2>1. \E kick : KickDrain(kick)
    BY <1>4 DEF SteerToMessage
  <2> QED BY <1>1, <1>4, <2>1
<1>5. ASSUME NEW m \in Msgs, DeleteQueuedMessage(m) PROVE LineMoves
  <2>1. Removed(m) /\ Alike(NoOne)
    BY <1>5 DEF DeleteQueuedMessage, Removed, Alike, chainVars
  <2>2. LineMove(NoOne)
    BY <2>1, QueueAssumption DEF LineMove
  <2> QED BY <2>2 DEF LineMoves
<1> QED BY <1>2, <1>3, <1>4, <1>5

\* Every step is such a move.
LEMMA NextLines ==
  ASSUME IInv, Next
  PROVE  LineMoves
<1>1. CASE Microtasks
  <2>1. PICK c \in Chains :
          \/ CompleteSend(c) \/ ResolveSlash(c) \/ DispatchThrows(c)
          \/ InterruptUnwound(c) \/ InterruptClaim(c)
    BY <1>1, Zenon DEF Microtasks
  <2>2. LineMove(c)
    BY <2>1, CompleteSendLines, DispatchLines, InterruptLines, Zenon
  <2> QED BY <2>2, Zenon DEF LineMoves
<1>2. CASE Tasks
  <2>0. \A d \in Chains : stage[d] # "resolving"
    BY <1>2, Zenon DEF Tasks
  <2>1. ASSUME NEW c \in Chains,
               \/ QueueSendKick(c) \/ ReleaseHold(c)
               \/ DrainQueue(c) \/ RepairDone(c) \/ RepairFails(c) \/ SlashDone(c)
               \/ PersistDone(c) \/ HeadSkipped(c) \/ TailSkipped(c)
               \/ ReleaseTurn(c) \/ TurnFinally(c)
               \/ InterruptBusy(c) \/ InterruptFencePass(c)
               \/ InterruptRepaired(c) \/ InterruptFails(c) \/ HandoverFails(c)
        PROVE  LineMoves
    <3>1. LineMove(c)
      BY <2>0, <2>1, RestLines, DrainLines, DispatchLines, PersistLines, CommitLines,
         InterruptLines, HandoverLines, Zenon
    <3> QED BY <3>1, Zenon DEF LineMoves
  <2>2. ASSUME NEW c \in Chains, NEW m \in Msgs, SendMessage(c, m) PROVE LineMoves
    <3>1. LineMove(c)
      BY <2>2, SendMessageLines
    <3> QED BY <3>1, Zenon DEF LineMoves
  <2>3. CASE OutstandingCommitSettles
    <3>1. LineMove(NoOne)
      BY <2>3, CommitLines, Zenon
    <3> QED BY <3>1, Zenon DEF LineMoves
  <2>4. CASE \/ UserInterrupt \/ DiscardQueueOnAbort
             \/ \E m \in Msgs : SteerToMessage(m) \/ DeleteQueuedMessage(m)
    BY <2>4, UserLines, Zenon
  <2> QED BY <1>2, <2>1, <2>2, <2>3, <2>4, Zenon DEF Tasks
<1> QED BY <1>1, <1>2 DEF Next

----------------------------------------------------------------------------
(* The byte count.                                                         *)

\* Every move keeps the bytes and the items of MessageQueue together.
LEMMA LinesCountBytes ==
  ASSUME IInv, BytesMatchQueue, LineMoves
  PROVE  BytesMatchQueue'
<1>1. /\ queue \in Seq(Msgs) /\ currentBytes = BytesOf(queue)
      /\ \A c \in Chains : batch[c] \in Seq(Msgs)
  BY DEF IInv, MsgInv, MsgTypes, BytesMatchQueue
<1> SUFFICES currentBytes' = BytesOf(queue')
  BY DEF BytesMatchQueue
<1>2. BytesOf(queue) \in Nat
  BY <1>1, BytesOfConcat
<1>3. CASE Still
  BY <1>1, <1>3 DEF Still
<1>4. CASE Cleared
  BY <1>4, BytesOfShort DEF Cleared
<1>5. ASSUME NEW c, NEW m \in Msgs, Pushed(c, m) PROVE currentBytes' = BytesOf(queue')
  <2>1. queue' = Append(queue, m) /\ currentBytes' = currentBytes + Size[m]
    BY <1>5 DEF Pushed
  <2>2. BytesOf(Append(queue, m)) = BytesOf(queue) + Size[m]
    BY <1>1, BytesOfPush
  <2> QED BY <1>1, <2>1, <2>2
<1>6. ASSUME NEW m \in Msgs, Removed(m) \/ SteerToMessage(m)
      PROVE  currentBytes' = BytesOf(queue')
  <2>1. m \in ToSet(queue)
    BY <1>6 DEF Removed, SteerToMessage
  <2>2. PICK a, b \in Seq(Msgs) : queue = a \o (<<m>> \o b) /\ Spliced(m) = a \o b
    BY <1>1, <2>1, QueueSpliced
  <2>3. <<m>> \in Seq(Msgs)
    OBVIOUS
  <2>4. <<m>> \o b \in Seq(Msgs) /\ a \o b \in Seq(Msgs)
    BY <2>3, ConcatProperties
  <2>5. /\ BytesOf(a \o (<<m>> \o b)) = BytesOf(a) + BytesOf(<<m>> \o b)
        /\ BytesOf(a) \in Nat
    BY <2>4, BytesOfConcat
  <2>6. /\ BytesOf(<<m>> \o b) = BytesOf(<<m>>) + BytesOf(b)
        /\ BytesOf(<<m>>) \in Nat /\ BytesOf(b) \in Nat
    BY <2>3, BytesOfConcat
  <2>7. BytesOf(a \o b) = BytesOf(a) + BytesOf(b)
    BY BytesOfConcat
  <2>8. BytesOf(<<m>> \o (a \o b)) = BytesOf(<<m>>) + BytesOf(a \o b)
    BY <2>3, <2>4, BytesOfConcat
  <2>9. BytesOf(<<m>>) = Size[m]
    BY BytesOfShort
  <2>10. /\ BytesOf(queue) = BytesOf(a) + (Size[m] + BytesOf(b))
         /\ BytesOf(Spliced(m)) = BytesOf(a) + BytesOf(b)
         /\ BytesOf(<<m>> \o Spliced(m)) = Size[m] + (BytesOf(a) + BytesOf(b))
         /\ Size[m] \in Nat /\ BytesOf(a) \in Nat /\ BytesOf(b) \in Nat
    BY <2>2, <2>5, <2>6, <2>7, <2>8, <2>9
  <2>11. CASE Removed(m)
    <3>1. queue' = Spliced(m) /\ currentBytes' = currentBytes - Size[m]
      BY <2>11 DEF Removed
    <3> QED BY <1>1, <2>10, <3>1
  <2>12. CASE SteerToMessage(m)
    <3>1. queue' = <<m>> \o Spliced(m) /\ currentBytes' = currentBytes
      BY <2>12 DEF SteerToMessage
    <3> QED BY <1>1, <2>10, <3>1
  <2> QED BY <1>6, <2>11, <2>12
<1>7. ASSUME NEW c \in Chains, Unshifted(c) PROVE currentBytes' = BytesOf(queue')
  <2>1. queue' = batch[c] \o queue /\ currentBytes' = currentBytes + BytesOf(batch[c])
    BY <1>7 DEF Unshifted
  <2>2. /\ BytesOf(batch[c] \o queue) = BytesOf(batch[c]) + BytesOf(queue)
        /\ BytesOf(batch[c]) \in Nat
    BY <1>1, BytesOfConcat
  <2> QED BY <1>1, <1>2, <2>1, <2>2
<1>8. ASSUME NEW c \in Chains, NEW n \in Nat, Shifted(c, n)
      PROVE  currentBytes' = BytesOf(queue')
  <2>1. /\ n \in 0 .. Len(queue) /\ queue' = SubSeq(queue, n + 1, Len(queue))
        /\ currentBytes' = currentBytes - BytesOf(SubSeq(queue, 1, n))
    BY <1>8 DEF Shifted
  <2>2. /\ BytesOf(queue) = BytesOf(SubSeq(queue, 1, n))
                              + BytesOf(SubSeq(queue, n + 1, Len(queue)))
        /\ BytesOf(SubSeq(queue, 1, n)) \in Nat
        /\ BytesOf(SubSeq(queue, n + 1, Len(queue))) \in Nat
    BY <1>1, <2>1, BytesOfSplit
  <2> QED BY <1>1, <2>1, <2>2
<1>9. PICK c \in Chains \cup {NoOne} : LineMove(c)
  BY DEF LineMoves
<1> QED BY <1>3, <1>4, <1>5, <1>6, <1>7, <1>8, <1>9 DEF LineMove

\* The byte count of the queue is that of its items, through push, pop,
\* requeue, promote, delete and clear: the budget refuses a message for the
\* bytes that are queued and never for some that have left (MessageQueue's
\* currentBytes).
THEOREM QueueBytes == Spec => []BytesMatchQueue
<1>1. Init => BytesMatchQueue
  BY BytesOfShort DEF Init, BytesMatchQueue
<1>2. IInv /\ BytesMatchQueue /\ [Next]_vars => BytesMatchQueue'
  <2> SUFFICES ASSUME IInv, BytesMatchQueue, [Next]_vars PROVE BytesMatchQueue'
    OBVIOUS
  <2>1. CASE Next
    BY <2>1, NextLines, LinesCountBytes
  <2>2. CASE UNCHANGED vars
    BY <2>2 DEF vars, queueVars, BytesMatchQueue
  <2> QED BY <2>1, <2>2
<1> QED BY InitQueue, NextQueue, <1>1, <1>2, PTL DEF Spec

----------------------------------------------------------------------------
(* The order of the queue.                                                 *)

\* The messages of s are in the order of their ranks r.
Increasing(r, s) == \A i, j \in DOMAIN s : i < j => r[s[i]] < r[s[j]]

\* Every message of S comes before every message of T.
Before(r, S, T) == \A x \in S, y \in T : r[x] < r[y]

Ranked == {m \in Msgs : rank[m] > 0}

\* What an interrupting send has in hand was never queued.
Unqueued ==
  /\ origin \in [Chains -> Origins]
  /\ \A c \in Chains : origin[c] = "interrupt" =>
       InterruptOnSend /\ \A m \in ToSet(batch[c]) : rank[m] = 0

\* The next message to be queued gets a rank above all others, and what was
\* never queued has none.
Numbered ==
  /\ rank \in [Msgs -> Nat] /\ IsFiniteSet(Ranked)
  /\ \A m \in Msgs : rank[m] <= Cardinality(Ranked)
  /\ \A m \in Msgs : outcome[m] = "unsent" => rank[m] = 0
  /\ \A c \in Chains : stage[c] \in SendStages => \A m \in ToSet(batch[c]) : rank[m] = 0
  /\ Unqueued

\* What is queued is in order, and so is what one chain, and no other, has
\* taken out of it and may put back in front.
InLine ==
  /\ Increasing(rank, queue)
  /\ \A c \in Chains : Lined(c) => /\ Increasing(rank, batch[c])
                                   /\ Before(rank, ToSet(batch[c]), ToSet(queue))
  /\ \A c, d \in Chains : Lined(c) /\ Lined(d) => c = d

\* A sequence in order is made of two in order, one before the other.
LEMMA IncreasingConcat ==
  ASSUME NEW r, NEW s \in Seq(Msgs), NEW t \in Seq(Msgs)
  PROVE  Increasing(r, s \o t)
           <=> Increasing(r, s) /\ Increasing(r, t) /\ Before(r, ToSet(s), ToSet(t))
<1> DEFINE u == s \o t  k == Len(s)  l == Len(t)
<1>1. /\ k \in Nat /\ l \in Nat
      /\ DOMAIN s = 1..k /\ DOMAIN t = 1..l /\ DOMAIN u = 1 .. k + l
      /\ \A i \in 1 .. k + l : u[i] = IF i <= k THEN s[i] ELSE t[i - k]
  <2>1. /\ u \in Seq(Msgs) /\ Len(u) = k + l
        /\ \A i \in 1 .. k + l : u[i] = IF i <= k THEN s[i] ELSE t[i - k]
    BY ConcatProperties
  <2> QED BY <2>1, LenProperties
<1> HIDE DEF u, k, l
<1>2. \A i \in 1..k : i \in 1 .. k + l /\ u[i] = s[i]
  BY <1>1
<1>3. \A j \in 1..l : k + j \in 1 .. k + l /\ u[k + j] = t[j]
  <2> TAKE j \in 1..l
  <2>1. k + j \in 1 .. k + l /\ ~(k + j <= k) /\ (k + j) - k = j
    BY <1>1
  <2> QED BY <1>1, <2>1
<1>4. ASSUME Increasing(r, u)
      PROVE  Increasing(r, s) /\ Increasing(r, t) /\ Before(r, ToSet(s), ToSet(t))
  <2>1. \A i, j \in 1 .. k + l : i < j => r[u[i]] < r[u[j]]
    BY <1>1, <1>4 DEF Increasing
  <2>2. Increasing(r, s)
    BY <1>1, <1>2, <2>1 DEF Increasing
  <2>3. ASSUME NEW i \in 1..l, NEW j \in 1..l, i < j PROVE r[t[i]] < r[t[j]]
    <3>1. k + i < k + j
      BY <1>1, <2>3
    <3> QED BY <1>3, <2>1, <3>1
  <2>4. ASSUME NEW i \in 1..k, NEW j \in 1..l PROVE r[s[i]] < r[t[j]]
    <3>1. i < k + j
      BY <1>1
    <3> QED BY <1>2, <1>3, <2>1, <3>1
  <2> QED BY <1>1, <2>2, <2>3, <2>4 DEF Increasing, Before, ToSet
<1>5. ASSUME Increasing(r, s), Increasing(r, t), Before(r, ToSet(s), ToSet(t)),
             NEW i \in 1 .. k + l, NEW j \in 1 .. k + l, i < j
      PROVE  r[u[i]] < r[u[j]]
  <2>1. \A x, y \in 1..k : x < y => r[s[x]] < r[s[y]]
    BY <1>1, <1>5 DEF Increasing
  <2>2. \A x, y \in 1..l : x < y => r[t[x]] < r[t[y]]
    BY <1>1, <1>5 DEF Increasing
  <2>3. \A x \in 1..k, y \in 1..l : r[s[x]] < r[t[y]]
    BY <1>1, <1>5 DEF Before, ToSet
  <2>4. CASE i <= k /\ j <= k
    <3>1. i \in 1..k /\ j \in 1..k
      BY <1>1, <2>4
    <3> QED BY <1>2, <1>5, <2>1, <3>1
  <2>5. CASE i <= k /\ ~(j <= k)
    <3>1. i \in 1..k /\ j - k \in 1..l /\ u[j] = t[j - k]
      BY <1>1, <2>5
    <3> QED BY <1>2, <2>3, <3>1
  <2>6. CASE ~(i <= k)
    <3>1. /\ i - k \in 1..l /\ j - k \in 1..l /\ i - k < j - k
          /\ u[i] = t[i - k] /\ u[j] = t[j - k]
      BY <1>1, <1>5, <2>6
    <3> QED BY <2>2, <3>1
  <2> QED BY <2>4, <2>5, <2>6
<1>6. Increasing(r, s) /\ Increasing(r, t) /\ Before(r, ToSet(s), ToSet(t)) => Increasing(r, u)
  BY <1>1, <1>5 DEF Increasing
<1> QED BY <1>4, <1>6 DEF u

\* Short sequences are in order.
LEMMA IncreasingShort ==
  ASSUME NEW r
  PROVE  Increasing(r, <<>>) /\ \A m : Increasing(r, <<m>>)
<1>1. Increasing(r, <<>>)
  BY DEF Increasing
<1>2. ASSUME NEW m PROVE Increasing(r, <<m>>)
  <2>1. DOMAIN <<m>> = 1..1
    OBVIOUS
  <2> QED BY <2>1 DEF Increasing
<1> QED BY <1>1, <1>2

\* The order depends on the ranks of the messages at hand.
LEMMA IncreasingSame ==
  ASSUME NEW s \in Seq(Msgs), NEW r, NEW q, \A m \in ToSet(s) : q[m] = r[m],
         Increasing(r, s)
  PROVE  Increasing(q, s)
BY DEF Increasing, ToSet

\* What is left of a batch is in order.
LEMMA IncreasingTail ==
  ASSUME NEW r, NEW s \in Seq(Msgs), s # <<>>, Increasing(r, s)
  PROVE  /\ Tail(s) \in Seq(Msgs) /\ Increasing(r, Tail(s))
         /\ ToSet(Tail(s)) \subseteq ToSet(s)
<1>1. /\ Head(s) \in Msgs /\ Tail(s) \in Seq(Msgs)
      /\ ToSet(s) = {Head(s)} \cup ToSet(Tail(s))
  BY TailElements
<1>2. s = <<Head(s)>> \o Tail(s) /\ <<Head(s)>> \in Seq(Msgs)
  BY <1>1, HeadTailProperties
<1>3. Increasing(r, <<Head(s)>> \o Tail(s))
  BY <1>2
<1>4. Increasing(r, Tail(s))
  BY <1>1, <1>2, <1>3, IncreasingConcat
<1> QED BY <1>1, <1>4

\* A message that was sent is not unsent again.
LEMMA UnsentBefore ==
  ASSUME IInv, Next, NEW m \in Msgs, outcome'[m] = "unsent"
  PROVE  outcome[m] = "unsent"
<1>1. Moves /\ outcome \in [Msgs -> Outcomes]
  BY NextMoves DEF IInv, MsgInv, MsgTypes
<1>2. CASE Kept \/ Reordered
  BY <1>2 DEF Kept, Reordered
<1>3. ASSUME NEW S, Deleted(S) PROVE outcome[m] = "unsent"
  BY <1>3 DEF Deleted
<1>4. ASSUME NEW c, NEW n, Brought(c, n) \/ Queued(c, n) \/ Refused(c, n)
      PROVE  outcome[m] = "unsent"
  BY <1>1, <1>4 DEF Brought, Queued, Refused
<1>5. ASSUME NEW c, NEW n, Taken(c, n) \/ Returned(c) PROVE outcome[m] = "unsent"
  BY <1>5 DEF Taken, Returned
<1>6. ASSUME NEW c, NEW end, Ended(c, end) PROVE outcome[m] = "unsent"
  BY <1>1, <1>6 DEF Ended
<1> QED BY <1>1, <1>2, <1>3, <1>4, <1>5, <1>6, Zenon DEF Moves

\* A message that is pushed had no rank, and is where no chain has it.
LEMMA PushedHadNone ==
  ASSUME IInv, IInv', Numbered, NEW c, NEW m \in Msgs, Pushed(c, m)
  PROVE  /\ rank[m] = 0
         /\ m \notin ToSet(queue) /\ m \in ToSet(queue') /\ outcome'[m] = "pending"
         /\ \A d \in Chains : m \notin ToSet(batch'[d])
<1>1. /\ queue \in Seq(Msgs) /\ IsInjective(queue)
      /\ \A n \in ToSet(queue) : outcome[n] = "pending"
      /\ \A d \in Chains : ToSet(batch[d]) \cap ToSet(queue) = {}
  BY DEF IInv, MsgInv, MsgTypes, HeldOnce
<1>2. /\ \A n \in ToSet(queue') : outcome'[n] = "pending"
      /\ \A d \in Chains : ToSet(batch'[d]) \cap ToSet(queue') = {}
  BY DEF IInv, MsgInv, HeldOnce
<1>3. ToSet(queue') = ToSet(queue) \cup {m}
  BY <1>1, AppendElements DEF Pushed
<1>4. ToSet(<<m>>) = {m}
  BY ShortElements
<1>5. CASE outcome[m] = "unsent"
  BY <1>1, <1>2, <1>3, <1>5 DEF Numbered
<1>6. CASE /\ c \in Chains
           /\ stage[c] \in SendStages \/ origin[c] = "interrupt"
           /\ batch[c] = <<m>>
  <2>1. rank[m] = 0
    BY <1>4, <1>6 DEF Numbered, Unqueued
  <2> QED BY <1>1, <1>2, <1>3, <1>4, <1>6, <2>1
<1> QED BY <1>5, <1>6 DEF Pushed

\* What a step does to what the chains have in hand, and how they came by it.
HandMove(c) ==
  \/ /\ batch' = [batch EXCEPT ![c] = <<>>]
     /\ origin' = origin \/ origin' = [origin EXCEPT ![c] = "send"]
  \/ batch[c] # <<>> /\ batch' = [batch EXCEPT ![c] = Tail(batch[c])] /\ origin' = origin
  \/ \E b : batch' = [batch EXCEPT ![c] = b] /\ origin' = [origin EXCEPT ![c] = "drain"]
  \/ \E m \in Msgs, o \in Origins :
       /\ outcome[m] = "unsent" /\ batch' = [batch EXCEPT ![c] = <<m>>]
       /\ origin' = [origin EXCEPT ![c] = o]
       /\ o = "interrupt" => InterruptOnSend

HandMoves == UNCHANGED <<batch, origin>> \/ \E c \in Chains : HandMove(c)

\* A chain that comes to rest.
LEMMA RestsHands ==
  ASSUME NEW c \in Chains, NEW f, NEW next, RestAmong(c, f, next)
  PROVE  HandMove(c)
BY DEF RestAmong, HandMove

\* queueSend and enqueueMessage.
LEMMA EnqueueHands ==
  ASSUME NEW c \in Chains, NEW f, NEW m, NEW refused, EnqueueElse(c, f, m, refused)
  PROVE  HandMove(c)
BY RestsHands DEF EnqueueElse

\* A send, up to its hand-over.
LEMMA SendHands ==
  ASSUME NEW c \in Chains,
         \/ \E m \in Msgs : SendMessage(c, m)
         \/ CompleteSend(c) \/ QueueSendKick(c) \/ ReleaseHold(c) \/ HandoverFails(c)
         \/ InterruptUnwound(c) \/ InterruptBusy(c) \/ InterruptClaim(c)
         \/ InterruptFencePass(c) \/ InterruptRepaired(c) \/ InterruptFails(c)
  PROVE  HandMoves
<1>1. CASE UNCHANGED <<batch, origin>>
  BY <1>1 DEF HandMoves
<1>2. CASE \E f, m, refused : EnqueueElse(c, f, m, refused)
  BY <1>2, EnqueueHands DEF HandMoves
<1>3. CASE \E f, next : RestAmong(c, f, next)
  BY <1>3, RestsHands DEF HandMoves
<1>4. ASSUME NEW m \in Msgs, SendMessage(c, m) PROVE HandMoves
  <2>1. ASSUME NEW next, Accept(c, m, next), outcome[m] = "unsent",
               next = "interrupting" => InterruptOnSend
        PROVE  HandMoves
    <3>1. PICK o \in Origins : /\ origin' = [origin EXCEPT ![c] = o]
                               /\ o = "interrupt" => InterruptOnSend
      BY <2>1 DEF Accept, Origins
    <3>2. HandMove(c)
      BY <2>1, <3>1 DEF Accept, HandMove
    <3> QED BY <3>2 DEF HandMoves
  <2>2. CASE Accept(c, m, "sending")
    BY <1>4, <2>1, <2>2 DEF SendMessage
  <2>3. CASE Accept(c, m, "interrupting") /\ MayInterrupt(m)
    BY <1>4, <2>1, <2>3 DEF SendMessage, MayInterrupt
  <2>4. CASE EnqueueMessage(c, m)
    BY <1>2, <2>4 DEF EnqueueMessage, EnqueueAmong
  <2> QED BY <1>4, <2>2, <2>3, <2>4 DEF SendMessage
<1>5. CASE CompleteSend(c)
  BY <1>1, <1>2, <1>5 DEF CompleteSend, EnqueueMessage, EnqueueAmong
<1>6. CASE QueueSendKick(c) \/ ReleaseHold(c)
  BY <1>3, <1>6 DEF QueueSendKick, ReleaseHold, Rest
<1>7. CASE HandoverFails(c)
  BY <1>2, <1>7 DEF HandoverFails
<1>8. CASE InterruptUnwound(c) \/ InterruptFencePass(c) \/ InterruptRepaired(c)
  BY <1>1, <1>8 DEF InterruptUnwound, InterruptFencePass, InterruptRepaired
<1>9. CASE InterruptBusy(c) \/ InterruptClaim(c) \/ InterruptFails(c)
  BY <1>1, <1>2, <1>9 DEF InterruptBusy, InterruptClaim, InterruptFails, EnqueueMessage,
     EnqueueAmong
<1> QED BY <1>4, <1>5, <1>6, <1>7, <1>8, <1>9

\* The drain, the persists and the turn.
LEMMA DrainHands ==
  ASSUME IInv, NEW c \in Chains,
         \/ DrainQueue(c) \/ RepairDone(c) \/ RepairFails(c) \/ DispatchThrows(c)
         \/ ResolveSlash(c) \/ SlashDone(c) \/ PersistDone(c) \/ HeadSkipped(c)
         \/ TailSkipped(c) \/ ReleaseTurn(c) \/ TurnFinally(c)
  PROVE  HandMoves
<1>1. CASE UNCHANGED <<batch, origin>>
  BY <1>1 DEF HandMoves
<1>2. CASE \E f, next : RestAmong(c, f, next)
  BY <1>2, RestsHands DEF HandMoves
<1>3. CASE batch' = [batch EXCEPT ![c] = <<>>] /\ origin' = origin
  BY <1>3 DEF HandMoves, HandMove
<1>4. CASE /\ stage[c] = "persisting" /\ origin' = origin
           /\ batch' = [batch EXCEPT ![c] = Tail(batch[c])]
  <2>1. batch[c] # <<>>
    BY <1>4, PersistingHas
  <2> QED BY <1>4, <2>1 DEF HandMoves, HandMove
<1>5. ASSUME NEW st, DrainTake(c, st) PROVE HandMoves
  <2>1. CASE Rest(c, "idle")
    BY <1>2, <2>1 DEF Rest
  <2>2. CASE /\ \E b : batch' = [batch EXCEPT ![c] = b]
             /\ origin' = [origin EXCEPT ![c] = "drain"]
    BY <2>2 DEF HandMoves, HandMove
  <2> QED BY <1>5, <2>1, <2>2 DEF DrainTake
<1>6. CASE DrainQueue(c) \/ RepairDone(c)
  BY <1>1, <1>5, <1>6 DEF DrainQueue, RepairDone
<1>7. CASE RepairFails(c) \/ DispatchThrows(c)
  BY <1>3, <1>7 DEF RepairFails, DispatchThrows, DrainRejected
<1>8. CASE ResolveSlash(c)
  BY <1>1, <1>2, <1>8 DEF ResolveSlash, Rest
<1>9. CASE SlashDone(c)
  BY <1>3, <1>9 DEF SlashDone
<1>10. CASE PersistDone(c) \/ TailSkipped(c)
  BY <1>3, <1>4, <1>10 DEF PersistDone, TailSkipped, StartLoop
<1>11. CASE HeadSkipped(c)
  BY <1>4, <1>11 DEF HeadSkipped
<1>12. CASE ReleaseTurn(c) \/ TurnFinally(c)
  BY <1>1, <1>2, <1>12 DEF ReleaseTurn, TurnFinally
<1> QED BY <1>6, <1>7, <1>8, <1>9, <1>10, <1>11, <1>12

\* Every step is such a move.
LEMMA NextHands ==
  ASSUME IInv, Next
  PROVE  HandMoves
<1>1. ASSUME NEW kick, KickDrain(kick) PROVE HandMoves
  BY <1>1, RestsHands DEF KickDrain, HandMoves
<1>2. CASE Microtasks
  BY <1>2, SendHands, DrainHands, Zenon DEF Microtasks
<1>3. CASE Tasks
  <2>1. ASSUME NEW m \in Msgs, SteerToMessage(m) \/ DeleteQueuedMessage(m)
        PROVE  HandMoves
    BY <1>1, <2>1 DEF SteerToMessage, DeleteQueuedMessage, chainVars, HandMoves
  <2>2. CASE OutstandingCommitSettles \/ UserInterrupt \/ DiscardQueueOnAbort
    BY <1>1, <2>2 DEF OutstandingCommitSettles, UserInterrupt, DiscardQueueOnAbort, HandMoves
  <2>3. ASSUME NEW c \in Chains,
               \/ QueueSendKick(c) \/ ReleaseHold(c)
               \/ DrainQueue(c) \/ RepairDone(c) \/ RepairFails(c) \/ SlashDone(c)
               \/ PersistDone(c) \/ HeadSkipped(c) \/ TailSkipped(c)
               \/ ReleaseTurn(c) \/ TurnFinally(c)
               \/ InterruptBusy(c) \/ InterruptFencePass(c)
               \/ InterruptRepaired(c) \/ InterruptFails(c) \/ HandoverFails(c)
        PROVE  HandMoves
    BY <2>3, SendHands, DrainHands, Zenon
  <2>4. ASSUME NEW c \in Chains, NEW m \in Msgs, SendMessage(c, m) PROVE HandMoves
    BY <2>4, SendHands, Zenon
  <2> QED BY <1>3, <2>1, <2>2, <2>3, <2>4, Zenon DEF Tasks
<1> QED BY <1>2, <1>3 DEF Next

\* What an interrupting send has in hand it had before, or was not sent yet.
LEMMA HandsKept ==
  ASSUME IInv, HandMoves, origin \in [Chains -> Origins]
  PROVE  /\ origin' \in [Chains -> Origins]
         /\ \A d \in Chains : origin'[d] = "interrupt" =>
              \/ origin[d] = "interrupt" /\ ToSet(batch'[d]) \subseteq ToSet(batch[d])
              \/ InterruptOnSend /\ \E m \in Msgs : outcome[m] = "unsent" /\ batch'[d] = <<m>>
<1>1. batch \in [Chains -> Seq(Msgs)]
  BY DEF IInv, MsgInv, MsgTypes
<1>2. "send" \in Origins /\ "drain" \in Origins /\ ToSet(<<>>) = {}
  BY ShortElements DEF Origins
<1>3. CASE UNCHANGED <<batch, origin>>
  BY <1>3
<1>4. ASSUME NEW c \in Chains, HandMove(c)
      PROVE  /\ origin' \in [Chains -> Origins]
             /\ \A d \in Chains : origin'[d] = "interrupt" =>
                  \/ origin[d] = "interrupt" /\ ToSet(batch'[d]) \subseteq ToSet(batch[d])
                  \/ InterruptOnSend
                     /\ \E m \in Msgs : outcome[m] = "unsent" /\ batch'[d] = <<m>>
  <2> DEFINE Goal == /\ origin' \in [Chains -> Origins]
                     /\ \A d \in Chains : origin'[d] = "interrupt" =>
                          \/ origin[d] = "interrupt" /\ ToSet(batch'[d]) \subseteq ToSet(batch[d])
                          \/ InterruptOnSend
                             /\ \E m \in Msgs : outcome[m] = "unsent" /\ batch'[d] = <<m>>
  <2>1. ASSUME NEW b, batch' = [batch EXCEPT ![c] = b],
               origin' = origin \/ \E o \in Origins : origin' = [origin EXCEPT ![c] = o]
        PROVE  /\ origin' \in [Chains -> Origins] /\ batch'[c] = b
               /\ \A d \in Chains \ {c} : batch'[d] = batch[d] /\ origin'[d] = origin[d]
    BY <1>1, <2>1
  <2>2. ASSUME batch' = [batch EXCEPT ![c] = <<>>],
               origin' = origin \/ origin' = [origin EXCEPT ![c] = "send"]
        PROVE  Goal
    <3>1. /\ origin' \in [Chains -> Origins] /\ batch'[c] = <<>>
          /\ \A d \in Chains \ {c} : batch'[d] = batch[d] /\ origin'[d] = origin[d]
      BY <1>2, <2>1, <2>2
    <3>2. origin'[c] = "interrupt" => origin[c] = "interrupt"
      BY <2>2
    <3> QED BY <1>2, <3>1, <3>2
  <2>3. ASSUME batch[c] # <<>>, batch' = [batch EXCEPT ![c] = Tail(batch[c])],
               origin' = origin
        PROVE  Goal
    <3>1. ToSet(Tail(batch[c])) \subseteq ToSet(batch[c])
      BY <1>1, <2>3, TailElements
    <3>2. /\ batch'[c] = Tail(batch[c])
          /\ \A d \in Chains \ {c} : batch'[d] = batch[d] /\ origin'[d] = origin[d]
      BY <2>1, <2>3
    <3> QED BY <2>3, <3>1, <3>2
  <2>4. ASSUME NEW b, batch' = [batch EXCEPT ![c] = b],
               origin' = [origin EXCEPT ![c] = "drain"]
        PROVE  Goal
    <3>1. /\ origin' \in [Chains -> Origins] /\ origin'[c] = "drain"
          /\ \A d \in Chains \ {c} : batch'[d] = batch[d] /\ origin'[d] = origin[d]
      BY <1>2, <2>1, <2>4
    <3> QED BY <3>1
  <2>5. ASSUME NEW m \in Msgs, outcome[m] = "unsent", batch' = [batch EXCEPT ![c] = <<m>>],
               NEW o \in Origins, origin' = [origin EXCEPT ![c] = o],
               o = "interrupt" => InterruptOnSend
        PROVE  Goal
    <3>1. /\ origin' \in [Chains -> Origins] /\ origin'[c] = o /\ batch'[c] = <<m>>
          /\ \A d \in Chains \ {c} : batch'[d] = batch[d] /\ origin'[d] = origin[d]
      BY <2>1, <2>5
    <3> QED BY <2>5, <3>1
  <2> HIDE DEF Goal
  <2>6. CASE \E b : batch' = [batch EXCEPT ![c] = b] /\ origin' = [origin EXCEPT ![c] = "drain"]
    <3>1. PICK b : batch' = [batch EXCEPT ![c] = b] /\ origin' = [origin EXCEPT ![c] = "drain"]
      BY <2>6
    <3> QED BY <2>4, <3>1 DEF Goal
  <2>7. CASE \E m \in Msgs, o \in Origins :
               /\ outcome[m] = "unsent" /\ batch' = [batch EXCEPT ![c] = <<m>>]
               /\ origin' = [origin EXCEPT ![c] = o]
               /\ o = "interrupt" => InterruptOnSend
    <3>1. PICK m \in Msgs, o \in Origins :
            /\ outcome[m] = "unsent" /\ batch' = [batch EXCEPT ![c] = <<m>>]
            /\ origin' = [origin EXCEPT ![c] = o]
            /\ o = "interrupt" => InterruptOnSend
      BY <2>7
    <3> QED BY <2>5, <3>1 DEF Goal
  <2>8. CASE /\ batch' = [batch EXCEPT ![c] = <<>>]
             /\ origin' = origin \/ origin' = [origin EXCEPT ![c] = "send"]
    BY <2>2, <2>8 DEF Goal
  <2>9. CASE /\ batch[c] # <<>> /\ batch' = [batch EXCEPT ![c] = Tail(batch[c])]
             /\ origin' = origin
    BY <2>3, <2>9 DEF Goal
  <2> QED BY <1>4, <2>6, <2>7, <2>8, <2>9, Zenon DEF HandMove
<1> QED BY <1>3, <1>4 DEF HandMoves

\* Every step keeps the numbering.
LEMMA LinesNumber ==
  ASSUME IInv, IInv', Next, Numbered
  PROVE  Numbered'
<1>1. PICK c \in Chains \cup {NoOne} : LineMove(c)
  BY NextLines DEF LineMoves
<1>2. /\ Alike(c) /\ (c \in Chains => SendKept(c))
      /\ rank' = rank \/ \E m \in Msgs : Pushed(c, m)
  BY <1>1 DEF LineMove, Still, Cleared, Removed, SteerToMessage, Unshifted, Shifted
<1>3. /\ rank \in [Msgs -> Nat] /\ IsFiniteSet(Ranked) /\ Cardinality(Ranked) \in Nat
      /\ \A m \in Msgs : rank[m] <= Cardinality(Ranked)
      /\ \A m \in Msgs : outcome[m] = "unsent" => rank[m] = 0
      /\ \A d \in Chains : stage[d] \in SendStages => \A m \in ToSet(batch[d]) : rank[m] = 0
      /\ Unqueued
  BY FS_CardinalityType DEF Numbered
<1>0. /\ origin' \in [Chains -> Origins]
      /\ \A d \in Chains : origin'[d] = "interrupt" => InterruptOnSend
      /\ \A d \in Chains : origin'[d] = "interrupt" => \A m \in ToSet(batch'[d]) : rank[m] = 0
  <2>1. /\ origin' \in [Chains -> Origins]
        /\ \A d \in Chains : origin'[d] = "interrupt" =>
             \/ origin[d] = "interrupt" /\ ToSet(batch'[d]) \subseteq ToSet(batch[d])
             \/ InterruptOnSend /\ \E m \in Msgs : outcome[m] = "unsent" /\ batch'[d] = <<m>>
    BY <1>3, NextHands, HandsKept DEF Unqueued
  <2>2. ASSUME NEW d \in Chains, origin'[d] = "interrupt"
        PROVE  InterruptOnSend /\ \A m \in ToSet(batch'[d]) : rank[m] = 0
    <3>1. CASE origin[d] = "interrupt" /\ ToSet(batch'[d]) \subseteq ToSet(batch[d])
      BY <1>3, <3>1 DEF Unqueued
    <3>2. ASSUME InterruptOnSend, NEW n \in Msgs, outcome[n] = "unsent", batch'[d] = <<n>>
          PROVE  InterruptOnSend /\ \A m \in ToSet(batch'[d]) : rank[m] = 0
      BY <1>3, <3>2, ShortElements
    <3> QED BY <2>1, <2>2, <3>1, <3>2
  <2> QED BY <2>1, <2>2
<1>4. ASSUME NEW d \in Chains, stage'[d] \in SendStages, NEW m \in ToSet(batch'[d])
      PROVE  rank[m] = 0
  <2>1. CASE d # c
    <3>1. batch'[d] = batch[d] /\ stage[d] \in SendStages
      BY <1>2, <1>4, <2>1 DEF Alike, SendStages
    <3> QED BY <1>3, <1>4, <3>1
  <2>2. CASE d = c
    <3>1. CASE stage[d] \in SendStages /\ batch'[d] = batch[d]
      BY <1>3, <1>4, <3>1
    <3>2. ASSUME NEW n \in Msgs, outcome[n] = "unsent", batch'[d] = <<n>> PROVE rank[m] = 0
      <4>1. m = n
        BY <1>4, <3>2, ShortElements
      <4> QED BY <1>3, <3>2, <4>1
    <3> QED BY <1>2, <1>4, <2>2, <3>1, <3>2 DEF SendKept
  <2> QED BY <2>1, <2>2
<1>5. CASE rank' = rank
  <2>1. Ranked' = Ranked
    BY <1>5 DEF Ranked
  <2>2. \A m \in Msgs : outcome'[m] = "unsent" => rank'[m] = 0
    BY <1>3, <1>5, UnsentBefore
  <2>3. \A d \in Chains : stage'[d] \in SendStages => \A m \in ToSet(batch'[d]) : rank'[m] = 0
    BY <1>4, <1>5
  <2>4. Unqueued'
    BY <1>0, <1>5 DEF Unqueued
  <2> QED BY <1>3, <1>5, <2>1, <2>2, <2>3, <2>4 DEF Numbered
<1>6. ASSUME NEW m \in Msgs, Pushed(c, m) PROVE Numbered'
  <2>1. /\ rank[m] = 0 /\ outcome'[m] = "pending"
        /\ \A d \in Chains : m \notin ToSet(batch'[d])
    BY <1>6, PushedHadNone
  <2>2. rank' = [rank EXCEPT ![m] = Cardinality(Ranked) + 1]
    BY <1>6 DEF Pushed, Ranked
  <2>3. /\ rank' \in [Msgs -> Nat] /\ rank'[m] = Cardinality(Ranked) + 1
        /\ \A n \in Msgs \ {m} : rank'[n] = rank[n]
    BY <1>3, <2>2
  <2>4. Ranked' = Ranked \cup {m} /\ m \notin Ranked
    BY <1>3, <2>1, <2>3 DEF Ranked
  <2>5. IsFiniteSet(Ranked') /\ Cardinality(Ranked') = Cardinality(Ranked) + 1
    BY <1>3, <2>4, FS_AddElement
  <2>6. \A n \in Msgs : rank'[n] <= Cardinality(Ranked')
    BY <1>3, <2>3, <2>5
  <2>7. \A n \in Msgs : outcome'[n] = "unsent" => rank'[n] = 0
    BY <1>3, <2>1, <2>3, UnsentBefore
  <2>8. ASSUME NEW d \in Chains, stage'[d] \in SendStages, NEW n \in ToSet(batch'[d])
        PROVE  rank'[n] = 0
    <3>1. n \in Msgs
      <4>1. batch'[d] \in Seq(Msgs)
        BY DEF IInv, MsgInv, MsgTypes
      <4> QED BY <2>8, <4>1, ElementsAreMsgs
    <3> QED BY <1>4, <2>1, <2>3, <2>8, <3>1
  <2>9. Unqueued'
    <3>1. ASSUME NEW d \in Chains, origin'[d] = "interrupt", NEW n \in ToSet(batch'[d])
          PROVE  rank'[n] = 0
      <4>1. n \in Msgs
        <5>1. batch'[d] \in Seq(Msgs)
          BY DEF IInv, MsgInv, MsgTypes
        <5> QED BY <3>1, <5>1, ElementsAreMsgs
      <4> QED BY <1>0, <2>1, <2>3, <3>1, <4>1
    <3> QED BY <1>0, <3>1 DEF Unqueued
  <2> QED BY <2>3, <2>5, <2>6, <2>7, <2>8, <2>9 DEF Numbered
<1> QED BY <1>2, <1>5, <1>6

\* Only a chain that persists a batch of several or that resolves one is in line.
LEMMA LinedStages ==
  ASSUME IInv, NEW c \in Chains, Lined(c)
  PROVE  /\ stage[c] \in {"resolving", "persisting"} /\ batch[c] # <<>>
         /\ owner = NoOne => stage[c] = "resolving"
<1>1. batch[c] \in Seq(Msgs) /\ InHand(stage[c], batch[c])
  BY DEF IInv, MsgInv, MsgTypes, ChainInv, Hands
<1>2. batch[c] # <<>>
  BY <1>1 DEF Lined, InHand, HandStages
<1>3. stage[c] \in {"resolving", "persisting"}
  <2>1. stage[c] \in HandStages
    BY <1>1, <1>2 DEF InHand
  <2>2. stage[c] \in SendStages \cup {"slashing"} => Len(batch[c]) = 1
    BY <1>1 DEF InHand
  <2>3. Len(batch[c]) = 1 => stage[c] = "resolving"
    BY DEF Lined
  <2>4. stage[c] \notin SendStages \cup {"slashing"}
    BY <2>2, <2>3 DEF SendStages
  <2> QED BY <2>1, <2>4 DEF HandStages
<1>4. stage[c] = "persisting" => owner = c
  BY DEF IInv, ChainInv, OneTurn, TurnStages
<1> QED BY <1>2, <1>3, <1>4, QueueAssumption

\* What is still lined up of a chain after a step that takes and puts back nothing.
LEMMA LinesAfter ==
  ASSUME IInv, InLine, NEW c \in Chains \cup {NoOne}, Alike(c),
         c \in Chains => LineKept(c), NEW d \in Chains, Lined(d)'
  PROVE  /\ Lined(d) /\ Increasing(rank, batch'[d])
         /\ ToSet(batch'[d]) \subseteq ToSet(batch[d])
<1>1. batch[d] \in Seq(Msgs)
  BY DEF IInv, MsgInv, MsgTypes
<1>2. Lined(d) /\ (batch'[d] = batch[d] \/ batch'[d] = Tail(batch[d]))
  <2>1. CASE d = c
    BY <2>1 DEF LineKept
  <2>2. CASE d # c
    BY <2>2 DEF Alike, Lined
  <2> QED BY <2>1, <2>2
<1>3. Increasing(rank, batch[d]) /\ batch[d] # <<>>
  BY <1>2, LinedStages DEF InLine
<1>4. Increasing(rank, Tail(batch[d])) /\ ToSet(Tail(batch[d])) \subseteq ToSet(batch[d])
  BY <1>1, <1>3, IncreasingTail
<1> QED BY <1>2, <1>3, <1>4

\* A queue with the same messages or fewer stays in line.
LEMMA FewerInLine ==
  ASSUME IInv, InLine, NEW c \in Chains \cup {NoOne}, Alike(c),
         c \in Chains => LineKept(c), rank' = rank,
         ToSet(queue') \subseteq ToSet(queue), Increasing(rank, queue')
  PROVE  InLine'
<1>1. ASSUME NEW d \in Chains, Lined(d)'
      PROVE  /\ Lined(d) /\ Increasing(rank, batch'[d])
             /\ Before(rank, ToSet(batch'[d]), ToSet(queue'))
  <2>1. Lined(d) /\ Increasing(rank, batch'[d]) /\ ToSet(batch'[d]) \subseteq ToSet(batch[d])
    BY <1>1, LinesAfter
  <2>2. Before(rank, ToSet(batch[d]), ToSet(queue))
    BY <2>1 DEF InLine
  <2> QED BY <2>1, <2>2 DEF Before
<1>2. \A d, e \in Chains : Lined(d)' /\ Lined(e)' => d = e
  BY <1>1 DEF InLine
<1> QED BY <1>1, <1>2 DEF InLine

\* Every step but a steer keeps the order.
LEMMA LinesInLine ==
  ASSUME IInv, IInv', Next, \A m \in Msgs : ~SteerToMessage(m), Numbered, InLine
  PROVE  InLine'
<1>1. PICK c \in Chains \cup {NoOne} : LineMove(c)
  BY NextLines DEF LineMoves
<1>2. /\ queue \in Seq(Msgs) /\ \A d \in Chains : batch[d] \in Seq(Msgs)
      /\ queue' \in Seq(Msgs) /\ \A d \in Chains : batch'[d] \in Seq(Msgs)
      /\ Increasing(rank, queue)
  BY DEF IInv, MsgInv, MsgTypes, InLine
<1>3. Alike(c)
  BY <1>1 DEF LineMove
<1>4. CASE (c \in Chains => LineKept(c)) /\ (Still \/ Cleared)
  <2>1. rank' = rank /\ ToSet(queue') \subseteq ToSet(queue) /\ Increasing(rank, queue')
    BY <1>2, <1>4, ShortElements, IncreasingShort DEF Still, Cleared
  <2> QED BY <1>3, <1>4, <2>1, FewerInLine
<1>5. ASSUME c \in Chains => LineKept(c), NEW m \in Msgs, Removed(m) PROVE InLine'
  <2>1. m \in ToSet(queue) /\ queue' = Spliced(m) /\ rank' = rank
    BY <1>5 DEF Removed
  <2>2. PICK a, b \in Seq(Msgs) : queue = a \o (<<m>> \o b) /\ Spliced(m) = a \o b
    BY <1>2, <2>1, QueueSpliced
  <2>3. <<m>> \in Seq(Msgs) /\ <<m>> \o b \in Seq(Msgs)
    BY ConcatProperties
  <2>4. /\ Increasing(rank, a) /\ Increasing(rank, <<m>> \o b)
        /\ Before(rank, ToSet(a), ToSet(<<m>> \o b))
    BY <1>2, <2>2, <2>3, IncreasingConcat
  <2>5. Increasing(rank, b)
    BY <2>3, <2>4, IncreasingConcat
  <2>6. ToSet(<<m>> \o b) = ToSet(<<m>>) \cup ToSet(b)
    BY <2>3, ConcatElements
  <2>7. Before(rank, ToSet(a), ToSet(b))
    BY <2>4, <2>6 DEF Before
  <2>8. Increasing(rank, a \o b)
    BY <2>4, <2>5, <2>7, IncreasingConcat
  <2>9. ToSet(a \o b) = ToSet(a) \cup ToSet(b)
    BY ConcatElements
  <2>10. ToSet(a \o (<<m>> \o b)) = ToSet(a) \cup ToSet(<<m>> \o b)
    <3> DEFINE s == <<m>> \o b
    <3>1. s \in Seq(Msgs)
      BY <2>3
    <3> HIDE DEF s
    <3>2. ToSet(a \o s) = ToSet(a) \cup ToSet(s)
      BY <3>1, ConcatElements
    <3> QED BY <3>2 DEF s
  <2>11. ToSet(queue') \subseteq ToSet(queue) /\ Increasing(rank, queue')
    BY <2>1, <2>2, <2>6, <2>8, <2>9, <2>10
  <2> QED BY <1>3, <1>5, <2>1, <2>11, FewerInLine
<1>6. ASSUME c \in Chains => LineKept(c), NEW m \in Msgs, Pushed(c, m) PROVE InLine'
  <2>1. /\ rank[m] = 0 /\ m \notin ToSet(queue)
        /\ \A d \in Chains : m \notin ToSet(batch'[d])
    BY <1>6, PushedHadNone
  <2>2. /\ rank \in [Msgs -> Nat] /\ Cardinality(Ranked) \in Nat
        /\ \A n \in Msgs : rank[n] <= Cardinality(Ranked)
    BY FS_CardinalityType DEF Numbered
  <2>3. rank' = [rank EXCEPT ![m] = Cardinality(Ranked) + 1] /\ queue' = Append(queue, m)
    BY <1>6 DEF Pushed, Ranked
  <2>4. \A n \in Msgs \ {m} : rank'[n] = rank[n] /\ rank'[n] < rank'[m]
    BY <2>2, <2>3
  <2>5. ToSet(queue) \subseteq Msgs /\ \A d \in Chains : ToSet(batch'[d]) \subseteq Msgs
    BY <1>2, ElementsAreMsgs
  <2>6. /\ \A n \in ToSet(queue) : rank'[n] = rank[n] /\ rank'[n] < rank'[m]
        /\ \A d \in Chains : \A n \in ToSet(batch'[d]) : rank'[n] = rank[n] /\ rank'[n] < rank'[m]
    BY <2>1, <2>4, <2>5
  <2>7. queue' = queue \o <<m>> /\ <<m>> \in Seq(Msgs) /\ ToSet(<<m>>) = {m}
        /\ ToSet(queue') = ToSet(queue) \cup {m}
    BY <1>2, <2>3, ShortElements, AppendElements
  <2>8. Increasing(rank', queue')
    <3>1. Increasing(rank', queue)
      BY <1>2, <2>6, IncreasingSame
    <3>2. Before(rank', ToSet(queue), ToSet(<<m>>))
      BY <2>6, <2>7 DEF Before
    <3>3. Increasing(rank', <<m>>)
      BY IncreasingShort
    <3> QED BY <1>2, <2>7, <3>1, <3>2, <3>3, IncreasingConcat
  <2>9. ASSUME NEW d \in Chains, Lined(d)'
        PROVE  /\ Lined(d) /\ Increasing(rank', batch'[d])
               /\ Before(rank', ToSet(batch'[d]), ToSet(queue'))
    <3>1. /\ Lined(d) /\ Increasing(rank, batch'[d])
          /\ ToSet(batch'[d]) \subseteq ToSet(batch[d])
      BY <1>3, <1>6, <2>9, LinesAfter
    <3>2. Increasing(rank', batch'[d])
      BY <1>2, <2>6, <3>1, IncreasingSame
    <3>3. Before(rank, ToSet(batch[d]), ToSet(queue))
      BY <3>1 DEF InLine
    <3>4. Before(rank', ToSet(batch'[d]), ToSet(queue'))
      BY <2>6, <2>7, <3>1, <3>3 DEF Before
    <3> QED BY <3>1, <3>2, <3>4
  <2>10. \A d, e \in Chains : Lined(d)' /\ Lined(e)' => d = e
    BY <2>9 DEF InLine
  <2> QED BY <2>8, <2>9, <2>10 DEF InLine
<1>7. ASSUME c \in Chains, Unshifted(c) PROVE InLine'
  <2>1. /\ Lined(c) /\ ~Lined(c)' /\ queue' = batch[c] \o queue /\ rank' = rank
    BY <1>7, EmptySeq DEF Unshifted, Lined
  <2>2. Increasing(rank, queue')
    BY <1>2, <1>7, <2>1, IncreasingConcat DEF InLine
  <2>3. ASSUME NEW d \in Chains, Lined(d)' PROVE FALSE
    <3>1. d # c /\ Lined(d)
      BY <1>3, <2>1, <2>3 DEF Alike, Lined
    <3> QED BY <1>7, <2>1, <3>1 DEF InLine
  <2> QED BY <2>1, <2>2, <2>3 DEF InLine
<1>8. ASSUME c \in Chains, NEW n \in Nat, Shifted(c, n) PROVE InLine'
  <2> DEFINE a == SubSeq(queue, 1, n)  b == SubSeq(queue, n + 1, Len(queue))
  <2>1. /\ n \in 0 .. Len(queue) /\ batch'[c] = a /\ queue' = b /\ rank' = rank
        /\ owner = NoOne /\ \A d \in Chains : stage[d] # "resolving"
    BY <1>8 DEF Shifted
  <2>2. queue = a \o b
    BY <1>2, <2>1, BytesOfSplit
  <2>3. a \in Seq(Msgs) /\ b \in Seq(Msgs)
    BY <1>2, <1>8, <2>1
  <2> HIDE DEF a, b
  <2>4. Increasing(rank, a) /\ Increasing(rank, b) /\ Before(rank, ToSet(a), ToSet(b))
    BY <1>2, <2>2, <2>3, IncreasingConcat
  <2>5. ASSUME NEW d \in Chains, Lined(d)' PROVE d = c
    <3>1. ASSUME d # c PROVE FALSE
      <4>1. Lined(d)
        BY <1>3, <2>5, <3>1 DEF Alike, Lined
      <4> QED BY <2>1, <4>1, LinedStages
    <3> QED BY <3>1
  <2> QED BY <2>1, <2>4, <2>5 DEF InLine
<1> QED BY <1>1, <1>4, <1>5, <1>6, <1>7, <1>8 DEF LineMove

\* A drain that goes on with a batch leaves only later messages in the queue.
LEMMA LinesStartInOrder ==
  ASSUME IInv, IInv', Next, \A m \in Msgs : ~SteerToMessage(m), InLine, NEW c \in Chains,
         stage[c] = "resolving", stage'[c] \in {"persisting", "slashing"},
         NEW n \in ToSet(queue')
  PROVE  rank[n] > rank[Head(batch[c])]
<1>1. PICK d \in Chains \cup {NoOne} : LineMove(d)
  BY NextLines DEF LineMoves
<1>2. d = c
  BY <1>1 DEF LineMove, Alike
<1>3. ToSet(queue') \subseteq ToSet(queue)
  <2>1. queue \in Seq(Msgs) /\ IsInjective(queue)
    BY DEF IInv, MsgInv, MsgTypes, HeldOnce
  <2>2. Still \/ Cleared \/ \E m \in Msgs : Removed(m)
    BY <1>1, <1>2 DEF LineMove, Pushed, Unshifted, Shifted
  <2>3. ASSUME NEW m \in Msgs, Removed(m) PROVE ToSet(queue') \subseteq ToSet(queue)
    BY <2>1, <2>3, SplicedElements DEF Removed
  <2> QED BY <2>2, <2>3, ShortElements DEF Still, Cleared
<1>4. batch[c] \in Seq(Msgs) /\ batch[c] # <<>> /\ Lined(c)
  BY LinedStages DEF Lined, IInv, MsgInv, MsgTypes
<1>5. Head(batch[c]) \in ToSet(batch[c])
  BY <1>4, TailElements
<1>6. rank[Head(batch[c])] < rank[n]
  BY <1>3, <1>4, <1>5 DEF InLine, Before
<1>7. n \in Msgs /\ Head(batch[c]) \in Msgs
  BY <1>3, <1>4, <1>5, ElementsAreMsgs DEF IInv, MsgInv, MsgTypes
<1> QED BY <1>6, <1>7

\* The numbering and the order hold from the start.
LEMMA InitInLine == Init => Numbered /\ InLine
<1> SUFFICES ASSUME Init PROVE Numbered /\ InLine
  OBVIOUS
<1>1. Ranked = {} /\ rank \in [Msgs -> Nat] /\ \A m \in Msgs : rank[m] = 0
  BY DEF Init, Ranked
<1>2. IsFiniteSet({}) /\ Cardinality({}) = 0
  BY FS_EmptySet
<1>3. \A c \in Chains : batch[c] = <<>> /\ stage[c] = "idle"
  BY DEF Init
<1>4. Numbered
  <2>1. Unqueued
    BY DEF Init, Unqueued, Origins
  <2> QED BY <1>1, <1>2, <1>3, <2>1, ShortElements DEF Numbered, SendStages
<1>5. \A c \in Chains : ~Lined(c)
  BY <1>3, EmptySeq DEF Lined
<1>6. Increasing(rank, queue)
  BY IncreasingShort DEF Init
<1>7. InLine
  BY <1>5, <1>6 DEF InLine
<1> QED BY <1>4, <1>7

\* Every step keeps the numbering, a steer too.
LEMMA NextNumbered == IInv /\ Numbered /\ [Next]_vars => Numbered'
<1> SUFFICES ASSUME IInv, Numbered, [Next]_vars PROVE Numbered'
  OBVIOUS
<1>1. CASE Next
  BY <1>1, NextQueue, LinesNumber
<1>2. CASE UNCHANGED vars
  BY <1>2 DEF vars, chainVars, rowVars, Numbered, Unqueued, Ranked
<1> QED BY <1>1, <1>2

\* Drained messages start in the order in which they were queued, whatever was
\* requeued, restored, deleted or discarded in between: what a drain goes on
\* with is older than all that is queued.  Only a steer changes the order
\* (requeueDrainedMessages' unshifts, dispatchDrainWithRestore).
THEOREM OnlyASteerReorders ==
  Spec /\ [][\A m \in Msgs : ~SteerToMessage(m)]_vars => StartsInOrder
<1> DEFINE NoSteer == \A m \in Msgs : ~SteerToMessage(m)
           Starts == \A c \in Chains :
                       stage[c] = "resolving" /\ stage'[c] \in {"persisting", "slashing"}
                         => \A n \in ToSet(queue') : rank[n] > rank[Head(batch[c])]
<1>1. IInv /\ Numbered /\ InLine /\ [Next]_vars /\ [NoSteer]_vars => InLine'
  <2> SUFFICES ASSUME IInv, Numbered, InLine, [Next]_vars, [NoSteer]_vars PROVE InLine'
    OBVIOUS
  <2>1. CASE UNCHANGED vars
    BY <2>1 DEF vars, queueVars, chainVars, rowVars, InLine, Lined
  <2>2. CASE Next /\ NoSteer
    BY <2>2, NextQueue, LinesInLine
  <2> QED BY <2>1, <2>2
<1>2. IInv /\ InLine /\ [Next]_vars /\ [NoSteer]_vars => [Starts]_vars
  <2> SUFFICES ASSUME IInv, InLine, Next, NoSteer PROVE Starts
    OBVIOUS
  <2> QED BY NextQueue, LinesStartInOrder
<1> HIDE DEF NoSteer, Starts
<1>3. Spec /\ [][NoSteer]_vars => [][Starts]_vars
  BY InitQueue, NextQueue, InitInLine, NextNumbered, <1>1, <1>2, PTL DEF Spec
<1> QED BY <1>3 DEF NoSteer, Starts, StartsInOrder

\* Where users do not steer, messages start in the order of the queue: a
\* requeue never lets a later message pass (requeueDrainedMessages).
THEOREM QueueStartsInOrder ==
  ASSUME ~Interrupts
  PROVE  Spec => StartsInOrder
<1>1. \A m \in Msgs : ~SteerToMessage(m)
  BY DEF SteerToMessage
<1>2. [][\A m \in Msgs : ~SteerToMessage(m)]_vars
  BY <1>1, PTL
<1> QED BY <1>2, OnlyASteerReorders, PTL

----------------------------------------------------------------------------
(* The flag and whoever waits for it.                                      *)

\* The stages in which a chain may hold the flag, and those of an interrupt.
OwnStages == {"holding", "persisting", "running", "fencing", "mending"}
InterruptStages == {"interrupting", "unwound", "outlasting", "claiming", "fencing", "mending"}

\* The holder of the flag has work to do, and an interrupt waits for a flag
\* that is held.
FlagInv ==
  /\ owner # NoOne => stage[owner] \in OwnStages
  /\ \A c \in Chains : stage[c] = "interrupting" => owner # NoOne
  /\ ~InterruptOnSend => \A c \in Chains : stage[c] \notin InterruptStages

\* A step of c, or of none: the flag stays, is taken, or is freed with a word
\* to those who wait.
FlagMove(c) ==
  /\ Alike(c)
  /\ c \in Chains /\ stage'[c] \in InterruptStages
       => stage[c] \in InterruptStages \/ InterruptOnSend
  /\ \/ /\ owner' = owner
        /\ c \in Chains => /\ owner = c => stage'[c] \in OwnStages
                           /\ stage'[c] = "interrupting" => owner # NoOne
     \/ owner' = c /\ c \in Chains /\ stage'[c] \in OwnStages
     \/ owner' = NoOne /\ \A d \in Chains : stage'[d] # "interrupting"

\* Such a step keeps what is said of the flag.
LEMMA FlagMoveKeeps ==
  ASSUME IInv, FlagInv, NEW c \in Chains \cup {NoOne}, FlagMove(c)
  PROVE  FlagInv'
<1>1. owner \in Chains \cup {NoOne}
  BY DEF IInv, ChainInv, ChainTypes
<1>2. \A d \in Chains : d # c =>
        /\ stage[d] \in OwnStages => stage'[d] \in OwnStages
        /\ stage'[d] = "interrupting" => stage[d] = "interrupting"
        /\ stage'[d] \in InterruptStages => stage[d] \in InterruptStages
  BY DEF FlagMove, Alike, OwnStages, InterruptStages
<1>3. ~InterruptOnSend => \A d \in Chains : stage'[d] \notin InterruptStages
  BY <1>2 DEF FlagMove, FlagInv
<1>4. CASE /\ owner' = owner
           /\ c \in Chains => /\ owner = c => stage'[c] \in OwnStages
                              /\ stage'[c] = "interrupting" => owner # NoOne
  BY <1>1, <1>2, <1>3, <1>4 DEF FlagInv
<1>5. CASE owner' = c /\ c \in Chains /\ stage'[c] \in OwnStages
  BY <1>3, <1>5, QueueAssumption DEF FlagInv
<1>6. CASE owner' = NoOne /\ \A d \in Chains : stage'[d] # "interrupting"
  BY <1>3, <1>6 DEF FlagInv
<1> QED BY <1>4, <1>5, <1>6 DEF FlagMove

\* A chain whose work needs no flag does not hold it.
LEMMA NotOwner ==
  ASSUME FlagInv, NEW c \in Chains, stage[c] \notin OwnStages
  PROVE  owner # c
BY QueueAssumption DEF FlagInv

\* Nobody waits for a flag that was freed.
LEMMA Notified ==
  ASSUME IInv, NEW c \in Chains, NEW next, next # "interrupting",
         stage' = [NotifyIdle(stage) EXCEPT ![c] = next]
  PROVE  \A d \in Chains : stage'[d] # "interrupting"
BY DEF NotifyIdle

\* A chain that gives back its own claim.
LEMMA ReleasedFlag ==
  ASSUME IInv, FlagInv, NEW c \in Chains, NEW next, Alike(c), stage'[c] = next,
         next \notin InterruptStages, stage' = [AmongReleased(c) EXCEPT ![c] = next],
         owner' = IF owner = c THEN NoOne ELSE owner
  PROVE  FlagMove(c)
<1>1. next # "interrupting"
  BY DEF InterruptStages
<1>2. CASE owner = c
  <2>1. \A d \in Chains : stage'[d] # "interrupting"
    BY <1>1, <1>2, Notified DEF AmongReleased
  <2> QED BY <1>2, <2>1 DEF FlagMove
<1>3. CASE owner # c
  BY <1>1, <1>3 DEF FlagMove
<1> QED BY <1>2, <1>3

\* A chain that leaves the flag alone.
LEMMA UntouchedFlag ==
  ASSUME IInv, FlagInv, NEW c \in Chains, Alike(c), owner' = owner,
         stage'[c] = "interrupting" => owner # NoOne,
         stage'[c] \in InterruptStages => stage[c] \in InterruptStages \/ InterruptOnSend,
         stage[c] \in OwnStages => stage'[c] \in OwnStages
  PROVE  FlagMove(c)
BY NotOwner DEF FlagMove

\* A message that is queued, or refused, leaves its chain without the flag.
LEMMA EnqueueElseRests ==
  ASSUME IInv, NEW c \in Chains, NEW f, LikeStage(f), NEW m, NEW refused \in {"idle", "drain"},
         EnqueueElse(c, f, m, refused)
  PROVE  \E next \in {refused, "queued"} :
           Alike(c) /\ stage'[c] = next /\ stage' = [f EXCEPT ![c] = next]
<1>1. PICK next \in {refused, "queued"} : RestAmong(c, f, next)
  BY DEF EnqueueElse
<1>2. next \notin SendStages /\ next # "resolving"
  BY DEF SendStages
<1>3. Alike(c) /\ stage'[c] = next
  BY <1>1, <1>2, RestsUnlined
<1> QED BY <1>1, <1>3 DEF RestAmong

LEMMA EnqueueRests ==
  ASSUME IInv, NEW c \in Chains, NEW f, LikeStage(f), NEW m, EnqueueAmong(c, f, m)
  PROVE  \E next \in {"idle", "queued"} :
           Alike(c) /\ stage'[c] = next /\ stage' = [f EXCEPT ![c] = next]
BY EnqueueElseRests DEF EnqueueAmong

\* Sends.
LEMMA SendFlags ==
  ASSUME IInv, FlagInv, NEW c \in Chains,
         CompleteSend(c) \/ \E m \in Msgs : SendMessage(c, m)
  PROVE  FlagMove(c)
<1>1. /\ LikeStage(stage) /\ stage[c] \in {"sending", "idle"} /\ stage[c] \notin OwnStages
      /\ stage \in [Chains -> Stages]
  BY LikeItself DEF CompleteSend, SendMessage, OwnStages, IInv, ChainInv, ChainTypes
<1>2. Alike(c)
  BY CompleteSendLines, SendMessageLines DEF LineMove
<1>3. ASSUME NEW m, EnqueueMessage(c, m), UNCHANGED lockVars PROVE FlagMove(c)
  <2>1. stage'[c] \in {"idle", "queued"}
    BY <1>1, <1>3, EnqueueRests DEF EnqueueMessage
  <2>2. stage'[c] \notin InterruptStages /\ owner' = owner
    BY <1>3, <2>1 DEF InterruptStages, lockVars
  <2> QED BY <1>1, <1>2, <2>1, <2>2, UntouchedFlag
<1>4. CASE CompleteSend(c) /\ ~isProcessing
  <2>1. owner' = c /\ stage'[c] \in {"holding", "persisting"}
    BY <1>1, <1>4 DEF CompleteSend
  <2>2. stage'[c] \in OwnStages /\ stage'[c] \notin InterruptStages
    BY <2>1 DEF OwnStages, InterruptStages
  <2> QED BY <1>2, <2>1, <2>2 DEF FlagMove
<1>5. ASSUME NEW m, Accept(c, m, "sending"), UNCHANGED lockVars PROVE FlagMove(c)
  <2>1. stage'[c] = "sending" /\ owner' = owner
    BY <1>1, <1>5 DEF Accept, lockVars
  <2>2. stage'[c] \notin InterruptStages /\ stage'[c] # "interrupting"
    BY <2>1 DEF InterruptStages
  <2> QED BY <1>1, <1>2, <2>1, <2>2, UntouchedFlag
<1>6. ASSUME NEW m, Accept(c, m, "interrupting"), UNCHANGED owner, isProcessing,
             MayInterrupt(m)
      PROVE  FlagMove(c)
  <2>1. owner # NoOne /\ InterruptOnSend
    BY <1>6 DEF isProcessing, MayInterrupt
  <2> QED BY <1>1, <1>2, <1>6, <2>1, UntouchedFlag
<1>7. CASE CompleteSend(c) /\ isProcessing
  BY <1>3, <1>7 DEF CompleteSend
<1>8. ASSUME NEW m \in Msgs, SendMessage(c, m) PROVE FlagMove(c)
  BY <1>3, <1>5, <1>6, <1>8 DEF SendMessage
<1> QED BY <1>4, <1>7, <1>8

\* interruptRunningTurn, after its abort.
LEMMA InterruptFlags ==
  ASSUME IInv, FlagInv, NEW c \in Chains,
         \/ InterruptUnwound(c) \/ InterruptFencePass(c) \/ InterruptRepaired(c)
         \/ InterruptBusy(c) \/ InterruptClaim(c) \/ InterruptFails(c)
  PROVE  FlagMove(c)
<1>1. /\ LikeStage(stage) /\ LikeStage(AmongReleased(c)) /\ stage \in [Chains -> Stages]
      /\ stage[c] \in InterruptStages
  BY LikeItself DEF InterruptUnwound, InterruptFencePass, InterruptRepaired,
     InterruptBusy, InterruptClaim, InterruptFails, InterruptStages,
     IInv, ChainInv, ChainTypes
<1>2. Alike(c)
  BY InterruptLines DEF LineMove
<1>3. CASE InterruptUnwound(c)
  <2>1. stage'[c] \in {"claiming", "outlasting"} /\ owner' = owner /\ stage[c] = "unwound"
    BY <1>1, <1>3 DEF InterruptUnwound, lockVars
  <2> QED BY <1>1, <1>2, <2>1, UntouchedFlag DEF OwnStages
<1>4. CASE InterruptFencePass(c)
  <2>1. stage'[c] = "mending" /\ owner' = owner
    BY <1>1, <1>4 DEF InterruptFencePass, lockVars
  <2> QED BY <1>1, <1>2, <2>1, UntouchedFlag DEF OwnStages
<1>5. CASE InterruptRepaired(c)
  <2>1. /\ stage' = [AmongReleased(c) EXCEPT ![c] = "sending"] /\ stage'[c] = "sending"
        /\ owner' = IF owner = c THEN NoOne ELSE owner
    BY <1>1, <1>5 DEF InterruptRepaired, ReleaseInterrupt, LikeStage
  <2>2. "sending" \notin InterruptStages
    BY DEF InterruptStages
  <2> QED BY <1>2, <2>1, <2>2, ReleasedFlag
<1>6. CASE InterruptClaim(c) /\ ~isProcessing
  <2>1. owner' = c /\ stage'[c] = "fencing"
    BY <1>1, <1>6 DEF InterruptClaim
  <2> QED BY <1>1, <1>2, <2>1 DEF FlagMove, OwnStages
<1>7. CASE InterruptBusy(c) \/ (InterruptClaim(c) /\ isProcessing)
  <2>1. stage[c] \notin OwnStages /\ owner' = owner
    BY <1>7 DEF InterruptBusy, InterruptClaim, OwnStages, lockVars
  <2>2. EnqueueAmong(c, stage, Head(batch[c]))
    BY <1>7 DEF InterruptBusy, InterruptClaim, EnqueueMessage
  <2>3. stage'[c] \in {"idle", "queued"}
    BY <1>1, <2>2, EnqueueRests
  <2> QED BY <1>1, <1>2, <2>1, <2>3, UntouchedFlag
<1>8. CASE InterruptFails(c)
  <2>1. /\ EnqueueAmong(c, AmongReleased(c), Head(batch[c]))
        /\ owner' = IF owner = c THEN NoOne ELSE owner
    BY <1>8 DEF InterruptFails, ReleaseInterrupt
  <2>2. PICK next \in {"idle", "queued"} :
          stage'[c] = next /\ stage' = [AmongReleased(c) EXCEPT ![c] = next]
    BY <1>1, <2>1, EnqueueRests
  <2>3. next \notin InterruptStages
    BY DEF InterruptStages
  <2> QED BY <1>2, <2>1, <2>2, <2>3, ReleasedFlag
<1> QED BY <1>3, <1>4, <1>5, <1>6, <1>7, <1>8

\* A hand-over that throws gives its claim back.
LEMMA HandoverFlags ==
  ASSUME IInv, FlagInv, NEW c \in Chains, HandoverFails(c)
  PROVE  FlagMove(c)
<1> DEFINE to == IF stage[c] = "holding" THEN "drain" ELSE "idle"
<1>1. PICK m \in Msgs : EnqueueElse(c, AmongReleased(c), m, to)
  BY DEF HandoverFails
<1>2. /\ to \in {"idle", "drain"} /\ LikeStage(AmongReleased(c))
      /\ owner' = IF owner = c THEN NoOne ELSE owner
  BY LikeItself DEF HandoverFails
<1> HIDE DEF to
<1>3. PICK next \in {to, "queued"} :
        Alike(c) /\ stage'[c] = next /\ stage' = [AmongReleased(c) EXCEPT ![c] = next]
  BY <1>1, <1>2, EnqueueElseRests
<1>4. next \notin InterruptStages
  BY <1>2, <1>3 DEF InterruptStages
<1> QED BY <1>2, <1>3, <1>4, ReleasedFlag

\* The drain, and the steps of a chain that has no flag to lose.
LEMMA DrainFlags ==
  ASSUME IInv, FlagInv, NEW c \in Chains, LineMove(c),
         \/ QueueSendKick(c) \/ DrainQueue(c) \/ RepairDone(c) \/ RepairFails(c)
         \/ DispatchThrows(c) \/ ResolveSlash(c) \/ SlashDone(c) \/ TurnFinally(c)
  PROVE  FlagMove(c)
<1>1. Alike(c) /\ stage \in [Chains -> Stages]
  BY DEF LineMove, IInv, ChainInv, ChainTypes
<1>2. stage[c] \notin OwnStages
  BY DEF QueueSendKick, DrainQueue, RepairDone, RepairFails, DispatchThrows, ResolveSlash,
         SlashDone, TurnFinally, OwnStages
<1>3. CASE ResolveSlash(c) /\ owner' = c /\ stage' = [stage EXCEPT ![c] = "persisting"]
  BY <1>1, <1>3 DEF FlagMove, OwnStages, InterruptStages
<1>4. CASE owner' = owner /\ stage'[c] \notin InterruptStages
  <2>1. stage'[c] # "interrupting"
    BY <1>4 DEF InterruptStages
  <2> QED BY <1>1, <1>2, <1>4, <2>1, UntouchedFlag
<1>5. CASE QueueSendKick(c)
  <2>1. owner' = owner /\ stage'[c] \in {"idle", "drain", "awaiting"}
    BY <1>1, <1>5 DEF QueueSendKick, Rest, RestAmong, lockVars
  <2> QED BY <1>4, <2>1 DEF InterruptStages
<1>6. CASE RepairFails(c) \/ DispatchThrows(c)
  <2>1. owner' = owner /\ stage'[c] \in {"idle", "drain"}
    BY <1>1, <1>6 DEF RepairFails, DispatchThrows, DrainRejected, lockVars
  <2> QED BY <1>4, <2>1 DEF InterruptStages
<1>7. CASE SlashDone(c)
  <2>1. owner' = owner /\ stage'[c] = "drain"
    BY <1>1, <1>7 DEF SlashDone, lockVars
  <2> QED BY <1>4, <2>1 DEF InterruptStages
<1>8. CASE TurnFinally(c)
  <2>1. owner' = owner /\ stage'[c] = "drain"
    BY <1>1, <1>8 DEF TurnFinally, Settled
  <2> QED BY <1>4, <2>1 DEF InterruptStages
<1>9. CASE DrainQueue(c) \/ RepairDone(c)
  <2>1. owner' = owner
    BY <1>9 DEF DrainQueue, RepairDone, lockVars
  <2>2. ASSUME NEW st, DrainTake(c, st) PROVE stage'[c] \in {"idle", "resolving"}
    BY <1>1, <2>2 DEF DrainTake, Rest, RestAmong
  <2>3. stage'[c] \in {"idle", "resolving", "repairing", "repairingDurable"}
    BY <1>1, <1>9, <2>2 DEF DrainQueue, RepairDone
  <2> QED BY <1>4, <2>1, <2>3 DEF InterruptStages
<1>10. CASE ResolveSlash(c) /\ ~(owner' = c /\ stage' = [stage EXCEPT ![c] = "persisting"])
  <2>1. owner' = owner /\ stage'[c] \in {"idle", "slashing"}
    BY <1>1, <1>10 DEF ResolveSlash, Rest, RestAmong, lockVars
  <2> QED BY <1>4, <2>1 DEF InterruptStages
<1> QED BY <1>3, <1>5, <1>6, <1>7, <1>8, <1>9, <1>10

\* The turn, and the hold.
LEMMA TurnFlags ==
  ASSUME IInv, FlagInv, NEW c \in Chains, LineMove(c),
         \/ PersistDone(c) \/ HeadSkipped(c) \/ TailSkipped(c)
         \/ ReleaseTurn(c) \/ ReleaseHold(c)
  PROVE  FlagMove(c)
<1>1. /\ Alike(c) /\ stage \in [Chains -> Stages]
      /\ LikeStage(AmongReleased(c)) /\ LikeStage(NotifyIdle(stage))
      /\ LikeStage(Settled(stage))
  BY LikeItself DEF LineMove, IInv, ChainInv, ChainTypes
<1>2. CASE PersistDone(c) \/ TailSkipped(c)
  <2>1. stage'[c] \in {"persisting", "running"} /\ owner' = owner
    BY <1>1, <1>2 DEF PersistDone, TailSkipped, StartLoop, LikeStage
  <2>2. stage'[c] \in OwnStages /\ stage'[c] \notin InterruptStages
        /\ stage'[c] # "interrupting"
    BY <2>1 DEF OwnStages, InterruptStages
  <2> QED BY <1>1, <2>1, <2>2, UntouchedFlag
<1>3. CASE HeadSkipped(c)
  <2>1. PICK next \in {"resolving", "drain", "idle"} :
          stage' = [AmongReleased(c) EXCEPT ![c] = next]
    BY <1>3 DEF HeadSkipped
  <2>2. /\ owner' = IF owner = c THEN NoOne ELSE owner
        /\ stage'[c] = next /\ next \notin InterruptStages
    BY <1>1, <1>3, <2>1 DEF HeadSkipped, InterruptStages, LikeStage
  <2> QED BY <1>1, <2>1, <2>2, ReleasedFlag
<1>4. CASE ReleaseTurn(c)
  <2>1. /\ stage' = [NotifyIdle(stage) EXCEPT ![c] = "finalizing"]
        /\ stage'[c] = "finalizing" /\ owner' = NoOne
    BY <1>1, <1>4 DEF ReleaseTurn, RestAmong, LikeStage
  <2>2. \A d \in Chains : stage'[d] # "interrupting"
    BY <2>1, Notified
  <2> QED BY <1>1, <2>1, <2>2 DEF FlagMove, InterruptStages
<1>5. CASE ReleaseHold(c)
  <2>1. /\ stage' = [AmongReleased(c) EXCEPT ![c] = "drain"]
        /\ stage'[c] = "drain" /\ owner' = IF owner = c THEN NoOne ELSE owner
    BY <1>1, <1>5 DEF ReleaseHold, RestAmong, LikeStage
  <2>2. "drain" \notin InterruptStages
    BY DEF InterruptStages
  <2> QED BY <1>1, <2>1, <2>2, ReleasedFlag
<1> QED BY <1>2, <1>3, <1>4, <1>5

\* Stop, steer and teardown.
LEMMA KickFlags ==
  ASSUME IInv, FlagInv, NEW kick, KickDrain(kick), SignalOrClear
  PROVE  \E c \in Chains \cup {NoOne} : FlagMove(c)
<1>1. /\ LikeStage(AmongCleared) /\ stage \in [Chains -> Stages]
      /\ owner' = IF abortController = "none" THEN NoOne ELSE owner
  BY LikeItself DEF SignalOrClear, IInv, ChainInv, ChainTypes
<1>2. abortController = "none" => \A d \in Chains : AmongCleared[d] # "interrupting"
  <2>1. CASE isProcessing
    BY <2>1 DEF AmongCleared, NotifyIdle
  <2>2. CASE ~isProcessing
    BY <2>2 DEF AmongCleared, isProcessing, FlagInv
  <2> QED BY <2>1, <2>2
<1>3. ASSUME NEW c \in Chains, stage[c] = "idle", RestAmong(c, AmongCleared, "drain")
      PROVE  FlagMove(c)
  <2>1. "drain" \notin SendStages /\ stage[c] \notin OwnStages /\ "drain" \notin InterruptStages
    BY <1>3 DEF SendStages, OwnStages, InterruptStages
  <2>2. Alike(c) /\ stage'[c] = "drain" /\ stage' = [AmongCleared EXCEPT ![c] = "drain"]
    BY <1>1, <1>3, <2>1, RestsUnlined DEF RestAmong
  <2>3. CASE abortController = "none"
    <3>1. \A d \in Chains : stage'[d] # "interrupting"
      BY <1>1, <1>2, <2>2, <2>3 DEF LikeStage
    <3> QED BY <1>1, <2>1, <2>2, <2>3, <3>1 DEF FlagMove
  <2>4. CASE abortController # "none"
    BY <1>1, <2>1, <2>2, <2>4, UntouchedFlag
  <2> QED BY <2>3, <2>4
<1>4. CASE stage' = AmongCleared /\ UNCHANGED <<batch, turn>>
  <2>1. Alike(NoOne)
    BY <1>1, <1>4 DEF Alike, LikeStage
  <2>2. FlagMove(NoOne)
    BY <1>1, <1>2, <1>4, <2>1, QueueAssumption DEF FlagMove
  <2> QED BY <2>2
<1> QED BY <1>3, <1>4 DEF KickDrain

\* Every step keeps the holder of the flag at work.
LEMMA NextFlags ==
  ASSUME IInv, FlagInv, Next
  PROVE  FlagInv'
<1> SUFFICES \E c \in Chains \cup {NoOne} : FlagMove(c)
  BY FlagMoveKeeps
<1>1. CASE Microtasks
  <2>1. PICK c \in Chains :
          \/ CompleteSend(c) \/ ResolveSlash(c) \/ DispatchThrows(c)
          \/ InterruptUnwound(c) \/ InterruptClaim(c)
    BY <1>1, Zenon DEF Microtasks
  <2>2. FlagMove(c)
    BY <2>1, SendFlags, DispatchLines, DrainFlags, InterruptFlags, Zenon
  <2> QED BY <2>2
<1>2. CASE Tasks
  <2>0. \A d \in Chains : stage[d] # "resolving"
    BY <1>2, Zenon DEF Tasks
  <2>1. ASSUME NEW c \in Chains,
               \/ QueueSendKick(c) \/ ReleaseHold(c)
               \/ DrainQueue(c) \/ RepairDone(c) \/ RepairFails(c) \/ SlashDone(c)
               \/ PersistDone(c) \/ HeadSkipped(c) \/ TailSkipped(c)
               \/ ReleaseTurn(c) \/ TurnFinally(c)
               \/ InterruptBusy(c) \/ InterruptFencePass(c)
               \/ InterruptRepaired(c) \/ InterruptFails(c) \/ HandoverFails(c)
        PROVE  FlagMove(c)
    <3>1. LineMove(c)
      BY <2>0, <2>1, RestLines, DrainLines, DispatchLines, PersistLines, CommitLines,
         InterruptLines, HandoverLines, Zenon
    <3> QED BY <2>1, <3>1, DrainFlags, TurnFlags, InterruptFlags, HandoverFlags, Zenon
  <2>2. ASSUME NEW c \in Chains, NEW m \in Msgs, SendMessage(c, m) PROVE FlagMove(c)
    BY <2>2, SendFlags
  <2>3. CASE OutstandingCommitSettles
    <3>1. Alike(NoOne) /\ owner' = owner
      BY <2>3, CommitLines DEF LineMove, OutstandingCommitSettles
    <3>2. FlagMove(NoOne)
      BY <3>1, QueueAssumption DEF FlagMove
    <3> QED BY <3>2
  <2>4. CASE UserInterrupt \/ DiscardQueueOnAbort \/ \E m \in Msgs : SteerToMessage(m)
    <3>1. SignalOrClear /\ \E kick : KickDrain(kick)
      BY <2>4 DEF UserInterrupt, DiscardQueueOnAbort, SteerToMessage
    <3> QED BY <3>1, KickFlags
  <2>5. ASSUME NEW m \in Msgs, DeleteQueuedMessage(m) PROVE FlagMove(NoOne)
    <3>1. Alike(NoOne) /\ owner' = owner
      BY <2>5 DEF DeleteQueuedMessage, Alike, chainVars, lockVars
    <3> QED BY <3>1, QueueAssumption DEF FlagMove
  <2> QED BY <1>2, <2>1, <2>2, <2>3, <2>4, <2>5, Zenon DEF Tasks
<1> QED BY <1>1, <1>2 DEF Next

----------------------------------------------------------------------------
(* What is queued behind an idle conversation.                             *)

AllIdle == \A c \in Chains : stage[c] = "idle"

\* The two ways in which the last chain leaves a queue behind and tells nobody:
\* a send whose own persist fails or is a repeat gives the flag back and kicks
\* no drain; the message of an interrupt that came to nothing is refused.
Strands(c) ==
  \/ HeadSkipped(c) /\ origin[c] # "drain"
  \/ /\ InterruptBusy(c) \/ InterruptFails(c) \/ HandoverFails(c)
     /\ outcome'[Head(batch[c])] = "rejected"

\* The step leaves no message behind, or was taken by a chain that was idle
\* and leaves no more than there was.
Minds ==
  \/ queue' = <<>> \/ ~AllIdle' \/ ToSet(queue') \subseteq stalled'
  \/ AllIdle /\ queue # <<>> /\ ToSet(queue') \subseteq ToSet(queue) /\ stalled' = stalled
  \/ \E c \in Chains : Strands(c)

\* Such a step strands nothing, but for the two.
LEMMA MindsKeeps ==
  ASSUME NothingStranded, Minds
  PROVE  NothingStranded' \/ \E c \in Chains : Strands(c)
BY DEF NothingStranded, Minds, AllIdle

\* A step that leaves a chain at work.
LEMMA BusyMinds ==
  ASSUME NEW c \in Chains, stage'[c] # "idle"
  PROVE  Minds
BY DEF Minds, AllIdle

\* A step that leaves the flag held.
LEMMA HeldMinds ==
  ASSUME IInv', FlagInv', owner' # NoOne
  PROVE  Minds
<1>1. ~AllIdle'
  <2>1. owner' \in Chains /\ stage'[owner'] \in OwnStages
    BY DEF IInv, ChainInv, ChainTypes, FlagInv
  <2> QED BY <2>1 DEF AllIdle, OwnStages
<1> QED BY <1>1 DEF Minds

\* Sends leave a flag held, or a chain at work.
LEMMA SendMinds ==
  ASSUME IInv, FlagInv, IInv', FlagInv', NEW c \in Chains,
         CompleteSend(c) \/ QueueSendKick(c) \/ \E m \in Msgs : SendMessage(c, m)
  PROVE  Minds
<1>1. stage \in [Chains -> Stages]
  BY DEF IInv, ChainInv, ChainTypes
<1>2. CASE owner' # NoOne
  BY <1>2, HeldMinds
<1>3. CASE owner' = NoOne /\ CompleteSend(c)
  <2>1. FALSE
    BY <1>3, QueueAssumption DEF CompleteSend, isProcessing, lockVars
  <2> QED BY <2>1
<1>4. CASE owner' = NoOne /\ QueueSendKick(c)
  <2>1. stage'[c] \in {"drain", "awaiting"}
    BY <1>1, <1>4 DEF QueueSendKick, Rest, RestAmong, isProcessing, lockVars
  <2> QED BY <2>1, BusyMinds
<1>5. ASSUME NEW m \in Msgs, SendMessage(c, m), owner' = NoOne PROVE Minds
  <2>1. stage'[c] = "sending"
    BY <1>1, <1>5 DEF SendMessage, Accept, isProcessing, lockVars
  <2> QED BY <2>1, BusyMinds
<1> QED BY <1>2, <1>3, <1>4, <1>5

\* An interrupt leaves its message in hand or in the queue, or strands.
LEMMA InterruptMinds ==
  ASSUME IInv, FlagInv, IInv', FlagInv', NEW c \in Chains,
         \/ InterruptUnwound(c) \/ InterruptFencePass(c) \/ InterruptRepaired(c)
         \/ InterruptBusy(c) \/ InterruptClaim(c) \/ InterruptFails(c) \/ HandoverFails(c)
  PROVE  Minds
<1>1. /\ LikeStage(stage) /\ LikeStage(AmongReleased(c)) /\ stage \in [Chains -> Stages]
      /\ outcome \in [Msgs -> Outcomes]
  BY LikeItself DEF IInv, MsgInv, MsgTypes, ChainInv, ChainTypes
<1>2. Head(batch[c]) \in Msgs
  <2>1. CASE HandoverFails(c)
    BY <2>1 DEF HandoverFails
  <2>2. CASE ~HandoverFails(c)
    <3>1. stage[c] \in SendStages
      BY <2>2 DEF InterruptUnwound, InterruptFencePass, InterruptRepaired,
         InterruptBusy, InterruptClaim, InterruptFails, SendStages
    <3> QED BY <3>1, SendHasOne
  <2> QED BY <2>1, <2>2
<1>3. CASE \/ InterruptUnwound(c) \/ InterruptFencePass(c) \/ InterruptRepaired(c)
           \/ InterruptClaim(c) /\ ~isProcessing
  <2>1. stage'[c] \in {"claiming", "outlasting", "mending", "sending", "fencing"}
    BY <1>1, <1>3 DEF InterruptUnwound, InterruptFencePass, InterruptRepaired,
                      InterruptClaim, LikeStage
  <2> QED BY <2>1, BusyMinds
<1>4. CASE InterruptClaim(c) /\ isProcessing
  <2>1. owner' # NoOne
    BY <1>4 DEF InterruptClaim, isProcessing, lockVars
  <2> QED BY <2>1, HeldMinds
<1>5. ASSUME NEW f, LikeStage(f), NEW refused, EnqueueElse(c, f, Head(batch[c]), refused),
             InterruptBusy(c) \/ InterruptFails(c) \/ HandoverFails(c)
      PROVE  Minds
  <2>1. CASE outcome' = [outcome EXCEPT ![Head(batch[c])] = "rejected"]
    <3>1. outcome'[Head(batch[c])] = "rejected"
      BY <1>1, <1>2, <2>1
    <3> QED BY <1>5, <3>1 DEF Minds, Strands
  <2>2. CASE RestAmong(c, f, "queued")
    <3>1. stage'[c] = "queued"
      BY <1>5, <2>2 DEF RestAmong, LikeStage
    <3> QED BY <3>1, BusyMinds
  <2> QED BY <1>5, <2>1, <2>2 DEF EnqueueElse
<1>6. CASE InterruptBusy(c)
  BY <1>1, <1>5, <1>6 DEF InterruptBusy, EnqueueMessage, EnqueueAmong
<1>7. CASE InterruptFails(c)
  BY <1>1, <1>5, <1>7 DEF InterruptFails, EnqueueAmong
<1>8. CASE HandoverFails(c)
  <2>1. PICK m \in Msgs, refused \in {"idle", "drain"} :
          batch[c] = <<m>> /\ EnqueueElse(c, AmongReleased(c), m, refused)
    BY <1>8 DEF HandoverFails
  <2>2. m = Head(batch[c])
    BY <2>1
  <2> QED BY <1>1, <1>5, <1>8, <2>1, <2>2
<1> QED BY <1>3, <1>4, <1>6, <1>7, <1>8

\* A drain ends on an empty queue, on a held flag, or with word to the senders.
LEMMA DrainMinds ==
  ASSUME IInv, FlagInv, IInv', FlagInv', NEW c \in Chains,
         \/ DrainQueue(c) \/ RepairDone(c) \/ RepairFails(c) \/ DispatchThrows(c)
         \/ ResolveSlash(c) \/ SlashDone(c)
  PROVE  Minds
<1>1. stage \in [Chains -> Stages]
  BY DEF IInv, ChainInv, ChainTypes
<1>2. CASE stage'[c] # "idle"
  BY <1>2, BusyMinds
<1>3. CASE owner' # NoOne
  BY <1>3, HeldMinds
<1>4. CASE owner' = NoOne /\ stage'[c] = "idle" /\ (DrainQueue(c) \/ RepairDone(c))
  <2>1. ASSUME NEW st, DrainTake(c, st), owner' = owner PROVE queue' = <<>>
    BY <1>1, <1>4, <2>1 DEF DrainTake, isProcessing, queueVars
  <2>2. queue' = <<>>
    BY <1>1, <1>4, <2>1 DEF DrainQueue, RepairDone, lockVars
  <2> QED BY <2>2 DEF Minds
<1>5. CASE stage'[c] = "idle" /\ (RepairFails(c) \/ DispatchThrows(c))
  <2>1. DrainRejected(c)
    BY <1>5 DEF RepairFails, DispatchThrows
  <2>2. stalled' = stalled \cup ToSet(queue')
    BY <1>1, <1>5, <2>1 DEF DrainRejected
  <2> QED BY <2>2 DEF Minds
<1>6. CASE ResolveSlash(c) /\ owner' = NoOne /\ stage'[c] = "idle"
  <2>1. FALSE
    BY <1>1, <1>6 DEF ResolveSlash, isProcessing, lockVars
  <2> QED BY <2>1
<1>7. CASE SlashDone(c) /\ stage'[c] = "idle"
  <2>1. FALSE
    BY <1>1, <1>7 DEF SlashDone
  <2> QED BY <2>1
<1> QED BY <1>2, <1>3, <1>4, <1>5, <1>6, <1>7

\* A turn leaves a chain at work, or strands.
LEMMA TurnMinds ==
  ASSUME IInv, NEW c \in Chains,
         \/ PersistDone(c) \/ HeadSkipped(c) \/ TailSkipped(c)
         \/ ReleaseTurn(c) \/ ReleaseHold(c) \/ TurnFinally(c)
  PROVE  Minds
<1>1. /\ stage \in [Chains -> Stages]
      /\ LikeStage(AmongReleased(c)) /\ LikeStage(NotifyIdle(stage))
      /\ LikeStage(Settled(stage))
  BY LikeItself DEF IInv, ChainInv, ChainTypes
<1>2. CASE PersistDone(c) \/ TailSkipped(c)
  <2>1. stage'[c] \in {"persisting", "running"}
    BY <1>1, <1>2 DEF PersistDone, TailSkipped, StartLoop, LikeStage
  <2> QED BY <2>1, BusyMinds
<1>3. CASE ReleaseTurn(c) \/ ReleaseHold(c)
  <2>1. stage'[c] \in {"finalizing", "drain"}
    BY <1>1, <1>3 DEF ReleaseTurn, ReleaseHold, RestAmong, LikeStage
  <2> QED BY <2>1, BusyMinds
<1>4. CASE TurnFinally(c)
  <2>1. stage'[c] = "drain"
    BY <1>1, <1>4 DEF TurnFinally, Settled
  <2> QED BY <2>1, BusyMinds
<1>5. CASE HeadSkipped(c) /\ origin[c] # "drain"
  BY <1>5 DEF Minds, Strands
<1>6. CASE HeadSkipped(c) /\ origin[c] = "drain"
  <2>1. stage'[c] \in {"resolving", "drain"}
    BY <1>1, <1>6 DEF HeadSkipped, LikeStage
  <2> QED BY <2>1, BusyMinds
<1> QED BY <1>2, <1>3, <1>4, <1>5, <1>6

\* What is not the step of a chain leaves the others where they were.
LEMMA UserMinds ==
  ASSUME IInv, IInv', FlagInv',
         \/ OutstandingCommitSettles \/ UserInterrupt \/ DiscardQueueOnAbort
         \/ \E m \in Msgs : SteerToMessage(m) \/ DeleteQueuedMessage(m)
  PROVE  Minds
<1>1. /\ stage \in [Chains -> Stages] /\ queue \in Seq(Msgs) /\ IsInjective(queue)
      /\ LikeStage(AmongCleared) /\ LikeStage(Settled(stage))
  BY LikeItself DEF IInv, MsgInv, MsgTypes, HeldOnce, ChainInv, ChainTypes
<1>2. ASSUME NEW f, LikeStage(f), stage' = f, AllIdle' PROVE AllIdle
  BY <1>2 DEF LikeStage, AllIdle
<1>3. CASE OutstandingCommitSettles
  <2>1. stage' = Settled(stage) /\ queue' = queue /\ stalled' = stalled
    BY <1>3 DEF OutstandingCommitSettles, queueVars, rowVars
  <2>2. AllIdle' => AllIdle
    BY <1>1, <1>2, <2>1
  <2> QED BY <2>1, <2>2 DEF Minds
<1>4. CASE UserInterrupt
  <2>1. queue' = queue /\ stalled' = stalled
    BY <1>4 DEF UserInterrupt, queueVars, rowVars
  <2>2. CASE stage' = AmongCleared
    <3>1. AllIdle' => AllIdle
      BY <1>1, <1>2, <2>2
    <3> QED BY <2>1, <3>1 DEF Minds
  <2>3. ASSUME NEW c \in Chains, RestAmong(c, AmongCleared, "drain") PROVE Minds
    <3>1. stage'[c] = "drain"
      BY <1>1, <2>3 DEF RestAmong, LikeStage
    <3> QED BY <3>1, BusyMinds
  <2> QED BY <1>4, <2>2, <2>3 DEF UserInterrupt, KickDrain
<1>5. CASE DiscardQueueOnAbort
  BY <1>5 DEF DiscardQueueOnAbort, Minds
<1>6. ASSUME NEW m \in Msgs, SteerToMessage(m) PROVE Minds
  <2>1. CASE abortController # "none"
    <3>1. owner' # NoOne
      BY <1>6, <2>1 DEF SteerToMessage, SignalOrClear, isProcessing
    <3> QED BY <3>1, HeldMinds
  <2>2. CASE abortController = "none"
    <3>1. PICK c \in Chains : RestAmong(c, AmongCleared, "drain")
      BY <1>6, <2>2 DEF SteerToMessage, KickDrain
    <3>2. stage'[c] = "drain"
      BY <1>1, <3>1 DEF RestAmong, LikeStage
    <3> QED BY <3>2, BusyMinds
  <2> QED BY <2>1, <2>2
<1>7. ASSUME NEW m \in Msgs, DeleteQueuedMessage(m) PROVE Minds
  <2>1. /\ m \in ToSet(queue) /\ queue' = Spliced(m) /\ stalled' = stalled /\ stage' = stage
    BY <1>7 DEF DeleteQueuedMessage, chainVars
  <2>2. ToSet(queue') \subseteq ToSet(queue)
    BY <1>1, <2>1, SplicedElements
  <2>3. queue # <<>>
    BY <2>1, ShortElements
  <2> QED BY <2>1, <2>2, <2>3 DEF Minds, AllIdle
<1> QED BY <1>3, <1>4, <1>5, <1>6, <1>7

\* Every step is such a step.
LEMMA NextMinds ==
  ASSUME IInv, FlagInv, IInv', FlagInv', Next
  PROVE  Minds
<1>1. CASE Microtasks
  BY <1>1, SendMinds, DrainMinds, InterruptMinds, Zenon DEF Microtasks
<1>2. CASE Tasks
  <2>1. ASSUME NEW c \in Chains,
               \/ QueueSendKick(c) \/ ReleaseHold(c)
               \/ DrainQueue(c) \/ RepairDone(c) \/ RepairFails(c) \/ SlashDone(c)
               \/ PersistDone(c) \/ HeadSkipped(c) \/ TailSkipped(c)
               \/ ReleaseTurn(c) \/ TurnFinally(c)
               \/ InterruptBusy(c) \/ InterruptFencePass(c)
               \/ InterruptRepaired(c) \/ InterruptFails(c) \/ HandoverFails(c)
        PROVE  Minds
    BY <2>1, SendMinds, DrainMinds, TurnMinds, InterruptMinds, Zenon
  <2>2. ASSUME NEW c \in Chains, NEW m \in Msgs, SendMessage(c, m) PROVE Minds
    BY <2>2, SendMinds
  <2>3. CASE \/ OutstandingCommitSettles \/ UserInterrupt \/ DiscardQueueOnAbort
             \/ \E m \in Msgs : SteerToMessage(m) \/ DeleteQueuedMessage(m)
    BY <2>3, UserMinds, Zenon
  <2> QED BY <1>2, <2>1, <2>2, <2>3, Zenon DEF Tasks
<1> QED BY <1>1, <1>2 DEF Next

\* The flag is free at the start, and every step keeps what is said of it.
LEMMA FlagInductive ==
  /\ Init => FlagInv
  /\ IInv /\ FlagInv /\ [Next]_vars => FlagInv'
<1>1. Init => FlagInv
  BY DEF Init, FlagInv, InterruptStages
<1>2. ASSUME IInv, FlagInv, [Next]_vars PROVE FlagInv'
  <2>1. CASE Next
    BY <1>2, <2>1, NextFlags
  <2>2. CASE UNCHANGED vars
    BY <1>2, <2>2 DEF FlagInv, vars, lockVars, chainVars
  <2> QED BY <1>2, <2>1, <2>2
<1> QED BY <1>1, <1>2

\* A step leaves messages queued behind an idle conversation, untold, in two
\* ways only: a send that found the conversation idle fails its own persist or
\* is a repeat, and kicks no drain; or the message of an interrupting send that
\* got no turn is refused by the byte budget, and kicks none (drainQueue,
\* queueSend's kick, kickQueueDrain).
THEOREM OnlyTheseStrand ==
  Spec => [][NothingStranded => NothingStranded' \/ \E c \in Chains : Strands(c)]_vars
<1>1. IInv /\ FlagInv /\ [Next]_vars =>
        [NothingStranded => NothingStranded' \/ \E c \in Chains : Strands(c)]_vars
  <2> SUFFICES ASSUME IInv, FlagInv, Next, NothingStranded
               PROVE  NothingStranded' \/ \E c \in Chains : Strands(c)
    OBVIOUS
  <2>1. IInv' /\ FlagInv'
    BY NextQueue, NextFlags
  <2> QED BY <2>1, NextMinds, MindsKeeps
<1> QED BY InitQueue, NextQueue, FlagInductive, <1>1, PTL DEF Spec

\* Queued messages never sit behind an idle conversation, unless a drain gave
\* them up after its retry, where a send's own persist neither fails nor is a
\* repeat and interrupt-on-send is off or nothing is refused for want of bytes
\* (drainQueue, queueSend's kick, kickQueueDrain's catch).
THEOREM QueueStrandsNothing ==
  ASSUME ~SendsFail
  PROVE  Spec /\ [](InterruptOnSend => \A m \in Msgs : outcome[m] # "rejected")
           => []NothingStranded
<1> DEFINE Fits == InterruptOnSend => \A m \in Msgs : outcome[m] # "rejected"
<1>1. Init => NothingStranded
  BY DEF Init, NothingStranded
<1>2. IInv /\ FlagInv /\ Numbered /\ NothingStranded /\ Fits' /\ [Next]_vars => NothingStranded'
  <2> SUFFICES ASSUME IInv, FlagInv, Numbered, NothingStranded, Fits', [Next]_vars
               PROVE  NothingStranded'
    OBVIOUS
  <2>1. CASE UNCHANGED vars
    BY <2>1 DEF NothingStranded, vars, queueVars, chainVars, rowVars
  <2>2. CASE Next
    <3>1. IInv' /\ FlagInv'
      BY <2>2, NextQueue, NextFlags
    <3>2. ASSUME NEW c \in Chains, Strands(c) PROVE FALSE
      <4>1. CASE HeadSkipped(c) /\ origin[c] # "drain"
        BY <4>1 DEF HeadSkipped
      <4>2. CASE /\ InterruptBusy(c) \/ InterruptFails(c)
                 /\ outcome'[Head(batch[c])] = "rejected"
        <5>1. stage[c] \in SendStages /\ stage[c] \in InterruptStages
          BY <4>2 DEF InterruptBusy, InterruptFails, SendStages, InterruptStages
        <5>2. Head(batch[c]) \in Msgs
          BY <5>1, SendHasOne
        <5>3. InterruptOnSend
          BY <5>1 DEF FlagInv
        <5> QED BY <4>2, <5>2, <5>3
      <4>3. CASE HandoverFails(c) /\ outcome'[Head(batch[c])] = "rejected"
        <5>1. Head(batch[c]) \in Msgs
          BY <4>3 DEF HandoverFails
        <5>2. InterruptOnSend
          BY <4>3 DEF HandoverFails, Numbered, Unqueued
        <5> QED BY <4>3, <5>1, <5>2
      <4> QED BY <3>2, <4>1, <4>2, <4>3 DEF Strands
    <3> QED BY <2>2, <3>1, <3>2, NextMinds, MindsKeeps
  <2> QED BY <2>1, <2>2
<1> HIDE DEF Fits
<1>3. Spec /\ []Fits => []NothingStranded
  BY InitQueue, NextQueue, InitInLine, NextNumbered, FlagInductive, <1>1, <1>2, PTL DEF Spec
<1> QED BY <1>3 DEF Fits


----------------------------------------------------------------------------
(* The types of what the arguments above never looked at.                  *)

Armed == pendingSteerRepair \in BOOLEAN /\ pendingInterruptRepair \in BOOLEAN

Locals ==
  /\ origin \in [Chains -> Origins] /\ steered \in [Chains -> BOOLEAN]
  /\ attempt \in [Chains -> {1, 2}]

RestTypes ==
  /\ Armed /\ Locals
  /\ barrier \in Chains \cup {NoOne} /\ stalled \subseteq Msgs

\* What a step may do to those variables.
ArmMove ==
  /\ \E b \in BOOLEAN : pendingSteerRepair' = b
  /\ \E b \in BOOLEAN : pendingInterruptRepair' = b

LocalMove ==
  /\ UNCHANGED origin \/ \E c \in Chains, o \in Origins : origin' = [origin EXCEPT ![c] = o]
  /\ UNCHANGED steered \/ \E c \in Chains, b \in BOOLEAN : steered' = [steered EXCEPT ![c] = b]
  /\ UNCHANGED attempt \/ \E c \in Chains, n \in {1, 2} : attempt' = [attempt EXCEPT ![c] = n]

RestMove ==
  /\ ArmMove /\ LocalMove
  /\ UNCHANGED barrier \/ \E c \in Chains \cup {NoOne} : barrier' = c
  /\ stalled' \subseteq stalled \cup ToSet(queue')

\* Such a step keeps their types.
LEMMA RestMoveKeeps ==
  ASSUME RestTypes, RestMove, ToSet(queue') \subseteq Msgs
  PROVE  RestTypes'
<1>1. Armed'
  BY DEF RestMove, ArmMove, Armed
<1>2. origin' \in [Chains -> Origins] /\ steered' \in [Chains -> BOOLEAN]
  BY DEF RestTypes, RestMove, LocalMove, Locals
<1>3. attempt' \in [Chains -> {1, 2}]
  BY DEF RestTypes, RestMove, LocalMove, Locals
<1>4. barrier' \in Chains \cup {NoOne} /\ stalled' \subseteq Msgs
  BY DEF RestTypes, RestMove
<1> QED BY <1>1, <1>2, <1>3, <1>4 DEF RestTypes, Locals

\* A step that leaves the armed repairs alone.
LEMMA SameArms ==
  ASSUME RestTypes, UNCHANGED armVars
  PROVE  ArmMove
BY DEF RestTypes, Armed, ArmMove, armVars

\* A chain that comes to rest.
LEMMA RestsLocal ==
  ASSUME NEW c \in Chains, NEW f, NEW next, RestAmong(c, f, next)
  PROVE  LocalMove
BY DEF RestAmong, LocalMove, Origins

\* queueSend and enqueueMessage.
LEMMA EnqueueLocal ==
  ASSUME NEW c \in Chains, NEW f, NEW m, NEW refused, EnqueueElse(c, f, m, refused)
  PROVE  LocalMove /\ UNCHANGED stalled
<1>1. PICK next : RestAmong(c, f, next)
  BY DEF EnqueueElse
<1> QED BY <1>1, RestsLocal DEF EnqueueElse

\* A send.
LEMMA SendRests ==
  ASSUME RestTypes, NEW c \in Chains,
         \/ \E m \in Msgs : SendMessage(c, m)
         \/ CompleteSend(c) \/ QueueSendKick(c) \/ ReleaseHold(c)
  PROVE  RestMove
<1>1. ArmMove
  <2>1. UNCHANGED armVars
    BY DEF SendMessage, CompleteSend, QueueSendKick, ReleaseHold
  <2> QED BY <2>1, SameArms
<1>2. UNCHANGED barrier
  BY DEF SendMessage, CompleteSend, QueueSendKick, ReleaseHold, lockVars
<1>3. LocalMove /\ UNCHANGED stalled
  <2>1. CASE \E f, m, refused : EnqueueElse(c, f, m, refused)
    BY <2>1, EnqueueLocal
  <2>2. CASE \E m, next : Accept(c, m, next)
    BY <2>2 DEF Accept, LocalMove, Origins
  <2>3. CASE \E m \in Msgs : SendMessage(c, m)
    BY <2>1, <2>2, <2>3 DEF SendMessage, EnqueueMessage, EnqueueAmong
  <2>4. CASE CompleteSend(c)
    BY <2>1, <2>4 DEF CompleteSend, EnqueueMessage, EnqueueAmong, rowVars, LocalMove
  <2>5. CASE QueueSendKick(c)
    <3>1. PICK next : RestAmong(c, stage, next)
      BY <2>5 DEF QueueSendKick, Rest
    <3> QED BY <2>5, <3>1, RestsLocal DEF QueueSendKick, rowVars
  <2>6. CASE ReleaseHold(c)
    BY <2>6, RestsLocal DEF ReleaseHold
  <2> QED BY <2>3, <2>4, <2>5, <2>6
<1> QED BY <1>1, <1>2, <1>3 DEF RestMove

\* interruptRunningTurn, after its abort.
LEMMA InterruptRests ==
  ASSUME RestTypes, NEW c \in Chains,
         \/ InterruptUnwound(c) \/ InterruptBusy(c) \/ InterruptClaim(c)
         \/ InterruptFencePass(c) \/ InterruptRepaired(c) \/ InterruptFails(c)
         \/ HandoverFails(c)
  PROVE  RestMove
<1>1. ArmMove
  <2>1. CASE UNCHANGED armVars
    BY <2>1, SameArms
  <2>2. CASE InterruptFencePass(c)
    BY <2>2 DEF InterruptFencePass, ArmMove
  <2>3. CASE InterruptFails(c)
    <3>1. steered[c] \in BOOLEAN
      BY DEF RestTypes, Locals
    <3>2. CASE stage[c] = "fencing"
      BY <2>1, <2>3, <3>2 DEF InterruptFails
    <3>3. CASE stage[c] # "fencing"
      BY <2>3, <3>1, <3>3 DEF InterruptFails, ArmMove
    <3> QED BY <3>2, <3>3
  <2> QED BY <2>1, <2>2, <2>3 DEF InterruptUnwound, InterruptBusy, InterruptClaim,
            InterruptRepaired, HandoverFails
<1>2. UNCHANGED barrier
  BY DEF InterruptUnwound, InterruptBusy, InterruptClaim, InterruptFencePass,
         InterruptRepaired, InterruptFails, HandoverFails, ReleaseInterrupt, lockVars
<1>3. LocalMove /\ UNCHANGED stalled
  <2>1. CASE \E f, m, refused : EnqueueElse(c, f, m, refused)
    BY <2>1, EnqueueLocal
  <2>2. CASE InterruptFencePass(c)
    <3>1. pendingSteerRepair \in BOOLEAN
      BY DEF RestTypes, Armed
    <3> QED BY <2>2, <3>1 DEF InterruptFencePass, LocalMove, rowVars
  <2>3. CASE UNCHANGED <<origin, steered, attempt, stalled>>
    BY <2>3 DEF LocalMove
  <2> QED BY <2>1, <2>2, <2>3 DEF InterruptUnwound, InterruptBusy, InterruptClaim,
            InterruptRepaired, InterruptFails, HandoverFails, EnqueueMessage,
            EnqueueAmong, rowVars
<1> QED BY <1>1, <1>2, <1>3 DEF RestMove

\* kickQueueDrain's catch.
LEMMA RejectedLocal ==
  ASSUME NEW c \in Chains, DrainRejected(c)
  PROVE  LocalMove /\ stalled' \subseteq stalled \cup ToSet(queue')
BY DEF DrainRejected, LocalMove

\* requeueDrainedMessages.
LEMMA RequeueArms ==
  ASSUME RestTypes, NEW c \in Chains, RequeueDrainedMessages(c)
  PROVE  ArmMove
<1>1. (pendingSteerRepair \/ steered[c]) \in BOOLEAN /\ pendingInterruptRepair \in BOOLEAN
  BY DEF RestTypes, Armed
<1> QED BY <1>1 DEF RequeueDrainedMessages, ArmMove

\* drainQueue and its dispatch.
LEMMA DrainRests ==
  ASSUME RestTypes, NEW c \in Chains,
         \/ DrainQueue(c) \/ RepairDone(c) \/ RepairFails(c)
         \/ DispatchThrows(c) \/ ResolveSlash(c)
  PROVE  RestMove
<1>1. /\ pendingSteerRepair \in BOOLEAN /\ pendingInterruptRepair \in BOOLEAN
      /\ steered[c] \in BOOLEAN
  BY DEF RestTypes, Armed, Locals
<1>2. ASSUME NEW st \in BOOLEAN, DrainTake(c, st)
      PROVE  ArmMove /\ LocalMove /\ stalled' \subseteq stalled
  <2>1. ArmMove
    <3>1. (pendingSteerRepair \/ (st /\ queue # <<>>)) \in BOOLEAN
      OBVIOUS
    <3>2. CASE UNCHANGED armVars
      BY <3>2, SameArms
    <3> QED BY <1>1, <1>2, <3>1, <3>2 DEF DrainTake, ArmMove
  <2>2. LocalMove
    <3>1. CASE RestAmong(c, stage, "idle")
      BY <3>1, RestsLocal
    <3>2. CASE /\ origin' = [origin EXCEPT ![c] = "drain"]
               /\ steered' = [steered EXCEPT ![c] = st] /\ UNCHANGED attempt
      BY <3>2 DEF LocalMove, Origins
    <3> QED BY <1>2, <3>1, <3>2 DEF DrainTake, Rest
  <2>3. stalled' \subseteq stalled
    BY <1>2 DEF DrainTake
  <2> QED BY <2>1, <2>2, <2>3
<1>3. CASE DrainQueue(c)
  <2>1. UNCHANGED barrier
    BY <1>3 DEF DrainQueue, lockVars
  <2>2. CASE DrainTake(c, FALSE)
    BY <1>2, <2>1, <2>2 DEF RestMove
  <2>3. CASE ~DrainTake(c, FALSE)
    <3>1. ArmMove
      BY <1>3, <2>3 DEF DrainQueue, ArmMove
    <3>2. LocalMove
      BY <1>1, <1>3, <2>3 DEF DrainQueue, LocalMove
    <3>3. UNCHANGED stalled
      BY <1>3, <2>3 DEF DrainQueue
    <3> QED BY <2>1, <3>1, <3>2, <3>3 DEF RestMove
  <2> QED BY <2>2, <2>3
<1>4. CASE RepairDone(c)
  <2>1. UNCHANGED barrier /\ DrainTake(c, steered[c])
    BY <1>4 DEF RepairDone, lockVars
  <2> QED BY <1>1, <1>2, <2>1 DEF RestMove
<1>5. CASE RepairFails(c)
  <2>1. ArmMove /\ UNCHANGED barrier
    BY <1>1, <1>5 DEF RepairFails, ArmMove, lockVars
  <2> QED BY <1>5, <2>1, RejectedLocal DEF RepairFails, RestMove
<1>6. CASE DispatchThrows(c)
  <2>1. ArmMove /\ UNCHANGED barrier
    BY <1>6, RequeueArms DEF DispatchThrows, lockVars
  <2> QED BY <1>6, <2>1, RejectedLocal DEF DispatchThrows, RestMove
<1>7. CASE ResolveSlash(c)
  <2>1. UNCHANGED <<barrier, stalled>>
    BY <1>7 DEF ResolveSlash, lockVars
  <2>2. CASE RequeueDrainedMessages(c) /\ RestAmong(c, stage, "idle")
    BY <2>1, <2>2, RequeueArms, RestsLocal DEF RestMove
  <2>3. CASE UNCHANGED armVars /\ UNCHANGED <<origin, steered, attempt>>
    BY <2>1, <2>3, SameArms DEF RestMove, LocalMove
  <2> QED BY <1>7, <2>2, <2>3 DEF ResolveSlash, Rest
<1> QED BY <1>3, <1>4, <1>5, <1>6, <1>7

\* The persists, the turn and its commit.
LEMMA TurnRests ==
  ASSUME RestTypes, NEW c \in Chains,
         \/ SlashDone(c) \/ PersistDone(c) \/ HeadSkipped(c) \/ TailSkipped(c)
         \/ ReleaseTurn(c) \/ TurnFinally(c) \/ OutstandingCommitSettles
  PROVE  RestMove
<1>1. UNCHANGED armVars /\ UNCHANGED stalled
  BY DEF SlashDone, PersistDone, HeadSkipped, TailSkipped, ReleaseTurn, TurnFinally,
         OutstandingCommitSettles, rowVars
<1>2. UNCHANGED barrier \/ \E d \in Chains \cup {NoOne} : barrier' = d
  BY DEF SlashDone, PersistDone, HeadSkipped, TailSkipped, ReleaseTurn, TurnFinally,
         OutstandingCommitSettles, StartLoop, lockVars
<1>3. LocalMove
  <2>1. CASE UNCHANGED <<origin, steered, attempt>>
    BY <2>1 DEF LocalMove
  <2>2. CASE ReleaseTurn(c)
    BY <2>2, RestsLocal DEF ReleaseTurn
  <2> QED BY <2>1, <2>2 DEF SlashDone, PersistDone, HeadSkipped, TailSkipped,
            TurnFinally, OutstandingCommitSettles
<1> QED BY <1>1, <1>2, <1>3, SameArms DEF RestMove

\* Stop, steer, delete and teardown.
LEMMA UserRests ==
  ASSUME RestTypes,
         \/ \E m \in Msgs : SteerToMessage(m) \/ DeleteQueuedMessage(m)
         \/ UserInterrupt \/ DiscardQueueOnAbort
  PROVE  RestMove
<1>1. UNCHANGED barrier /\ UNCHANGED stalled
  BY DEF SteerToMessage, DeleteQueuedMessage, UserInterrupt, DiscardQueueOnAbort,
         SignalOrClear, lockVars, rowVars
<1>2. ArmMove
  <2>1. CASE UNCHANGED armVars
    BY <2>1, SameArms
  <2>2. /\ pendingSteerRepair \in BOOLEAN /\ pendingInterruptRepair \in BOOLEAN
        /\ (pendingInterruptRepair \/ queue # <<>>) \in BOOLEAN
    BY DEF RestTypes, Armed
  <2>3. CASE UserInterrupt
    BY <2>2, <2>3 DEF UserInterrupt, ArmMove
  <2>4. CASE \E m \in Msgs : SteerToMessage(m)
    BY <2>2, <2>4 DEF SteerToMessage, ArmMove
  <2> QED BY <2>1, <2>3, <2>4 DEF DeleteQueuedMessage, DiscardQueueOnAbort
<1>3. LocalMove
  <2>1. ASSUME NEW kick, KickDrain(kick) PROVE LocalMove
    <3>1. CASE \E c \in Chains : RestAmong(c, AmongCleared, "drain")
      BY <3>1, RestsLocal
    <3>2. CASE UNCHANGED <<origin, steered, attempt>>
      BY <3>2 DEF LocalMove
    <3> QED BY <2>1, <3>1, <3>2 DEF KickDrain
  <2>2. CASE UNCHANGED chainVars
    BY <2>2 DEF chainVars, LocalMove
  <2> QED BY <2>1, <2>2 DEF SteerToMessage, DeleteQueuedMessage, UserInterrupt,
            DiscardQueueOnAbort
<1> QED BY <1>1, <1>2, <1>3 DEF RestMove

\* Every step is such a step.
LEMMA NextRests == RestTypes /\ Next => RestMove
<1> SUFFICES ASSUME RestTypes, Next PROVE RestMove
  OBVIOUS
<1>1. CASE Microtasks
  BY <1>1, SendRests, InterruptRests, DrainRests DEF Microtasks
<1>2. CASE Tasks
  <2>1. CASE \E c \in Chains :
          \/ QueueSendKick(c) \/ ReleaseHold(c)
          \/ DrainQueue(c) \/ RepairDone(c) \/ RepairFails(c) \/ SlashDone(c)
          \/ PersistDone(c) \/ HeadSkipped(c) \/ TailSkipped(c)
          \/ ReleaseTurn(c) \/ TurnFinally(c)
          \/ InterruptBusy(c) \/ InterruptFencePass(c)
          \/ InterruptRepaired(c) \/ InterruptFails(c) \/ HandoverFails(c)
    BY <2>1, SendRests, InterruptRests, DrainRests, TurnRests
  <2>2. CASE \E c \in Chains, m \in Msgs : SendMessage(c, m)
    BY <2>2, SendRests
  <2>3. CASE OutstandingCommitSettles
    <3>1. barrier' = NoOne /\ UNCHANGED <<armVars, origin, steered, attempt, stalled>>
      BY <2>3 DEF OutstandingCommitSettles, rowVars
    <3> QED BY <3>1, SameArms DEF RestMove, LocalMove
  <2>4. CASE \/ \E m \in Msgs : SteerToMessage(m) \/ DeleteQueuedMessage(m)
             \/ UserInterrupt \/ DiscardQueueOnAbort
    BY <2>4, UserRests
  <2> QED BY <1>2, <2>1, <2>2, <2>3, <2>4 DEF Tasks
<1> QED BY <1>1, <1>2 DEF Next

\* Every variable of the queue keeps its type, for any finite set of messages:
\* in particular the byte count is a number through every push, pop, requeue
\* and delete, a drain is tried twice at most (kickQueueDrain), and a message is
\* queued by its send once only, so that no rank exceeds the number of messages
\* (enqueueMessage).
THEOREM QueueTypes ==
  ASSUME IsFiniteSet(Msgs)
  PROVE  Spec => []TypeOK
<1>1. Init => RestTypes
  <2> SUFFICES ASSUME Init PROVE RestTypes
    OBVIOUS
  <2>1. Armed
    BY DEF Init, Armed
  <2>2. origin \in [Chains -> Origins] /\ steered \in [Chains -> BOOLEAN]
    BY DEF Init, Origins
  <2>3. attempt \in [Chains -> {1, 2}]
    BY DEF Init
  <2>4. barrier \in Chains \cup {NoOne} /\ stalled \subseteq Msgs
    BY DEF Init
  <2> QED BY <2>1, <2>2, <2>3, <2>4 DEF RestTypes, Locals
<1>2. IInv /\ RestTypes /\ [Next]_vars => RestTypes'
  <2> SUFFICES ASSUME IInv, RestTypes, [Next]_vars PROVE RestTypes'
    OBVIOUS
  <2>1. CASE Next
    <3>1. queue' \in Seq(Msgs)
      BY <2>1, NextQueue DEF IInv, MsgInv, MsgTypes
    <3>2. ToSet(queue') \subseteq Msgs
      BY <3>1, ElementsAreMsgs
    <3> QED BY <2>1, <3>2, NextRests, RestMoveKeeps
  <2>2. CASE UNCHANGED vars
    BY <2>2 DEF RestTypes, Armed, Locals, vars, armVars, lockVars, chainVars, rowVars
  <2> QED BY <2>1, <2>2
<1>3. IInv /\ BytesMatchQueue /\ Numbered /\ RestTypes => TypeOK
  <2> SUFFICES ASSUME IInv, BytesMatchQueue, Numbered, RestTypes PROVE TypeOK
    OBVIOUS
  <2>1. queue \in Seq(Msgs)
    BY DEF IInv, MsgInv, MsgTypes
  <2>2. currentBytes \in Int
    BY <2>1, BytesOfConcat DEF BytesMatchQueue
  <2>3. rank \in [Msgs -> 0 .. Cardinality(Msgs)]
    <3>1. /\ Ranked \subseteq Msgs
          /\ \A m \in Msgs : rank[m] \in Nat /\ rank[m] <= Cardinality(Ranked)
      BY DEF Ranked, Numbered
    <3>2. Cardinality(Ranked) <= Cardinality(Msgs) /\ Cardinality(Ranked) \in Nat
      BY <3>1, FS_Subset, FS_CardinalityType
    <3>3. Cardinality(Msgs) \in Nat
      BY FS_CardinalityType
    <3>4. \A m \in Msgs : rank[m] \in 0 .. Cardinality(Msgs)
      BY <3>1, <3>2, <3>3
    <3> QED BY <3>4 DEF Numbered
  <2> QED BY <2>1, <2>2, <2>3 DEF TypeOK, IInv, MsgInv, MsgTypes, ChainInv, ChainTypes,
            RestTypes, Armed, Locals
<1> QED BY InitQueue, NextQueue, InitInLine, NextNumbered, QueueBytes, <1>1, <1>2, <1>3,
           PTL DEF Spec

===========================================================================
