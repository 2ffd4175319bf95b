---------------------- MODULE ConversationQueueProofs ----------------------
(***************************************************************************)
(* The queue of a conversation for every set of messages, senders and      *)
(* chains: what is accepted is in one place until its end, clients are     *)
(* told what is queued, and the conversation keeps the promises of         *)
(* MessageLifecycle.                                                       *)
(*                                                                         *)
(* The proof has two halves.  Each action is shown to be one of a few      *)
(* moves of messages between queue and chains, and each move to keep what  *)
(* is said of the messages; what is said of stages and flag is shown       *)
(* action by action.                                                       *)
(***************************************************************************)
EXTENDS ConversationQueue, SequenceTheorems, WellFoundedInduction, TLAPS

\* The types of where messages are and of what is said of them.
MsgTypes ==
  /\ queue \in Seq(Msgs)
  /\ batch \in [Chains -> Seq(Msgs)]
  /\ outcome \in [Msgs -> Outcomes]
  /\ view \in [Msgs -> {"none", "queued", "released", "deleted"}]

\* The types of the flag and of the chains.
ChainTypes ==
  /\ owner \in Chains \cup {NoOne}
  /\ abortController \in {"none", "live", "aborted"}
  /\ stage \in [Chains -> Stages]
  /\ turn \in [Chains -> SUBSET Msgs]

\* The stages of a send that has one message in hand, off the queue.
SendStages == {"sending", "holding", "interrupting", "unwound", "outlasting",
               "claiming", "fencing", "mending"}
\* The stages of a chain that has taken messages out of the queue or brings one.
HandStages == SendStages \cup {"resolving", "slashing", "persisting"}
TurnStages == {"persisting", "running"}

\* A chain in stage st has messages b in hand in these stages and in no others;
\* a send and a slash command have one.
InHand(st, b) ==
  /\ b # <<>> <=> st \in HandStages
  /\ st \in SendStages \cup {"slashing"} => Len(b) = 1
  /\ Len(b) > 1 => \A m \in ToSet(b) : m \notin Slash

Hands == \A c \in Chains : InHand(stage[c], batch[c])

\* The flag with a controller is that of the one chain with a turn.
OneTurn ==
  /\ \A c \in Chains : stage[c] \in TurnStages => owner = c /\ abortController # "none"
  /\ abortController # "none" => owner # NoOne /\ stage[owner] \in TurnStages
  /\ \A c \in Chains : turn[c] # {} => stage[c] \in TurnStages

\* A turn t and the messages b that may still join it are of one sender.
OfOneSender(st, t, b) ==
  st \in {"resolving", "persisting"} => \A m, n \in t \cup ToSet(b) : Sender[m] = Sender[n]

OneSender == \A c \in Chains : OfOneSender(stage[c], turn[c], batch[c])

\* The rows of what a chain has in hand: its first message is not shown as
\* queued any more; what came out of the queue is shown as queued or released.
RowsInHand ==
  \A c \in Chains :
    /\ batch[c] # <<>> /\ Head(batch[c]) \notin Hidden => view[Head(batch[c])] # "queued"
    /\ stage[c] = "resolving" \/ Len(batch[c]) > 1 =>
         \A m \in ToSet(batch[c]) \ Hidden : view[m] \in {"queued", "released"}

\* The rows of what is queued, of what is over and of what was not sent yet.
RowsRight == ClientRowsMatch /\ \A m \in Msgs : outcome[m] = "unsent" => view[m] = "none"

\* Where the messages are, and what clients are told of it.
MsgInv == MsgTypes /\ HeldOnce /\ RowsInHand /\ RowsRight

\* How far the chains are, and which has the flag.
ChainInv == ChainTypes /\ Hands /\ OneTurn /\ OneSender

IInv == MsgInv /\ ChainInv

----------------------------------------------------------------------------
(* Sequences without repetition.                                           *)

\* The elements of a concatenation, as a requeue builds it.
LEMMA ConcatElements ==
  ASSUME NEW S, NEW s \in Seq(S), NEW t \in Seq(S)
  PROVE  /\ s \o t \in Seq(S)
         /\ ToSet(s \o t) = ToSet(s) \cup ToSet(t)
         /\ IsInjective(s) /\ IsInjective(t) /\ ToSet(s) \cap ToSet(t) = {}
              => IsInjective(s \o t)
<1>1. /\ s \o t \in Seq(S)
      /\ Len(s \o t) = Len(s) + Len(t)
      /\ \A i \in 1 .. Len(s) + Len(t) :
           (s \o t)[i] = IF i <= Len(s) THEN s[i] ELSE t[i - Len(s)]
  BY ConcatProperties
<1>2. /\ Len(s) \in Nat /\ DOMAIN s = 1 .. Len(s)
      /\ Len(t) \in Nat /\ DOMAIN t = 1 .. Len(t)
      /\ DOMAIN (s \o t) = 1 .. Len(s) + Len(t)
  BY <1>1, LenProperties
<1> DEFINE u == s \o t  k == Len(s)  l == Len(t)
<1>3. /\ k \in Nat /\ l \in Nat
      /\ DOMAIN s = 1..k /\ DOMAIN t = 1..l /\ DOMAIN u = 1 .. k + l
      /\ \A i \in 1 .. k + l : u[i] = IF i <= k THEN s[i] ELSE t[i - k]
  BY <1>1, <1>2
<1> HIDE DEF u, k, l
<1>4. ToSet(u) \subseteq ToSet(s) \cup ToSet(t)
  <2> SUFFICES ASSUME NEW i \in 1 .. k + l PROVE u[i] \in ToSet(s) \cup ToSet(t)
    BY <1>3 DEF ToSet
  <2>1. CASE i <= k
    BY <2>1, <1>3 DEF ToSet
  <2>2. CASE ~(i <= k)
    <3>1. i - k \in 1..l /\ u[i] = t[i - k]
      BY <2>2, <1>3
    <3> QED BY <3>1, <1>3 DEF ToSet
  <2> QED BY <2>1, <2>2
<1>5. ToSet(s) \subseteq ToSet(u)
  <2> SUFFICES ASSUME NEW i \in 1 .. k PROVE s[i] \in ToSet(u)
    BY <1>3 DEF ToSet
  <2>1. i \in 1 .. k + l /\ u[i] = s[i]
    BY <1>3
  <2> QED BY <2>1, <1>3 DEF ToSet
<1>6. ToSet(t) \subseteq ToSet(u)
  <2> SUFFICES ASSUME NEW i \in 1 .. l PROVE t[i] \in ToSet(u)
    BY <1>3 DEF ToSet
  <2>1. i + k \in 1 .. k + l /\ u[i + k] = t[i]
    BY <1>3
  <2> QED BY <2>1, <1>3 DEF ToSet
<1>7. ASSUME IsInjective(s), IsInjective(t), ToSet(s) \cap ToSet(t) = {}
      PROVE  IsInjective(u)
  <2> SUFFICES ASSUME NEW i \in 1 .. k + l, NEW j \in 1 .. k + l, u[i] = u[j]
               PROVE  i = j
    BY <1>3 DEF IsInjective
  <2>1. \A a \in 1..k, b \in 1..l : s[a] # t[b]
    BY <1>7, <1>3 DEF ToSet
  <2>2. CASE i <= k /\ j <= k
    BY <2>2, <1>3, <1>7 DEF IsInjective
  <2>3. CASE ~(i <= k) /\ ~(j <= k)
    <3>1. i - k \in 1..l /\ j - k \in 1..l /\ t[i - k] = t[j - k]
      BY <2>3, <1>3
    <3>2. i - k = j - k
      BY <3>1, <1>3, <1>7 DEF IsInjective
    <3> QED BY <3>2, <1>3
  <2>4. CASE i <= k /\ ~(j <= k)
    <3>1. i \in 1..k /\ j - k \in 1..l /\ s[i] = t[j - k]
      BY <2>4, <1>3
    <3> QED BY <3>1, <2>1
  <2>5. CASE ~(i <= k) /\ j <= k
    <3>1. j \in 1..k /\ i - k \in 1..l /\ s[j] = t[i - k]
      BY <2>5, <1>3
    <3> QED BY <3>1, <2>1
  <2> QED BY <2>2, <2>3, <2>4, <2>5
<1> QED BY <1>1, <1>4, <1>5, <1>6, <1>7 DEF u

\* The elements of a queue cut in two, as a drain cuts it.
LEMMA SplitElements ==
  ASSUME NEW S, NEW s \in Seq(S), NEW n \in 0 .. Len(s)
  PROVE  /\ SubSeq(s, 1, n) \in Seq(S) /\ SubSeq(s, n + 1, Len(s)) \in Seq(S)
         /\ Len(SubSeq(s, 1, n)) = n
         /\ \A i \in 1..n : SubSeq(s, 1, n)[i] = s[i]
         /\ ToSet(s) = ToSet(SubSeq(s, 1, n)) \cup ToSet(SubSeq(s, n + 1, Len(s)))
         /\ IsInjective(s) =>
              /\ IsInjective(SubSeq(s, 1, n)) /\ IsInjective(SubSeq(s, n + 1, Len(s)))
              /\ ToSet(SubSeq(s, 1, n)) \cap ToSet(SubSeq(s, n + 1, Len(s))) = {}
         /\ \A i \in 1 .. Len(s) - n :
              SubSeq(s, n + 1, Len(s))[i] = s[n + i]
         /\ Len(SubSeq(s, n + 1, Len(s))) = Len(s) - n
<1> DEFINE k == Len(s)  a == SubSeq(s, 1, n)  b == SubSeq(s, n + 1, k)
<1>1. k \in Nat /\ n \in Nat /\ n <= k /\ DOMAIN s = 1..k /\ \A i \in 1..k : s[i] \in S
  BY LenProperties, ElementOfSeq
<1>2. /\ a \in Seq(S) /\ Len(a) = n
      /\ \A i \in 1..n : a[i] = s[i]
  <2>1. \A i \in 1..n : s[i] \in S
    BY <1>1
  <2>2. /\ a \in Seq(S) /\ Len(a) = IF 1 <= n THEN n - 1 + 1 ELSE 0
        /\ \A i \in 1 .. n - 1 + 1 : a[i] = s[1 + i - 1]
    BY <2>1, <1>1, SubSeqProperties
  <2> HIDE DEF a
  <2> QED BY <2>2, <1>1
<1>3. /\ b \in Seq(S) /\ Len(b) = k - n
      /\ \A i \in 1 .. k - n : b[i] = s[n + i]
  <2>1. \A i \in n + 1 .. k : s[i] \in S
    BY <1>1
  <2>2. n + 1 \in Int /\ k \in Int
    BY <1>1
  <2>3. /\ b \in Seq(S) /\ Len(b) = IF n + 1 <= k THEN k - (n + 1) + 1 ELSE 0
        /\ \A i \in 1 .. k - (n + 1) + 1 : b[i] = s[n + 1 + i - 1]
    BY <2>1, <2>2, SubSeqProperties
  <2> HIDE DEF b, k
  <2> QED BY <2>3, <1>1
<1>4. DOMAIN a = 1..n /\ DOMAIN b = 1 .. k - n
  BY <1>2, <1>3, LenProperties
<1> HIDE DEF a, b, k
<1>5. ToSet(s) \subseteq ToSet(a) \cup ToSet(b)
  <2> SUFFICES ASSUME NEW i \in 1..k PROVE s[i] \in ToSet(a) \cup ToSet(b)
    BY <1>1 DEF ToSet
  <2>1. CASE i <= n
    BY <2>1, <1>1, <1>2, <1>4 DEF ToSet
  <2>2. CASE ~(i <= n)
    <3>1. i - n \in 1 .. k - n /\ b[i - n] = s[n + (i - n)] /\ n + (i - n) = i
      BY <2>2, <1>1, <1>3
    <3> QED BY <3>1, <1>4 DEF ToSet
  <2> QED BY <2>1, <2>2
<1>6. ToSet(a) \subseteq ToSet(s)
  <2> SUFFICES ASSUME NEW i \in 1..n PROVE a[i] \in ToSet(s)
    BY <1>4 DEF ToSet
  <2> QED BY <1>1, <1>2 DEF ToSet
<1>7. ToSet(b) \subseteq ToSet(s)
  <2> SUFFICES ASSUME NEW i \in 1 .. k - n PROVE b[i] \in ToSet(s)
    BY <1>4 DEF ToSet
  <2>1. n + i \in 1..k /\ b[i] = s[n + i]
    BY <1>1, <1>3
  <2> QED BY <2>1, <1>1 DEF ToSet
<1>8. ASSUME IsInjective(s)
      PROVE  IsInjective(a) /\ IsInjective(b) /\ ToSet(a) \cap ToSet(b) = {}
  <2>0. \A i, j \in 1..k : s[i] = s[j] => i = j
    BY <1>8, <1>1 DEF IsInjective
  <2>1. IsInjective(a)
    BY <2>0, <1>1, <1>2, <1>4 DEF IsInjective
  <2>2. IsInjective(b)
    <3> SUFFICES ASSUME NEW i \in 1 .. k - n, NEW j \in 1 .. k - n, b[i] = b[j]
                 PROVE  i = j
      BY <1>4 DEF IsInjective
    <3>1. n + i \in 1..k /\ n + j \in 1..k /\ s[n + i] = s[n + j]
      BY <1>1, <1>3
    <3>2. n + i = n + j
      BY <3>1, <2>0
    <3> QED BY <3>2, <1>1
  <2>3. ASSUME NEW i \in 1..n, NEW j \in 1 .. k - n PROVE a[i] # b[j]
    <3>1. i \in 1..k /\ n + j \in 1..k /\ a[i] = s[i] /\ b[j] = s[n + j] /\ i # n + j
      BY <1>1, <1>2, <1>3
    <3> QED BY <3>1, <2>0
  <2>4. ToSet(a) \cap ToSet(b) = {}
    BY <2>3, <1>4 DEF ToSet
  <2> QED BY <2>1, <2>2, <2>4
<1> QED BY <1>1, <1>2, <1>3, <1>5, <1>6, <1>7, <1>8 DEF a, b, k

\* The first element of a batch and the others.
LEMMA TailElements ==
  ASSUME NEW S, NEW s \in Seq(S), s # <<>>
  PROVE  /\ Head(s) \in S /\ Head(s) \in ToSet(s) /\ Head(s) = s[1] /\ 1 \in DOMAIN s
         /\ Tail(s) \in Seq(S) /\ Len(Tail(s)) = Len(s) - 1
         /\ ToSet(s) = {Head(s)} \cup ToSet(Tail(s))
         /\ IsInjective(s) => IsInjective(Tail(s)) /\ Head(s) \notin ToSet(Tail(s))
<1>1. Len(s) \in Nat \ {0} /\ 1 \in 0 .. Len(s) /\ DOMAIN s = 1 .. Len(s)
  BY EmptySeq, LenProperties
<1>2. Head(s) = s[1] /\ Head(s) \in S /\ Tail(s) \in Seq(S) /\ Len(Tail(s)) = Len(s) - 1
  BY HeadTailProperties
<1>3. Tail(s) = SubSeq(s, 1 + 1, Len(s))
  <2>1. Tail(s) = SubSeq(s, 2, Len(s))
    BY TailIsSubSeq
  <2> QED BY <2>1
<1> DEFINE a == SubSeq(s, 1, 1)  b == SubSeq(s, 1 + 1, Len(s))
<1>4. /\ a \in Seq(S) /\ Len(a) = 1
      /\ \A i \in 1..1 : a[i] = s[i]
      /\ ToSet(s) = ToSet(a) \cup ToSet(b)
      /\ IsInjective(s) => IsInjective(b) /\ ToSet(a) \cap ToSet(b) = {}
  BY <1>1, SplitElements
<1>5. DOMAIN a = 1..1
  BY <1>4, LenProperties
<1>6. ToSet(a) = {Head(s)}
  BY <1>2, <1>4, <1>5 DEF ToSet
<1>7. Tail(s) = b
  BY <1>3
<1> HIDE DEF a, b
<1>8. ToSet(s) = {Head(s)} \cup ToSet(Tail(s)) /\ Head(s) \in ToSet(s)
  BY <1>4, <1>6, <1>7, Zenon
<1>9. ASSUME IsInjective(s)
      PROVE  IsInjective(Tail(s)) /\ Head(s) \notin ToSet(Tail(s))
  BY <1>9, <1>4, <1>6, <1>7, Zenon
<1>10. 1 \in DOMAIN s
  BY <1>1
<1> QED BY <1>2, <1>8, <1>9, <1>10, Zenon

\* What an empty batch and a batch of one hold.
LEMMA ShortElements ==
  /\ ToSet(<<>>) = {} /\ IsInjective(<<>>)
  /\ \A m : /\ ToSet(<<m>>) = {m} /\ IsInjective(<<m>>) /\ Len(<<m>>) = 1
            /\ Head(<<m>>) = m /\ <<m>> # <<>> /\ Tail(<<m>>) = <<>>
<1>1. ToSet(<<>>) = {} /\ IsInjective(<<>>)
  BY DEF ToSet, IsInjective
<1>2. ASSUME NEW m
      PROVE  /\ ToSet(<<m>>) = {m} /\ IsInjective(<<m>>) /\ Len(<<m>>) = 1
             /\ Head(<<m>>) = m /\ <<m>> # <<>> /\ Tail(<<m>>) = <<>>
  <2>1. <<m>> \in Seq({m}) /\ Len(<<m>>) = 1 /\ <<m>>[1] = m /\ DOMAIN <<m>> = 1..1
    OBVIOUS
  <2>2. ToSet(<<m>>) = {m} /\ IsInjective(<<m>>)
    BY <2>1 DEF ToSet, IsInjective
  <2>3. Head(<<m>>) = m /\ <<m>> # <<>>
    BY <2>1
  <2>4. Tail(<<m>>) \in Seq({m}) /\ Len(Tail(<<m>>)) = 0
    BY <2>1, <2>3, HeadTailProperties
  <2>5. Tail(<<m>>) = <<>>
    BY <2>4, EmptySeq
  <2> QED BY <2>1, <2>2, <2>3, <2>5
<1> QED BY <1>1, <1>2

\* A batch of one is the sequence of its head, and has an empty tail.
LEMMA OneElement ==
  ASSUME NEW S, NEW s \in Seq(S), Len(s) = 1
  PROVE  s = <<Head(s)>> /\ Head(s) \in S /\ s # <<>> /\ Tail(s) = <<>>
<1>1. s # <<>>
  OBVIOUS
<1>2. Head(s) \in S /\ Head(s) = s[1] /\ Tail(s) \in Seq(S) /\ Len(Tail(s)) = 0
  BY <1>1, TailElements
<1>3. s = <<Head(s)>>
  <2>1. <<Head(s)>> \in Seq(S) /\ Len(<<Head(s)>>) = 1 /\ <<Head(s)>>[1] = Head(s)
    BY <1>2
  <2> QED BY <2>1, <1>2, SeqEqual
<1>4. Tail(s) = <<>>
  BY <1>2, EmptySeq
<1> QED BY <1>1, <1>2, <1>3, <1>4

\* A message at the end of the queue.
LEMMA AppendElements ==
  ASSUME NEW S, NEW s \in Seq(S), NEW m \in S
  PROVE  /\ Append(s, m) \in Seq(S)
         /\ ToSet(Append(s, m)) = ToSet(s) \cup {m}
         /\ IsInjective(s) /\ m \notin ToSet(s) => IsInjective(Append(s, m))
<1>1. <<m>> \in Seq(S) /\ ToSet(<<m>>) = {m} /\ IsInjective(<<m>>)
  BY ShortElements
<1>2. Append(s, m) = s \o <<m>>
  OBVIOUS
<1>3. /\ s \o <<m>> \in Seq(S)
      /\ ToSet(s \o <<m>>) = ToSet(s) \cup ToSet(<<m>>)
      /\ IsInjective(s) /\ IsInjective(<<m>>) /\ ToSet(s) \cap ToSet(<<m>>) = {}
           => IsInjective(s \o <<m>>)
  BY <1>1, ConcatElements
<1> QED BY <1>1, <1>2, <1>3

\* A message taken out of the middle of the queue by removeByRequestId or
\* promoteToHead.
LEMMA SplicedElements ==
  ASSUME queue \in Seq(Msgs), IsInjective(queue), NEW m \in ToSet(queue)
  PROVE  /\ Spliced(m) \in Seq(Msgs) /\ IsInjective(Spliced(m))
         /\ ToSet(Spliced(m)) = ToSet(queue) \ {m}
<1> DEFINE i == CHOOSE j \in DOMAIN queue : queue[j] = m
           a == SubSeq(queue, 1, i - 1)  b == SubSeq(queue, i + 1, Len(queue))
           r == SubSeq(queue, (i - 1) + 1, Len(queue))
<1>1. i \in DOMAIN queue /\ queue[i] = m
  BY DEF ToSet
<1>2. /\ Len(queue) \in Nat /\ i \in 1 .. Len(queue)
      /\ i - 1 \in 0 .. Len(queue) /\ i \in 0 .. Len(queue)
  BY <1>1, LenProperties
<1>3. /\ a \in Seq(Msgs) /\ IsInjective(a)
      /\ ToSet(queue) = ToSet(a) \cup ToSet(r) /\ ToSet(a) \cap ToSet(r) = {}
      /\ IsInjective(r) /\ r \in Seq(Msgs) /\ Len(r) = Len(queue) - (i - 1)
      /\ \A k \in 1 .. Len(queue) - (i - 1) : r[k] = queue[(i - 1) + k]
  <2> HIDE DEF i
  <2> DEFINE p == i - 1
  <2>1. p \in 0 .. Len(queue)
    BY <1>2
  <2> HIDE DEF p
  <2>2. /\ SubSeq(queue, 1, p) \in Seq(Msgs) /\ IsInjective(SubSeq(queue, 1, p))
        /\ ToSet(queue) = ToSet(SubSeq(queue, 1, p))
                            \cup ToSet(SubSeq(queue, p + 1, Len(queue)))
        /\ ToSet(SubSeq(queue, 1, p)) \cap ToSet(SubSeq(queue, p + 1, Len(queue))) = {}
        /\ IsInjective(SubSeq(queue, p + 1, Len(queue)))
        /\ SubSeq(queue, p + 1, Len(queue)) \in Seq(Msgs)
        /\ Len(SubSeq(queue, p + 1, Len(queue))) = Len(queue) - p
        /\ \A k \in 1 .. Len(queue) - p :
             SubSeq(queue, p + 1, Len(queue))[k] = queue[p + k]
    BY <2>1, SplitElements
  <2> QED BY <2>2 DEF p
<1>4. r # <<>> /\ r[1] = m
  <2> HIDE DEF i, a, r
  <2>1. Len(r) > 0 /\ 1 \in 1 .. Len(queue) - (i - 1) /\ (i - 1) + 1 = i
    BY <1>2, <1>3
  <2> QED BY <2>1, <1>1, <1>3
<1>5. /\ Head(r) = m /\ Tail(r) \in Seq(Msgs) /\ ToSet(r) = {m} \cup ToSet(Tail(r))
      /\ IsInjective(Tail(r)) /\ m \notin ToSet(Tail(r))
  <2> HIDE DEF i, a, r
  <2> QED BY <1>3, <1>4, TailElements
<1>6. b = Tail(r)
  <2>1. (i - 1) + 1 = i
    <3> HIDE DEF i
    <3> QED BY <1>2
  <2>2. r = SubSeq(queue, i, Len(queue))
    BY <2>1
  <2>3. Tail(SubSeq(queue, i, Len(queue))) = SubSeq(queue, i + 1, Len(queue))
    <3> HIDE DEF i
    <3>1. i \in 1 .. Len(queue) /\ Len(queue) \in i .. Len(queue)
      BY <1>2
    <3> QED BY <3>1, HeadTailOfSubSeq
  <2> QED BY <2>2, <2>3
<1>7. Spliced(m) = a \o b
  BY DEF Spliced, RemoveAt
<1> HIDE DEF i, a, b, r
<1>8. ToSet(a) \cap ToSet(b) = {} /\ b \in Seq(Msgs) /\ IsInjective(b)
  BY <1>3, <1>5, <1>6
<1>9. /\ a \o b \in Seq(Msgs) /\ ToSet(a \o b) = ToSet(a) \cup ToSet(b)
      /\ IsInjective(a \o b)
  BY <1>3, <1>8, ConcatElements
<1>10. ToSet(a) \cup ToSet(b) = ToSet(queue) \ {m}
  BY <1>3, <1>5, <1>6
<1> QED BY <1>7, <1>9, <1>10

\* A set of numbers has a least one.
LEMMA LeastElement ==
  ASSUME NEW T, T \subseteq Nat, T # {}
  PROVE  \E x \in T : \A y \in T : x <= y
<1>1. PICK x \in T : \A y \in T : ~(<<y, x>> \in OpToRel(<, Nat))
  BY NatLessThanWellFounded, WFMin
<1>2. ASSUME NEW y \in T PROVE x <= y
  <2>1. ~(<<y, x>> \in OpToRel(<, Nat))
    BY <1>1
  <2>2. ~(y < x)
    BY <2>1 DEF OpToRel
  <2> QED BY <2>2
<1> QED BY <1>2

\* buildPassthroughBatch: a run is never empty, and is of one sender and of
\* no slash command unless it is one message.
LEMMA RunOfOneSender ==
  ASSUME NEW q \in Seq(Msgs), q # <<>>
  PROVE  /\ PassthroughRun(q) \in 1 .. Len(q)
         /\ \A i \in 1 .. PassthroughRun(q) : Sender[q[i]] = Sender[q[1]]
         /\ PassthroughRun(q) > 1 => \A i \in 1 .. PassthroughRun(q) : q[i] \notin Slash
<1> DEFINE k == Len(q)
           Breaks(j) == q[j] \in Slash \/ Sender[q[j]] # Sender[q[1]]
           Run(n) == /\ \A i \in 1..n : q[i] \notin Slash /\ Sender[q[i]] = Sender[q[1]]
                     /\ n < k => \/ q[n + 1] \in Slash
                                 \/ Sender[q[n + 1]] # Sender[q[1]]
           T == {n \in 1..k : n = k \/ Breaks(n + 1)}
<1>1. k \in Nat /\ k >= 1 /\ Head(q) = q[1]
  BY EmptySeq, LenProperties
<1>2. CASE Head(q) \in Slash
  <2>1. PassthroughRun(q) = 1
    BY <1>2 DEF PassthroughRun
  <2> HIDE DEF k
  <2>2. 1 \in 1..k /\ \A i \in 1..1 : i = 1
    BY <1>1
  <2> QED BY <2>1, <2>2 DEF k
<1>3. CASE Head(q) \notin Slash
  <2>1. PassthroughRun(q) = CHOOSE n \in 1..k : Run(n)
    BY <1>3 DEF PassthroughRun
  <2>2. \E n \in 1..k : Run(n)
    <3> HIDE DEF k
    <3>1. T \subseteq Nat /\ k \in T
      BY <1>1
    <3>2. PICK n \in T : \A y \in T : n <= y
      BY <3>1, LeastElement
    <3>3. n \in 1..k /\ (n < k => Breaks(n + 1))
      BY <3>2, <1>1
    <3>4. ASSUME NEW i \in 1..n PROVE q[i] \notin Slash /\ Sender[q[i]] = Sender[q[1]]
      <4>1. CASE i = 1
        BY <4>1, <1>1, <1>3
      <4>2. CASE i # 1
        <5>1. i - 1 \in 1..k /\ ~(n <= i - 1) /\ (i - 1) + 1 = i
          BY <4>2, <3>3, <1>1
        <5>2. i - 1 \notin T
          BY <5>1, <3>2
        <5>3. ~Breaks((i - 1) + 1)
          BY <5>1, <5>2
        <5> QED BY <5>1, <5>3
      <4> QED BY <4>1, <4>2
    <3>5. Run(n)
      BY <3>3, <3>4
    <3> QED BY <3>3, <3>5
  <2> HIDE DEF k, Run
  <2>3. PassthroughRun(q) \in 1..k /\ Run(PassthroughRun(q))
    BY <2>1, <2>2
  <2> QED BY <2>3 DEF Run, k
<1> QED BY <1>2, <1>3

----------------------------------------------------------------------------
(* The moves of messages.                                                  *)

\* No message moves.
Kept == UNCHANGED <<queue, batch, outcome, view>>

\* m is new to chain c, or the one message it brings.
Fresh(c, m) == (outcome[m] = "unsent" /\ batch[c] = <<>>) \/ batch[c] = <<m>>

\* A send goes on with its message in hand.
Brought(c, m) ==
  /\ outcome[m] = "unsent" /\ batch[c] = <<>>
  /\ batch' = [batch EXCEPT ![c] = <<m>>]
  /\ outcome' = [outcome EXCEPT ![m] = "pending"]
  /\ UNCHANGED <<queue, view>>

\* A message goes to the end of the queue.
Queued(c, m) ==
  /\ Fresh(c, m)
  /\ queue' = Append(queue, m)
  /\ batch' = [batch EXCEPT ![c] = <<>>]
  /\ outcome' = [outcome EXCEPT ![m] = "pending"]
  /\ view' = [view EXCEPT ![m] = IF m \in Hidden THEN "none" ELSE "queued"]

\* The queue is full.
Refused(c, m) ==
  /\ Fresh(c, m)
  /\ batch' = [batch EXCEPT ![c] = <<>>]
  /\ outcome' = [outcome EXCEPT ![m] = "rejected"]
  /\ UNCHANGED <<queue, view>>

\* A drain takes the first n.
Taken(c, n) ==
  /\ batch[c] = <<>> /\ queue # <<>> /\ n \in 1 .. Len(queue)
  /\ batch' = [batch EXCEPT ![c] = SubSeq(queue, 1, n)]
  /\ queue' = SubSeq(queue, n + 1, Len(queue))
  /\ view' = Announced(view, Head(queue))
  /\ UNCHANGED outcome

\* A drain gives back what it had taken.
Returned(c) ==
  /\ stage[c] = "resolving"
  /\ queue' = batch[c] \o queue
  /\ batch' = [batch EXCEPT ![c] = <<>>]
  /\ view' = [m \in Msgs |-> IF m \in ToSet(batch[c]) /\ view[m] = "released"
                             THEN "queued" ELSE view[m]]
  /\ UNCHANGED outcome

\* The first message in hand comes to its end, and the next one, if there is
\* one and no Stop came between, is announced.
Ended(c, end) ==
  /\ batch[c] # <<>> /\ end \in Outcomes \ {"unsent", "pending"}
  /\ outcome' = [outcome EXCEPT ![Head(batch[c])] = end]
  /\ \/ /\ Tail(batch[c]) # <<>>
        /\ batch' = [batch EXCEPT ![c] = Tail(batch[c])]
        /\ view' = Announced(view, Head(Tail(batch[c])))
     \/ /\ Tail(batch[c]) = <<>> \/ abortController = "aborted"
        /\ batch' = [batch EXCEPT ![c] = <<>>]
        /\ UNCHANGED view
  /\ UNCHANGED queue

\* The messages of S, all of them queued, are deleted and their senders told.
Deleted(S) ==
  /\ S \subseteq ToSet(queue)
  /\ queue' \in Seq(Msgs) /\ IsInjective(queue') /\ ToSet(queue') = ToSet(queue) \ S
  /\ outcome' = [m \in Msgs |-> IF m \in S THEN "deleted" ELSE outcome[m]]
  /\ view' = [m \in Msgs |-> IF m \in S \ Hidden THEN "deleted" ELSE view[m]]
  /\ UNCHANGED batch

\* The queue is put in another order.
Reordered ==
  /\ queue' \in Seq(Msgs) /\ IsInjective(queue') /\ ToSet(queue') = ToSet(queue)
  /\ UNCHANGED <<batch, outcome, view>>

\* But for chain c, a chain begins to resolve only what it already had.
NoneResolves(c) ==
  \A d \in Chains \ {c} :
    stage'[d] = "resolving" => stage[d] = "resolving" \/ Len(batch[d]) > 1

\* The members of a queue or a batch are messages.
LEMMA ElementsAreMsgs ==
  ASSUME NEW s \in Seq(Msgs)
  PROVE  ToSet(s) \subseteq Msgs
BY LenProperties, ElementOfSeq DEF ToSet

\* A message that was not sent yet is nowhere (SendMessage's guard).
LEMMA UnsentIsNowhere ==
  ASSUME HeldOnce, NEW m \in Msgs, outcome[m] = "unsent"
  PROVE  m \notin ToSet(queue) /\ \A c \in Chains : m \notin ToSet(batch[c])
BY DEF HeldOnce

\* The send route's accepted message in the hands of its chain.
LEMMA BroughtStep ==
  ASSUME MsgInv, NEW c \in Chains, NEW m \in Msgs, Brought(c, m),
         NoneResolves(c), stage'[c] # "resolving"
  PROVE  MsgInv'
<1> USE DEF MsgInv
<1>1. /\ ToSet(<<m>>) = {m} /\ IsInjective(<<m>>) /\ Len(<<m>>) = 1
      /\ Head(<<m>>) = m /\ <<m>> # <<>>
  BY ShortElements
<1>2. /\ batch' \in [Chains -> Seq(Msgs)] /\ batch'[c] = <<m>>
      /\ \A d \in Chains : d # c => batch'[d] = batch[d]
      /\ queue' = queue /\ view' = view
  BY DEF Brought, MsgTypes
<1>3. /\ outcome' \in [Msgs -> Outcomes] /\ outcome'[m] = "pending"
      /\ \A n \in Msgs : n # m => outcome'[n] = outcome[n]
  BY DEF Brought, MsgTypes, Outcomes
<1>4. m \notin ToSet(queue) /\ \A d \in Chains : m \notin ToSet(batch[d])
  BY UnsentIsNowhere DEF Brought
<1>5. ToSet(queue) \subseteq Msgs /\ \A d \in Chains : ToSet(batch[d]) \subseteq Msgs
  BY ElementsAreMsgs DEF MsgTypes
<1>6. MsgTypes'
  BY <1>2, <1>3 DEF MsgTypes
<1>7. HeldOnce'
  <2>1. \A d \in Chains :
          ToSet(batch'[d]) = IF d = c THEN {m} ELSE ToSet(batch[d])
    BY <1>1, <1>2
  <2>2. \A d \in Chains : IsInjective(batch'[d])
    BY <1>1, <1>2 DEF HeldOnce
  <2>3. \A n \in ToSet(queue') : outcome'[n] = "pending"
    BY <1>2, <1>3, <1>5 DEF HeldOnce
  <2>4. \A d \in Chains : \A n \in ToSet(batch'[d]) : outcome'[n] = "pending"
    BY <2>1, <1>3, <1>5 DEF HeldOnce
  <2>5. \A d \in Chains : ToSet(batch'[d]) \cap ToSet(queue') = {}
    BY <2>1, <1>2, <1>4 DEF HeldOnce
  <2>6. \A d \in Chains : \A e \in Chains \ {d} :
          ToSet(batch'[d]) \cap ToSet(batch'[e]) = {}
    BY <2>1, <1>4 DEF HeldOnce
  <2> QED BY <1>2, <2>2, <2>3, <2>4, <2>5, <2>6 DEF HeldOnce
<1>8. RowsInHand'
  <2> SUFFICES ASSUME NEW d \in Chains
               PROVE  /\ batch'[d] # <<>> /\ Head(batch'[d]) \notin Hidden
                           => view'[Head(batch'[d])] # "queued"
                      /\ stage'[d] = "resolving" \/ Len(batch'[d]) > 1 =>
                           \A n \in ToSet(batch'[d]) \ Hidden :
                             view'[n] \in {"queued", "released"}
    BY DEF RowsInHand
  <2>1. CASE d = c
    BY <2>1, <1>1, <1>2 DEF Brought, RowsRight
  <2>2. CASE d # c
    BY <2>2, <1>2 DEF RowsInHand, NoneResolves
  <2> QED BY <2>1, <2>2
<1>9. RowsRight'
  BY <1>2, <1>3, <1>4 DEF RowsRight, ClientRowsMatch
<1> QED BY <1>6, <1>7, <1>8, <1>9

\* A fresh message is in no other place than the hands of its chain, and no
\* client shows it as queued.
LEMMA FreshIsElsewhere ==
  ASSUME MsgInv, NEW c \in Chains, NEW m \in Msgs, Fresh(c, m)
  PROVE  /\ m \notin ToSet(queue)
         /\ \A d \in Chains \ {c} : m \notin ToSet(batch[d])
         /\ ToSet(batch[c]) \subseteq {m}
         /\ m \notin Hidden => view[m] # "queued"
<1>1. CASE outcome[m] = "unsent" /\ batch[c] = <<>>
  <2>1. m \notin ToSet(queue) /\ \A d \in Chains : m \notin ToSet(batch[d])
    BY <1>1, UnsentIsNowhere DEF MsgInv
  <2>2. ToSet(batch[c]) = {}
    BY <1>1, ShortElements
  <2>3. view[m] = "none"
    BY <1>1 DEF MsgInv, RowsRight
  <2> QED BY <2>1, <2>2, <2>3
<1>2. CASE batch[c] = <<m>>
  <2>1. ToSet(batch[c]) = {m} /\ Head(batch[c]) = m /\ batch[c] # <<>>
    BY <1>2, ShortElements
  <2> QED BY <2>1 DEF MsgInv, HeldOnce, RowsInHand
<1> QED BY <1>1, <1>2 DEF Fresh

\* A push (MessageQueue.push), of a send or of an interrupt that gave up.
LEMMA QueuedStep ==
  ASSUME MsgInv, NEW c \in Chains, NEW m \in Msgs, Queued(c, m),
         NoneResolves(c), stage'[c] # "resolving"
  PROVE  MsgInv'
<1> USE DEF MsgInv
<1>0. /\ queue \in Seq(Msgs) /\ batch \in [Chains -> Seq(Msgs)]
      /\ queue' = Append(queue, m)
  BY DEF MsgTypes, Queued
<1>1. ToSet(<<>>) = {} /\ IsInjective(<<>>) /\ Len(<<>>) = 0 /\ <<>> \in Seq(Msgs)
  BY ShortElements, EmptySeq
<1>2. /\ batch' \in [Chains -> Seq(Msgs)] /\ batch'[c] = <<>>
      /\ \A d \in Chains : d # c => batch'[d] = batch[d]
  BY <1>1 DEF Queued, MsgTypes
<1>3. /\ outcome' \in [Msgs -> Outcomes] /\ outcome'[m] = "pending"
      /\ \A n \in Msgs : n # m => outcome'[n] = outcome[n]
  BY DEF Queued, MsgTypes, Outcomes
<1>4. /\ m \notin ToSet(queue) /\ \A d \in Chains \ {c} : m \notin ToSet(batch[d])
  BY FreshIsElsewhere DEF Queued
<1>5. ToSet(queue) \subseteq Msgs /\ \A d \in Chains : ToSet(batch[d]) \subseteq Msgs
  BY <1>0, ElementsAreMsgs
<1>6. /\ view' \in [Msgs -> {"none", "queued", "released", "deleted"}]
      /\ m \notin Hidden => view'[m] = "queued"
      /\ \A n \in Msgs : n # m => view'[n] = view[n]
  BY DEF Queued, MsgTypes
<1>7. /\ queue' \in Seq(Msgs) /\ ToSet(queue') = ToSet(queue) \cup {m}
      /\ IsInjective(queue')
  <2>1. IsInjective(queue)
    BY DEF HeldOnce
  <2> QED BY <1>0, <1>4, <2>1, AppendElements
<1>8. MsgTypes'
  BY <1>2, <1>3, <1>6, <1>7 DEF MsgTypes
<1>9. HeldOnce'
  <2>1. \A d \in Chains :
          ToSet(batch'[d]) = IF d = c THEN {} ELSE ToSet(batch[d])
    BY <1>1, <1>2
  <2>2. \A d \in Chains : IsInjective(batch'[d])
    BY <1>1, <1>2 DEF HeldOnce
  <2>3. \A n \in ToSet(queue') : outcome'[n] = "pending"
    BY <1>7, <1>3, <1>5 DEF HeldOnce
  <2>4. \A d \in Chains : \A n \in ToSet(batch'[d]) : outcome'[n] = "pending"
    BY <2>1, <1>3, <1>4, <1>5 DEF HeldOnce
  <2>5. \A d \in Chains : ToSet(batch'[d]) \cap ToSet(queue') = {}
    BY <2>1, <1>4, <1>7 DEF HeldOnce
  <2>6. \A d \in Chains : \A e \in Chains \ {d} :
          ToSet(batch'[d]) \cap ToSet(batch'[e]) = {}
    BY <2>1 DEF HeldOnce
  <2> QED BY <1>7, <2>2, <2>3, <2>4, <2>5, <2>6 DEF HeldOnce
<1>10. RowsInHand'
  <2> SUFFICES ASSUME NEW d \in Chains
               PROVE  /\ batch'[d] # <<>> /\ Head(batch'[d]) \notin Hidden
                           => view'[Head(batch'[d])] # "queued"
                      /\ stage'[d] = "resolving" \/ Len(batch'[d]) > 1 =>
                           \A n \in ToSet(batch'[d]) \ Hidden :
                             view'[n] \in {"queued", "released"}
    BY DEF RowsInHand
  <2>1. CASE d = c
    BY <2>1, <1>1, <1>2
  <2>2. CASE d # c
    <3>1. \A n \in ToSet(batch[d]) : view'[n] = view[n]
      BY <2>2, <1>4, <1>5, <1>6
    <3>2. batch[d] # <<>> => Head(batch[d]) \in ToSet(batch[d])
      BY <1>0, TailElements
    <3> QED BY <2>2, <1>2, <3>1, <3>2 DEF RowsInHand, NoneResolves
  <2> QED BY <2>1, <2>2
<1>11. RowsRight'
  BY <1>3, <1>6, <1>7 DEF RowsRight, ClientRowsMatch
<1> QED BY <1>8, <1>9, <1>10, <1>11

\* The queue_full error.
LEMMA RefusedStep ==
  ASSUME MsgInv, NEW c \in Chains, NEW m \in Msgs, Refused(c, m),
         NoneResolves(c), stage'[c] # "resolving"
  PROVE  MsgInv'
<1> USE DEF MsgInv
<1>1. ToSet(<<>>) = {} /\ IsInjective(<<>>) /\ Len(<<>>) = 0 /\ <<>> \in Seq(Msgs)
  BY ShortElements, EmptySeq
<1>2. /\ batch' \in [Chains -> Seq(Msgs)] /\ batch'[c] = <<>>
      /\ \A d \in Chains : d # c => batch'[d] = batch[d]
      /\ queue' = queue /\ view' = view
  BY <1>1 DEF Refused, MsgTypes
<1>3. /\ outcome' \in [Msgs -> Outcomes] /\ outcome'[m] = "rejected"
      /\ \A n \in Msgs : n # m => outcome'[n] = outcome[n]
  BY DEF Refused, MsgTypes, Outcomes
<1>4. /\ m \notin ToSet(queue) /\ \A d \in Chains \ {c} : m \notin ToSet(batch[d])
      /\ m \notin Hidden => view[m] # "queued"
  BY FreshIsElsewhere DEF Refused
<1>5. ToSet(queue) \subseteq Msgs /\ \A d \in Chains : ToSet(batch[d]) \subseteq Msgs
  BY ElementsAreMsgs DEF MsgTypes
<1>6. MsgTypes'
  BY <1>2, <1>3 DEF MsgTypes
<1>7. HeldOnce'
  <2>1. \A d \in Chains :
          ToSet(batch'[d]) = IF d = c THEN {} ELSE ToSet(batch[d])
    BY <1>1, <1>2
  <2>2. \A d \in Chains : IsInjective(batch'[d])
    BY <1>1, <1>2 DEF HeldOnce
  <2>3. \A n \in ToSet(queue') : outcome'[n] = "pending"
    BY <1>2, <1>3, <1>4, <1>5 DEF HeldOnce
  <2>4. \A d \in Chains : \A n \in ToSet(batch'[d]) : outcome'[n] = "pending"
    BY <2>1, <1>3, <1>4, <1>5 DEF HeldOnce
  <2>5. \A d \in Chains : ToSet(batch'[d]) \cap ToSet(queue') = {}
    BY <2>1, <1>2 DEF HeldOnce
  <2>6. \A d \in Chains : \A e \in Chains \ {d} :
          ToSet(batch'[d]) \cap ToSet(batch'[e]) = {}
    BY <2>1 DEF HeldOnce
  <2> QED BY <1>2, <2>2, <2>3, <2>4, <2>5, <2>6 DEF HeldOnce
<1>8. RowsInHand'
  BY <1>1, <1>2 DEF RowsInHand, NoneResolves
<1>9. RowsRight'
  BY <1>2, <1>3, <1>4 DEF RowsRight, ClientRowsMatch
<1> QED BY <1>6, <1>7, <1>8, <1>9

\* drainQueue's pop: the head is announced, the others keep their rows.
LEMMA TakenStep ==
  ASSUME MsgInv, NEW c \in Chains, NEW n, Taken(c, n), NoneResolves(c)
  PROVE  MsgInv'
<1> USE DEF MsgInv
<1> DEFINE a == SubSeq(queue, 1, n)  b == SubSeq(queue, n + 1, Len(queue))
           h == Head(queue)
<1>0. /\ queue \in Seq(Msgs) /\ batch \in [Chains -> Seq(Msgs)] /\ queue # <<>>
      /\ n \in 1 .. Len(queue) /\ n \in 0 .. Len(queue) /\ Len(queue) \in Nat
  <2>1. queue \in Seq(Msgs) /\ batch \in [Chains -> Seq(Msgs)] /\ queue # <<>>
        /\ n \in 1 .. Len(queue)
    BY DEF MsgTypes, Taken
  <2>2. Len(queue) \in Nat
    BY <2>1, LenProperties
  <2> QED BY <2>1, <2>2
<1>1. IsInjective(queue)
  BY DEF HeldOnce
<1>2. /\ a \in Seq(Msgs) /\ b \in Seq(Msgs) /\ Len(a) = n
      /\ \A i \in 1..n : a[i] = queue[i]
      /\ ToSet(queue) = ToSet(a) \cup ToSet(b)
      /\ IsInjective(a) /\ IsInjective(b) /\ ToSet(a) \cap ToSet(b) = {}
  BY <1>0, <1>1, SplitElements
<1>3. h \in Msgs /\ h \in ToSet(queue) /\ h = queue[1]
  BY <1>0, TailElements
<1>4. a # <<>> /\ Head(a) = h /\ h \in ToSet(a) /\ h \notin ToSet(b)
  <2> HIDE DEF a, b, h
  <2>1. a # <<>>
    BY <1>0, <1>2
  <2>2. Head(a) = a[1] /\ Head(a) \in ToSet(a)
    BY <1>2, <2>1, TailElements
  <2>3. 1 \in 1..n
    BY <1>0
  <2> QED BY <2>1, <2>2, <2>3, <1>2, <1>3
<1>5. /\ batch' \in [Chains -> Seq(Msgs)] /\ batch'[c] = a
      /\ \A d \in Chains : d # c => batch'[d] = batch[d]
      /\ queue' = b /\ outcome' = outcome
  BY <1>0, <1>2 DEF Taken
<1>6. /\ view' \in [Msgs -> {"none", "queued", "released", "deleted"}]
      /\ h \notin Hidden => view'[h] = "released"
      /\ \A m \in Msgs : m # h => view'[m] = view[m]
  <2> HIDE DEF h
  <2>1. view' = [view EXCEPT ![h] = IF h \in Hidden THEN "none" ELSE "released"]
    BY DEF Taken, Announced, h
  <2> QED BY <2>1, <1>3 DEF MsgTypes
<1>7. ToSet(queue) \subseteq Msgs /\ \A d \in Chains : ToSet(batch[d]) \subseteq Msgs
  BY <1>0, ElementsAreMsgs
<1> HIDE DEF a, b, h
<1>8. MsgTypes'
  BY <1>2, <1>5, <1>6 DEF MsgTypes
<1>9. HeldOnce'
  <2>1. \A d \in Chains :
          ToSet(batch'[d]) = IF d = c THEN ToSet(a) ELSE ToSet(batch[d])
    BY <1>5
  <2>2. \A d \in Chains : IsInjective(batch'[d])
    BY <1>2, <1>5 DEF HeldOnce
  <2>3. \A m \in ToSet(queue') : outcome'[m] = "pending"
    BY <1>2, <1>5 DEF HeldOnce
  <2>4. \A d \in Chains : \A m \in ToSet(batch'[d]) : outcome'[m] = "pending"
    BY <2>1, <1>2, <1>5 DEF HeldOnce
  <2>5. \A d \in Chains : ToSet(batch'[d]) \cap ToSet(queue') = {}
    BY <2>1, <1>2, <1>5 DEF HeldOnce
  <2>6. \A d \in Chains : \A e \in Chains \ {d} :
          ToSet(batch'[d]) \cap ToSet(batch'[e]) = {}
    BY <2>1, <1>2 DEF HeldOnce
  <2> QED BY <1>2, <1>5, <2>2, <2>3, <2>4, <2>5, <2>6 DEF HeldOnce
<1>10. RowsInHand'
  <2> SUFFICES ASSUME NEW d \in Chains
               PROVE  /\ batch'[d] # <<>> /\ Head(batch'[d]) \notin Hidden
                           => view'[Head(batch'[d])] # "queued"
                      /\ stage'[d] = "resolving" \/ Len(batch'[d]) > 1 =>
                           \A m \in ToSet(batch'[d]) \ Hidden :
                             view'[m] \in {"queued", "released"}
    BY DEF RowsInHand
  <2>1. CASE d = c
    <3>1. \A m \in ToSet(a) \ Hidden : view[m] = "queued"
      BY <1>2, <1>7 DEF RowsRight, ClientRowsMatch
    <3> QED BY <2>1, <3>1, <1>2, <1>4, <1>5, <1>6, <1>7
  <2>2. CASE d # c
    <3>1. \A m \in ToSet(batch[d]) : view'[m] = view[m]
      BY <1>3, <1>6, <1>7 DEF HeldOnce
    <3>2. batch[d] # <<>> => Head(batch[d]) \in ToSet(batch[d])
      BY <1>0, TailElements
    <3> QED BY <2>2, <1>5, <3>1, <3>2 DEF RowsInHand, NoneResolves
  <2> QED BY <2>1, <2>2
<1>11. RowsRight'
  <2>1. \A m \in Msgs : outcome[m] = "unsent" => m # h
    BY <1>3 DEF HeldOnce
  <2>2. \A m \in ToSet(b) : m # h
    BY <1>4
  <2> QED BY <2>1, <2>2, <1>2, <1>3, <1>5, <1>6 DEF RowsRight, ClientRowsMatch
<1> QED BY <1>8, <1>9, <1>10, <1>11

\* requeueDrainedMessages: what goes back to the front gets its row again.
LEMMA ReturnedStep ==
  ASSUME MsgInv, NEW c \in Chains, Returned(c), NoneResolves(c),
         stage'[c] # "resolving"
  PROVE  MsgInv'
<1> USE DEF MsgInv
<1>0. /\ queue \in Seq(Msgs) /\ batch \in [Chains -> Seq(Msgs)] /\ batch[c] \in Seq(Msgs)
  BY DEF MsgTypes
<1>1. ToSet(<<>>) = {} /\ IsInjective(<<>>) /\ Len(<<>>) = 0 /\ <<>> \in Seq(Msgs)
  BY ShortElements, EmptySeq
<1>2. /\ batch' \in [Chains -> Seq(Msgs)] /\ batch'[c] = <<>>
      /\ \A d \in Chains : d # c => batch'[d] = batch[d]
      /\ outcome' = outcome /\ queue' = batch[c] \o queue
  BY <1>0, <1>1 DEF Returned
<1>3. ToSet(queue) \subseteq Msgs /\ \A d \in Chains : ToSet(batch[d]) \subseteq Msgs
  BY <1>0, ElementsAreMsgs
<1>4. /\ queue' \in Seq(Msgs) /\ ToSet(queue') = ToSet(batch[c]) \cup ToSet(queue)
      /\ IsInjective(queue')
  <2>1. /\ IsInjective(queue) /\ IsInjective(batch[c])
        /\ ToSet(batch[c]) \cap ToSet(queue) = {}
    BY DEF HeldOnce
  <2> QED BY <1>0, <1>2, <2>1, ConcatElements
<1>5. /\ view' \in [Msgs -> {"none", "queued", "released", "deleted"}]
      /\ \A m \in ToSet(batch[c]) \ Hidden : view'[m] = "queued"
      /\ \A m \in Msgs : m \notin ToSet(batch[c]) => view'[m] = view[m]
  <2>1. \A m \in ToSet(batch[c]) \ Hidden : view[m] \in {"queued", "released"}
    BY DEF RowsInHand, Returned
  <2> QED BY <2>1, <1>3 DEF Returned, MsgTypes
<1>6. MsgTypes'
  BY <1>2, <1>4, <1>5 DEF MsgTypes
<1>7. HeldOnce'
  <2>1. \A d \in Chains :
          ToSet(batch'[d]) = IF d = c THEN {} ELSE ToSet(batch[d])
    BY <1>1, <1>2
  <2>2. \A d \in Chains : IsInjective(batch'[d])
    BY <1>1, <1>2 DEF HeldOnce
  <2>3. \A m \in ToSet(queue') : outcome'[m] = "pending"
    BY <1>2, <1>4 DEF HeldOnce
  <2>4. \A d \in Chains : \A m \in ToSet(batch'[d]) : outcome'[m] = "pending"
    BY <2>1, <1>2 DEF HeldOnce
  <2>5. \A d \in Chains : ToSet(batch'[d]) \cap ToSet(queue') = {}
    BY <2>1, <1>4 DEF HeldOnce
  <2>6. \A d \in Chains : \A e \in Chains \ {d} :
          ToSet(batch'[d]) \cap ToSet(batch'[e]) = {}
    BY <2>1 DEF HeldOnce
  <2> QED BY <1>4, <2>2, <2>3, <2>4, <2>5, <2>6 DEF HeldOnce
<1>8. RowsInHand'
  <2> SUFFICES ASSUME NEW d \in Chains
               PROVE  /\ batch'[d] # <<>> /\ Head(batch'[d]) \notin Hidden
                           => view'[Head(batch'[d])] # "queued"
                      /\ stage'[d] = "resolving" \/ Len(batch'[d]) > 1 =>
                           \A m \in ToSet(batch'[d]) \ Hidden :
                             view'[m] \in {"queued", "released"}
    BY DEF RowsInHand
  <2>1. CASE d = c
    BY <2>1, <1>1, <1>2
  <2>2. CASE d # c
    <3>1. \A m \in ToSet(batch[d]) : view'[m] = view[m]
      BY <2>2, <1>3, <1>5 DEF HeldOnce
    <3>2. batch[d] # <<>> => Head(batch[d]) \in ToSet(batch[d])
      BY <1>0, TailElements
    <3> QED BY <2>2, <1>2, <3>1, <3>2 DEF RowsInHand, NoneResolves
  <2> QED BY <2>1, <2>2
<1>9. RowsRight'
  <2>1. \A m \in ToSet(batch[c]) : outcome[m] = "pending"
    BY DEF HeldOnce
  <2> QED BY <2>1, <1>2, <1>4, <1>5 DEF RowsRight, ClientRowsMatch
<1> QED BY <1>6, <1>7, <1>8, <1>9

\* A message in hand is persisted, executed, skipped or failed, and the next
\* one is announced in its turn.
LEMMA EndedStep ==
  ASSUME MsgInv, NEW c \in Chains, NEW end, Ended(c, end), NoneResolves(c)
  PROVE  MsgInv'
<1> USE DEF MsgInv
<1> DEFINE s == batch[c]  h == Head(s)  r == Tail(s)
<1>0. /\ queue \in Seq(Msgs) /\ batch \in [Chains -> Seq(Msgs)] /\ s \in Seq(Msgs)
      /\ s # <<>> /\ IsInjective(s)
  BY DEF MsgTypes, Ended, HeldOnce
<1>1. /\ h \in Msgs /\ h \in ToSet(s) /\ r \in Seq(Msgs) /\ Len(r) = Len(s) - 1
      /\ ToSet(s) = {h} \cup ToSet(r) /\ IsInjective(r) /\ h \notin ToSet(r)
  <2> HIDE DEF s
  <2> QED BY <1>0, TailElements
<1>2. ToSet(<<>>) = {} /\ IsInjective(<<>>) /\ Len(<<>>) = 0 /\ <<>> \in Seq(Msgs)
  BY ShortElements, EmptySeq
<1>3. ToSet(queue) \subseteq Msgs /\ \A d \in Chains : ToSet(batch[d]) \subseteq Msgs
  BY <1>0, ElementsAreMsgs
<1>4. /\ outcome' \in [Msgs -> Outcomes] /\ outcome'[h] = end
      /\ \A m \in Msgs : m # h => outcome'[m] = outcome[m]
      /\ end \notin {"unsent", "pending"}
  <2>1. /\ outcome' = [outcome EXCEPT ![h] = end]
        /\ end \in Outcomes \ {"unsent", "pending"}
    BY DEF Ended
  <2> HIDE DEF h
  <2> QED BY <2>1, <1>1 DEF MsgTypes
<1>5. /\ batch' \in [Chains -> Seq(Msgs)] /\ queue' = queue
      /\ batch'[c] = r \/ batch'[c] = <<>>
      /\ \A d \in Chains : d # c => batch'[d] = batch[d]
  <2>1. batch' = [batch EXCEPT ![c] = r] \/ batch' = [batch EXCEPT ![c] = <<>>]
    BY DEF Ended
  <2> HIDE DEF r
  <2> QED BY <2>1, <1>0, <1>1, <1>2 DEF Ended
<1>6. \A d \in Chains \ {c} : h \notin ToSet(batch[d]) /\ ToSet(r) \cap ToSet(batch[d]) = {}
  <2> HIDE DEF h, r
  <2> QED BY <1>1 DEF HeldOnce
<1>7. h \notin ToSet(queue) /\ ToSet(r) \cap ToSet(queue) = {}
  <2> HIDE DEF h, r
  <2> QED BY <1>1 DEF HeldOnce
<1>8. h \notin Hidden => view[h] # "queued"
  BY <1>0 DEF RowsInHand
<1>9. \/ /\ r # <<>> /\ batch'[c] = r
         /\ view' = Announced(view, Head(r))
      \/ batch'[c] = <<>> /\ view' = view
  <2>1. \/ /\ r # <<>> /\ batch' = [batch EXCEPT ![c] = r]
           /\ view' = Announced(view, Head(r))
        \/ batch' = [batch EXCEPT ![c] = <<>>] /\ view' = view
    BY DEF Ended
  <2> HIDE DEF r
  <2> QED BY <2>1, <1>0
<1>10. r # <<>> => /\ Head(r) \in ToSet(r) /\ Head(r) \in Msgs
                   /\ Len(s) > 1 /\ outcome[Head(r)] = "pending"
  <2> SUFFICES ASSUME r # <<>>
               PROVE  /\ Head(r) \in ToSet(r) /\ Head(r) \in Msgs
                      /\ Len(s) > 1 /\ outcome[Head(r)] = "pending"
    OBVIOUS
  <2>1. \A m \in ToSet(s) : outcome[m] = "pending"
    BY DEF HeldOnce
  <2>2. Len(s) \in Nat /\ (r # <<>> => Len(r) > 0)
    <3> HIDE DEF s, r
    <3> QED BY <1>0, <1>1, LenProperties, EmptySeq
  <2> HIDE DEF s, r
  <2>3. Head(r) \in ToSet(r) /\ Head(r) \in Msgs
    BY <1>1, TailElements
  <2> QED BY <1>1, <2>1, <2>2, <2>3
<1>11. /\ view' \in [Msgs -> {"none", "queued", "released", "deleted"}]
       /\ \A m \in Msgs : m \notin ToSet(r) => view'[m] = view[m]
       /\ \A m \in Msgs : view'[m] = view[m] \/ (m \in ToSet(r) /\ (m \in Hidden \/ view'[m] = "released"))
       /\ batch'[c] # <<>> => Head(batch'[c]) \in Hidden \/ view'[Head(batch'[c])] = "released"
  <2> HIDE DEF r
  <2> QED BY <1>9, <1>10 DEF Announced, MsgTypes
<1> HIDE DEF s, h, r
<1>12. MsgTypes'
  BY <1>0, <1>4, <1>5, <1>11 DEF MsgTypes
<1>13. HeldOnce'
  <2>1. /\ \A d \in Chains : d # c => ToSet(batch'[d]) = ToSet(batch[d])
        /\ ToSet(batch'[c]) \subseteq ToSet(r)
    BY <1>2, <1>5
  <2>2. \A d \in Chains : IsInjective(batch'[d])
    BY <1>1, <1>2, <1>5 DEF HeldOnce
  <2>3. \A m \in ToSet(queue') : outcome'[m] = "pending"
    BY <1>3, <1>4, <1>5, <1>7 DEF HeldOnce
  <2>4. \A d \in Chains : \A m \in ToSet(batch'[d]) : outcome'[m] = "pending"
    <3>1. ASSUME NEW m \in ToSet(batch'[c]) PROVE outcome'[m] = "pending"
      <4>1. m \in ToSet(batch[c]) /\ m # h /\ m \in Msgs
        BY <2>1, <1>1, <1>3 DEF s
      <4> QED BY <4>1, <1>4 DEF HeldOnce
    <3>2. ASSUME NEW d \in Chains, d # c, NEW m \in ToSet(batch'[d])
          PROVE  outcome'[m] = "pending"
      <4>1. m \in ToSet(batch[d]) /\ m # h /\ m \in Msgs
        BY <3>2, <2>1, <1>3, <1>6
      <4> QED BY <4>1, <1>4 DEF HeldOnce
    <3> QED BY <3>1, <3>2
  <2>5. \A d \in Chains : ToSet(batch'[d]) \cap ToSet(queue') = {}
    BY <2>1, <1>5, <1>7 DEF HeldOnce
  <2>6. \A d \in Chains : \A e \in Chains \ {d} :
          ToSet(batch'[d]) \cap ToSet(batch'[e]) = {}
    BY <2>1, <1>6 DEF HeldOnce
  <2> QED BY <1>5, <2>2, <2>3, <2>4, <2>5, <2>6 DEF HeldOnce
<1>14. RowsInHand'
  <2> SUFFICES ASSUME NEW d \in Chains
               PROVE  /\ batch'[d] # <<>> /\ Head(batch'[d]) \notin Hidden
                           => view'[Head(batch'[d])] # "queued"
                      /\ stage'[d] = "resolving" \/ Len(batch'[d]) > 1 =>
                           \A m \in ToSet(batch'[d]) \ Hidden :
                             view'[m] \in {"queued", "released"}
    BY DEF RowsInHand
  <2>1. CASE d = c /\ batch'[c] # <<>>
    <3>1. batch'[c] = r /\ Len(s) > 1
      BY <2>1, <1>9, <1>10
    <3>2. \A m \in ToSet(r) \ Hidden : view[m] \in {"queued", "released"}
      BY <3>1, <1>1 DEF RowsInHand, s
    <3>3. ToSet(r) \subseteq Msgs
      BY <1>1, ElementsAreMsgs
    <3> QED BY <2>1, <3>1, <3>2, <3>3, <1>11
  <2>2. CASE d = c /\ batch'[c] = <<>>
    BY <2>2, <1>2
  <2>3. CASE d # c
    <3>1. \A m \in ToSet(batch[d]) : view'[m] = view[m]
      BY <2>3, <1>3, <1>6, <1>11
    <3>2. batch[d] # <<>> => Head(batch[d]) \in ToSet(batch[d])
      BY <1>0, TailElements
    <3> QED BY <2>3, <1>5, <3>1, <3>2 DEF RowsInHand, NoneResolves
  <2> QED BY <2>1, <2>2, <2>3
<1>15. RowsRight'
  <2>1. \A m \in ToSet(r) : outcome[m] = "pending"
    BY <1>1 DEF HeldOnce, s
  <2>2. ASSUME NEW m \in Msgs \ Hidden, m \in ToSet(queue') PROVE view'[m] = "queued"
    <3>1. m \in ToSet(queue) /\ m \notin ToSet(r)
      BY <2>2, <1>5, <1>7
    <3> QED BY <3>1, <1>11 DEF RowsRight, ClientRowsMatch
  <2>3. ASSUME NEW m \in Msgs \ Hidden, outcome'[m] # "pending" PROVE view'[m] # "queued"
    <3>1. CASE m = h
      BY <3>1, <1>1, <1>8, <1>11
    <3>2. CASE m # h
      <4>1. outcome[m] # "pending" /\ m \notin ToSet(r)
        BY <2>1, <2>3, <3>2, <1>4
      <4> QED BY <4>1, <1>11 DEF RowsRight, ClientRowsMatch
    <3> QED BY <3>1, <3>2
  <2>4. ASSUME NEW m \in Msgs, outcome'[m] = "unsent" PROVE view'[m] = "none"
    <3>1. outcome[m] = "unsent" /\ m \notin ToSet(r)
      BY <2>1, <2>4, <1>4
    <3> QED BY <3>1, <1>11 DEF RowsRight
  <2> QED BY <2>2, <2>3, <2>4 DEF RowsRight, ClientRowsMatch
<1> QED BY <1>12, <1>13, <1>14, <1>15

\* deleteQueuedMessage and the teardown of a queue: each sender is told.
LEMMA DeletedStep ==
  ASSUME MsgInv, NEW S, Deleted(S), NoneResolves(NoOne)
  PROVE  MsgInv'
<1> USE DEF MsgInv
<1>0. batch \in [Chains -> Seq(Msgs)] /\ queue \in Seq(Msgs) /\ batch' = batch
  BY DEF MsgTypes, Deleted
<1>1. ToSet(queue) \subseteq Msgs /\ \A d \in Chains : ToSet(batch[d]) \subseteq Msgs
  BY <1>0, ElementsAreMsgs
<1>2. /\ S \subseteq ToSet(queue)
      /\ \A m \in Msgs : m \in S => outcome'[m] = "deleted"
      /\ \A m \in Msgs : m \in S \ Hidden => view'[m] = "deleted"
      /\ \A m \in Msgs : m \notin S => outcome'[m] = outcome[m] /\ view'[m] = view[m]
      /\ \A m \in Hidden : view'[m] = view[m]
      /\ ToSet(queue') = ToSet(queue) \ S
  BY QueueAssumption DEF Deleted
<1>3. MsgTypes'
  BY <1>0 DEF Deleted, MsgTypes, Outcomes
<1>4. \A d \in Chains : ToSet(batch[d]) \cap S = {}
  BY <1>2 DEF HeldOnce
<1>5. HeldOnce'
  <2>1. \A m \in ToSet(queue') : outcome'[m] = "pending"
    BY <1>1, <1>2 DEF HeldOnce
  <2>2. \A d \in Chains : \A m \in ToSet(batch[d]) : outcome'[m] = "pending"
    BY <1>1, <1>2, <1>4 DEF HeldOnce
  <2>3. \A d \in Chains : ToSet(batch[d]) \cap ToSet(queue') = {}
    BY <1>2 DEF HeldOnce
  <2>4. IsInjective(queue')
    BY DEF Deleted
  <2> QED BY <1>0, <2>1, <2>2, <2>3, <2>4 DEF HeldOnce
<1>6. RowsInHand'
  <2> SUFFICES ASSUME NEW d \in Chains
               PROVE  /\ batch'[d] # <<>> /\ Head(batch'[d]) \notin Hidden
                           => view'[Head(batch'[d])] # "queued"
                      /\ stage'[d] = "resolving" \/ Len(batch'[d]) > 1 =>
                           \A m \in ToSet(batch'[d]) \ Hidden :
                             view'[m] \in {"queued", "released"}
    BY DEF RowsInHand
  <2>1. \A m \in ToSet(batch[d]) : view'[m] = view[m]
    BY <1>1, <1>2, <1>4
  <2>2. batch[d] # <<>> => Head(batch[d]) \in ToSet(batch[d])
    BY <1>0, TailElements
  <2> QED BY <1>0, <2>1, <2>2, QueueAssumption DEF RowsInHand, NoneResolves
<1>7. RowsRight'
  <2>1. ASSUME NEW m \in Msgs \ Hidden, m \in ToSet(queue') PROVE view'[m] = "queued"
    BY <2>1, <1>2 DEF RowsRight, ClientRowsMatch
  <2>2. ASSUME NEW m \in Msgs \ Hidden, outcome'[m] # "pending" PROVE view'[m] # "queued"
    BY <2>2, <1>2 DEF RowsRight, ClientRowsMatch
  <2>3. ASSUME NEW m \in Msgs, outcome'[m] = "unsent" PROVE view'[m] = "none"
    BY <2>3, <1>2 DEF RowsRight
  <2> QED BY <2>1, <2>2, <2>3 DEF RowsRight, ClientRowsMatch
<1> QED BY <1>3, <1>5, <1>6, <1>7

\* promoteToHead of steerToMessage, and whatever moves no message at all.
LEMMA ReorderedStep ==
  ASSUME MsgInv, Reordered \/ Kept, NoneResolves(NoOne)
  PROVE  MsgInv'
<1> USE DEF MsgInv
<1>1. /\ batch' = batch /\ outcome' = outcome /\ view' = view
      /\ queue' \in Seq(Msgs) /\ IsInjective(queue') /\ ToSet(queue') = ToSet(queue)
  BY DEF Reordered, Kept, MsgTypes, HeldOnce
<1>2. MsgTypes'
  BY <1>1 DEF MsgTypes
<1>3. HeldOnce'
  BY <1>1 DEF HeldOnce
<1>4. RowsInHand'
  BY <1>1, QueueAssumption DEF RowsInHand, NoneResolves
<1>5. RowsRight'
  BY <1>1 DEF RowsRight, ClientRowsMatch
<1> QED BY <1>2, <1>3, <1>4, <1>5

----------------------------------------------------------------------------
(* The chains.                                                             *)

\* But for chain c, a chain does nothing but learn that what it waited for
\* has come.
Alike(c) ==
  \A d \in Chains \ {c} :
    /\ batch'[d] = batch[d] /\ turn'[d] = turn[d]
    /\ \/ stage'[d] = stage[d]
       \/ stage[d] = "interrupting" /\ stage'[d] = "unwound"
       \/ stage[d] = "awaiting" /\ stage'[d] = "drain"
       \/ stage[d] = "outlasting" /\ stage'[d] = "claiming"

\* A flag with a controller keeps its holder, and none appears.
FlagKept ==
  /\ owner' \in Chains \cup {NoOne}
  /\ abortController' \in {"none", "live", "aborted"}
  /\ abortController # "none" => owner' = owner /\ abortController' # "none"
  /\ abortController = "none" => abortController' = "none"

\* What the invariants say of the chains that only learn something.
LEMMA OthersAlike ==
  ASSUME ChainInv, NEW c, Alike(c)
  PROVE  /\ NoneResolves(c)
         /\ \A d \in Chains \ {c} :
              /\ InHand(stage'[d], batch'[d])
              /\ OfOneSender(stage'[d], turn'[d], batch'[d])
              /\ stage'[d] \in TurnStages <=> stage[d] \in TurnStages
<1> SUFFICES ASSUME NEW d \in Chains \ {c}
             PROVE  /\ stage'[d] = "resolving" => stage[d] = "resolving"
                    /\ InHand(stage'[d], batch'[d])
                    /\ OfOneSender(stage'[d], turn'[d], batch'[d])
                    /\ stage'[d] \in TurnStages <=> stage[d] \in TurnStages
  BY DEF NoneResolves
<1>1. /\ batch'[d] = batch[d] /\ turn'[d] = turn[d]
      /\ \/ stage'[d] = stage[d]
         \/ stage[d] = "interrupting" /\ stage'[d] = "unwound"
         \/ stage[d] = "awaiting" /\ stage'[d] = "drain"
         \/ stage[d] = "outlasting" /\ stage'[d] = "claiming"
  BY DEF Alike
<1>2. InHand(stage[d], batch[d]) /\ OfOneSender(stage[d], turn[d], batch[d])
  BY DEF ChainInv, Hands, OneSender
<1>3. InHand(stage'[d], batch'[d])
  BY <1>1, <1>2 DEF InHand, HandStages, SendStages
<1> QED BY <1>1, <1>2, <1>3 DEF OfOneSender, TurnStages

\* A step of a chain without a turn, or of no chain, that starts none.
LEMMA QuietKeeps ==
  ASSUME ChainInv, NEW c, Alike(c), stage' \in [Chains -> Stages], turn' = turn, FlagKept,
         c \in Chains => /\ stage[c] \notin TurnStages /\ stage'[c] \notin TurnStages
                         /\ InHand(stage'[c], batch'[c])
                         /\ OfOneSender(stage'[c], turn'[c], batch'[c])
  PROVE  ChainInv' /\ NoneResolves(c)
<1>1. /\ NoneResolves(c)
      /\ \A d \in Chains \ {c} :
           /\ InHand(stage'[d], batch'[d])
           /\ OfOneSender(stage'[d], turn'[d], batch'[d])
           /\ stage'[d] \in TurnStages <=> stage[d] \in TurnStages
  BY OthersAlike
<1>2. \A d \in Chains : stage'[d] \in TurnStages <=> stage[d] \in TurnStages
  BY <1>1
<1>3. ChainTypes'
  BY DEF ChainInv, ChainTypes, FlagKept
<1>4. OneTurn'
  <2>1. OneTurn /\ ChainTypes
    BY DEF ChainInv
  <2>2. ASSUME NEW d \in Chains, stage'[d] \in TurnStages
        PROVE  owner' = d /\ abortController' # "none"
    BY <2>1, <2>2, <1>2 DEF OneTurn, FlagKept
  <2>3. ASSUME abortController' # "none"
        PROVE  owner' # NoOne /\ stage'[owner'] \in TurnStages
    <3>1. abortController # "none" /\ owner' = owner /\ owner # NoOne /\ owner \in Chains
      BY <2>1, <2>3 DEF FlagKept, OneTurn, ChainTypes
    <3> QED BY <2>1, <3>1, <1>2 DEF OneTurn
  <2>4. ASSUME NEW d \in Chains, turn'[d] # {} PROVE stage'[d] \in TurnStages
    BY <2>1, <2>4, <1>2 DEF OneTurn
  <2> QED BY <2>2, <2>3, <2>4 DEF OneTurn
<1>5. Hands'
  BY <1>1 DEF Hands
<1>6. OneSender'
  BY <1>1 DEF OneSender
<1> QED BY <1>1, <1>3, <1>4, <1>5, <1>6 DEF ChainInv

\* A chain takes the free flag for a turn.
LEMMA TurnStarts ==
  ASSUME ChainInv, NEW c \in Chains, Alike(c), stage' \in [Chains -> Stages], turn' = turn,
         owner = NoOne, owner' = c, abortController' = "live",
         stage'[c] = "persisting", stage[c] \notin TurnStages,
         InHand(stage'[c], batch'[c]), OfOneSender(stage'[c], turn'[c], batch'[c])
  PROVE  ChainInv' /\ NoneResolves(c)
<1>1. /\ NoneResolves(c)
      /\ \A d \in Chains \ {c} :
           /\ InHand(stage'[d], batch'[d])
           /\ OfOneSender(stage'[d], turn'[d], batch'[d])
           /\ stage'[d] \in TurnStages <=> stage[d] \in TurnStages
  BY OthersAlike
<1>2. \A d \in Chains : stage[d] \notin TurnStages /\ turn[d] = {}
  BY QueueAssumption DEF ChainInv, OneTurn
<1>3. ChainTypes'
  BY DEF ChainInv, ChainTypes
<1>4. OneTurn'
  BY <1>1, <1>2, QueueAssumption DEF OneTurn, TurnStages
<1>5. Hands'
  BY <1>1 DEF Hands
<1>6. OneSender'
  BY <1>1 DEF OneSender
<1> QED BY <1>1, <1>3, <1>4, <1>5, <1>6 DEF ChainInv

\* The chain with the turn goes on with it.
LEMMA TurnGoesOn ==
  ASSUME ChainInv, NEW c \in Chains, Alike(c), stage' \in [Chains -> Stages],
         turn' \in [Chains -> SUBSET Msgs],
         stage[c] \in TurnStages, stage'[c] \in TurnStages,
         UNCHANGED <<owner, abortController>>,
         InHand(stage'[c], batch'[c]), OfOneSender(stage'[c], turn'[c], batch'[c])
  PROVE  ChainInv' /\ NoneResolves(c)
<1>1. /\ NoneResolves(c)
      /\ \A d \in Chains \ {c} :
           /\ InHand(stage'[d], batch'[d])
           /\ OfOneSender(stage'[d], turn'[d], batch'[d])
           /\ stage'[d] \in TurnStages <=> stage[d] \in TurnStages
  BY OthersAlike
<1>2. \A d \in Chains \ {c} : turn'[d] = turn[d]
  BY DEF Alike
<1>3. ChainTypes'
  BY DEF ChainInv, ChainTypes
<1>4. owner = c /\ abortController # "none"
  BY DEF ChainInv, OneTurn
<1>5. OneTurn'
  BY <1>1, <1>2, <1>4, QueueAssumption DEF ChainInv, OneTurn
<1>6. Hands'
  BY <1>1 DEF Hands
<1>7. OneSender'
  BY <1>1 DEF OneSender
<1> QED BY <1>1, <1>3, <1>5, <1>6, <1>7 DEF ChainInv

\* The chain with the turn gives the flag back.
LEMMA TurnEnds ==
  ASSUME ChainInv, NEW c \in Chains, Alike(c), stage' \in [Chains -> Stages],
         turn' \in [Chains -> SUBSET Msgs], turn'[c] = {},
         stage[c] \in TurnStages, stage'[c] \notin TurnStages,
         owner' = NoOne, abortController' = "none",
         InHand(stage'[c], batch'[c]), OfOneSender(stage'[c], turn'[c], batch'[c])
  PROVE  ChainInv' /\ NoneResolves(c)
<1>1. /\ NoneResolves(c)
      /\ \A d \in Chains \ {c} :
           /\ InHand(stage'[d], batch'[d])
           /\ OfOneSender(stage'[d], turn'[d], batch'[d])
           /\ stage'[d] \in TurnStages <=> stage[d] \in TurnStages
  BY OthersAlike
<1>2. \A d \in Chains \ {c} : stage[d] \notin TurnStages /\ turn'[d] = {}
  BY DEF ChainInv, OneTurn, Alike
<1>3. ChainTypes'
  BY DEF ChainInv, ChainTypes
<1>4. OneTurn'
  BY <1>1, <1>2 DEF OneTurn
<1>5. Hands'
  BY <1>1 DEF Hands
<1>6. OneSender'
  BY <1>1 DEF OneSender
<1> QED BY <1>1, <1>3, <1>4, <1>5, <1>6 DEF ChainInv

----------------------------------------------------------------------------
(* The actions.                                                            *)

\* What an action does to messages and to the turn.
Moves ==
  \/ (Kept \/ Reordered) /\ NoneResolves(NoOne) /\ turn' = turn
  \/ Kept /\ NoneResolves(NoOne) /\ turn' = [d \in Chains |-> {}]
  \/ NoneResolves(NoOne) /\ turn' = turn /\ \E S \in SUBSET Msgs : Deleted(S)
  \/ \E c \in Chains :
       /\ NoneResolves(c)
       /\ \/ /\ turn' = turn /\ stage'[c] # "resolving"
             /\ \E m \in Msgs : Brought(c, m) \/ Queued(c, m) \/ Refused(c, m)
          \/ turn' = turn /\ \E n \in Nat : Taken(c, n)
          \/ turn' = turn /\ stage'[c] # "resolving" /\ Returned(c)
          \/ /\ turn' = turn
             /\ \E end \in {"answered", "duplicate", "error"} : Ended(c, end)
          \/ /\ stage[c] = "persisting" /\ Ended(c, "persisted")
             /\ turn' = [turn EXCEPT ![c] = @ \cup {Head(batch[c])}]

\* The stages f are those of the chains but for what they learned.
LikeStage(f) ==
  /\ f \in [Chains -> Stages]
  /\ \A d \in Chains :
       \/ f[d] = stage[d]
       \/ stage[d] = "interrupting" /\ f[d] = "unwound"
       \/ stage[d] = "awaiting" /\ f[d] = "drain"
       \/ stage[d] = "outlasting" /\ f[d] = "claiming"

\* waitForIdle's resolvers and the barrier's awaiters change no other stage.
LEMMA StagesAlike ==
  ASSUME stage \in [Chains -> Stages]
  PROVE  /\ LikeStage(stage) /\ LikeStage(NotifyIdle(stage)) /\ LikeStage(Settled(stage))
         /\ LikeStage(AmongCleared) /\ \A c \in Chains : LikeStage(AmongReleased(c))
<1>1. LikeStage(stage)
  BY DEF LikeStage
<1>2. LikeStage(NotifyIdle(stage))
  BY DEF LikeStage, NotifyIdle, Stages
<1>3. LikeStage(Settled(stage))
  BY DEF LikeStage, Settled, Stages
<1> QED BY <1>1, <1>2, <1>3 DEF AmongCleared, AmongReleased

\* The step of one chain, from the variables it assigns.
LEMMA StepOf ==
  ASSUME MsgTypes, ChainTypes, NEW c \in Chains, NEW f, LikeStage(f), NEW next \in Stages,
         NEW b, NEW t,
         stage' = [f EXCEPT ![c] = next],
         batch' = [batch EXCEPT ![c] = b], turn' = [turn EXCEPT ![c] = t]
  PROVE  /\ Alike(c) /\ stage' \in [Chains -> Stages]
         /\ stage'[c] = next /\ batch'[c] = b /\ turn'[c] = t
<1>1. f \in [Chains -> Stages] /\ batch \in [Chains -> Seq(Msgs)]
      /\ turn \in [Chains -> SUBSET Msgs]
  BY DEF MsgTypes, ChainTypes, LikeStage
<1> QED BY <1>1 DEF Alike, LikeStage

\* Every variable that is set to what it was is unchanged.
LEMMA SameAgain ==
  ASSUME MsgTypes, ChainTypes, NEW c \in Chains
  PROVE  /\ batch = [batch EXCEPT ![c] = batch[c]] /\ turn = [turn EXCEPT ![c] = turn[c]]
         /\ stage = [stage EXCEPT ![c] = stage[c]]
BY DEF MsgTypes, ChainTypes

\* A chain without a turn comes to rest.
LEMMA RestKeeps ==
  ASSUME IInv, NEW c \in Chains, NEW f, LikeStage(f), stage[c] \notin TurnStages,
         NEW next \in {"idle", "queued", "drain", "awaiting"},
         RestAmong(c, f, next), FlagKept
  PROVE  /\ ChainInv' /\ NoneResolves(c) /\ NoneResolves(NoOne) /\ turn' = turn
         /\ stage'[c] # "resolving" /\ batch' = [batch EXCEPT ![c] = <<>>]
<1>1. next \in Stages /\ next \notin HandStages /\ next \notin TurnStages /\ next # "resolving"
  BY DEF Stages, HandStages, SendStages, TurnStages
<1>2. turn[c] = {}
  BY DEF IInv, ChainInv, OneTurn
<1>3. /\ stage' = [f EXCEPT ![c] = next] /\ batch' = [batch EXCEPT ![c] = <<>>]
      /\ turn' = [turn EXCEPT ![c] = {}] /\ turn' = turn
  BY <1>2, SameAgain DEF RestAmong, IInv, MsgInv, ChainInv
<1>4. /\ Alike(c) /\ stage' \in [Chains -> Stages]
      /\ stage'[c] = next /\ batch'[c] = <<>> /\ turn'[c] = {}
  BY <1>1, <1>3, StepOf DEF IInv, MsgInv, ChainInv
<1>5. InHand(stage'[c], batch'[c]) /\ OfOneSender(stage'[c], turn'[c], batch'[c])
  <2>1. Len(<<>>) = 0
    BY EmptySeq
  <2>2. stage'[c] \notin SendStages \cup {"slashing"}
        /\ stage'[c] \notin {"resolving", "persisting"}
    BY <1>1, <1>4 DEF HandStages
  <2> QED BY <2>1, <2>2, <1>1, <1>4 DEF InHand, OfOneSender
<1>6. ChainInv' /\ NoneResolves(c)
  BY <1>1, <1>3, <1>4, <1>5, QuietKeeps DEF IInv
<1>7. NoneResolves(NoOne)
  BY <1>1, <1>4, <1>6 DEF NoneResolves
<1> QED BY <1>1, <1>3, <1>4, <1>6, <1>7

\* Where a chain may come to rest once its message is queued or refused.
Rests == {"idle", "queued", "drain"}

\* queueSend and enqueueMessage, by a chain that comes to rest as it should.
LEMMA EnqueueElseMoves ==
  ASSUME IInv, NEW c \in Chains, NEW f, NEW m \in Msgs, Fresh(c, m),
         NEW refused \in Rests, EnqueueElse(c, f, m, refused),
         ASSUME NEW next \in Rests, RestAmong(c, f, next)
         PROVE  /\ ChainInv' /\ NoneResolves(c) /\ turn' = turn /\ stage'[c] # "resolving"
                /\ batch' = [batch EXCEPT ![c] = <<>>]
  PROVE  ChainInv' /\ Moves
<1>1. CASE currentBytes + Size[m] > MaxBytes /\ queue # <<>>
  <2>1. /\ outcome' = [outcome EXCEPT ![m] = "rejected"]
        /\ RestAmong(c, f, refused) /\ UNCHANGED <<queue, view>>
    BY <1>1 DEF EnqueueElse, queueVars
  <2>2. /\ ChainInv' /\ NoneResolves(c) /\ turn' = turn /\ stage'[c] # "resolving"
        /\ batch' = [batch EXCEPT ![c] = <<>>]
    BY <2>1
  <2>3. Refused(c, m)
    BY <2>1, <2>2 DEF Refused
  <2> QED BY <2>2, <2>3 DEF Moves
<1>2. CASE ~(currentBytes + Size[m] > MaxBytes /\ queue # <<>>)
  <2>1. /\ queue' = Append(queue, m)
        /\ outcome' = [outcome EXCEPT ![m] = "pending"]
        /\ view' = [view EXCEPT ![m] = IF m \in Hidden THEN "none" ELSE "queued"]
        /\ RestAmong(c, f, "queued")
    BY <1>2 DEF EnqueueElse
  <2>2. /\ ChainInv' /\ NoneResolves(c) /\ turn' = turn /\ stage'[c] # "resolving"
        /\ batch' = [batch EXCEPT ![c] = <<>>]
    BY <2>1 DEF Rests
  <2>3. Queued(c, m)
    BY <2>1, <2>2 DEF Queued
  <2> QED BY <2>2, <2>3 DEF Moves
<1> QED BY <1>1, <1>2

\* The same by a chain without a turn.
LEMMA QuietEnqueueMoves ==
  ASSUME IInv, NEW c \in Chains, NEW f, LikeStage(f), NEW m \in Msgs, Fresh(c, m),
         stage[c] \notin TurnStages, NEW refused \in Rests,
         EnqueueElse(c, f, m, refused), FlagKept
  PROVE  ChainInv' /\ Moves
<1>1. ASSUME NEW next \in Rests, RestAmong(c, f, next)
      PROVE  /\ ChainInv' /\ NoneResolves(c) /\ turn' = turn /\ stage'[c] # "resolving"
             /\ batch' = [batch EXCEPT ![c] = <<>>]
  <2>1. next \in {"idle", "queued", "drain", "awaiting"}
    BY DEF Rests
  <2> QED BY <1>1, <2>1, RestKeeps
<1> QED BY <1>1, EnqueueElseMoves

LEMMA EnqueueMoves ==
  ASSUME IInv, NEW c \in Chains, NEW f, LikeStage(f), NEW m \in Msgs, Fresh(c, m),
         stage[c] \notin TurnStages, EnqueueAmong(c, f, m), FlagKept
  PROVE  ChainInv' /\ Moves
<1>1. "idle" \in Rests /\ EnqueueElse(c, f, m, "idle")
  BY DEF EnqueueAmong, Rests
<1> QED BY <1>1, QuietEnqueueMoves

\* A flag that nobody touches.
LEMMA FlagAlone ==
  ASSUME ChainTypes, UNCHANGED <<owner, abortController>>
  PROVE  FlagKept
BY DEF ChainTypes, FlagKept

\* What a send has in hand.
LEMMA SendHasOne ==
  ASSUME IInv, NEW c \in Chains, stage[c] \in SendStages \cup {"slashing"}
  PROVE  /\ batch[c] \in Seq(Msgs) /\ Len(batch[c]) = 1 /\ batch[c] = <<Head(batch[c])>>
         /\ Head(batch[c]) \in Msgs /\ batch[c] # <<>> /\ Tail(batch[c]) = <<>>
         /\ stage[c] \notin TurnStages /\ Fresh(c, Head(batch[c]))
<1>1. batch[c] \in Seq(Msgs) /\ Len(batch[c]) = 1
  BY DEF IInv, MsgInv, MsgTypes, ChainInv, Hands, InHand
<1>2. batch[c] = <<Head(batch[c])>> /\ Head(batch[c]) \in Msgs /\ batch[c] # <<>>
      /\ Tail(batch[c]) = <<>>
  BY <1>1, OneElement
<1>3. stage[c] \notin TurnStages
  BY DEF SendStages, TurnStages
<1> QED BY <1>1, <1>2, <1>3 DEF Fresh

\* A chain with nothing to do has nothing in hand.
LEMMA IdleHasNone ==
  ASSUME IInv, NEW c \in Chains, stage[c] \notin HandStages
  PROVE  batch[c] = <<>>
BY DEF IInv, ChainInv, Hands, InHand

\* A send that is accepted goes on with its message.
LEMMA AcceptMoves ==
  ASSUME IInv, NEW c \in Chains, NEW m \in Msgs, stage[c] = "idle",
         outcome[m] = "unsent", NEW next \in {"sending", "interrupting"},
         Accept(c, m, next), FlagKept
  PROVE  ChainInv' /\ Moves
<1>1. /\ next \in Stages /\ next \in SendStages /\ next \in HandStages
      /\ next \notin TurnStages /\ next \notin {"resolving", "persisting"}
      /\ stage[c] \notin HandStages /\ stage[c] \notin TurnStages
  BY DEF Stages, HandStages, SendStages, TurnStages
<1>2. batch[c] = <<>>
  BY <1>1, IdleHasNone
<1>3. /\ stage' = [stage EXCEPT ![c] = next] /\ batch' = [batch EXCEPT ![c] = <<m>>]
      /\ turn' = turn
      /\ outcome' = [outcome EXCEPT ![m] = "pending"] /\ UNCHANGED <<queue, view>>
  BY DEF Accept, queueVars
<1>4. /\ Alike(c) /\ stage' \in [Chains -> Stages] /\ stage'[c] = next /\ batch'[c] = <<m>>
  <2>1. LikeStage(stage)
    BY StagesAlike DEF IInv, ChainInv, ChainTypes
  <2> QED BY <2>1, <1>1, <1>3 DEF IInv, MsgInv, MsgTypes, ChainInv, ChainTypes, Alike
<1>5. InHand(stage'[c], batch'[c]) /\ OfOneSender(stage'[c], turn'[c], batch'[c])
  <2>1. Len(<<m>>) = 1 /\ <<m>> # <<>>
    BY ShortElements
  <2>2. ~(Len(<<m>>) > 1)
    BY <2>1
  <2> QED BY <2>1, <2>2, <1>1, <1>4, Zenon DEF InHand, OfOneSender
<1>6. ChainInv' /\ NoneResolves(c)
  BY <1>1, <1>3, <1>4, <1>5, QuietKeeps DEF IInv
<1>7. Brought(c, m)
  BY <1>2, <1>3 DEF Brought
<1> QED BY <1>1, <1>3, <1>4, <1>6, <1>7 DEF Moves

\* A chain that keeps what it has in hand.
LEMMA OnwardMoves ==
  ASSUME IInv, NEW c \in Chains, NEW f, LikeStage(f), NEW next \in Stages,
         stage[c] \notin TurnStages, next \notin TurnStages, next # "resolving",
         InHand(next, batch[c]), stage' = [f EXCEPT ![c] = next],
         UNCHANGED <<queue, batch, outcome, view, turn>>, FlagKept
  PROVE  ChainInv' /\ Moves
<1>1. turn' = turn /\ batch' = batch
  OBVIOUS
<1>2. /\ Alike(c) /\ stage' \in [Chains -> Stages] /\ stage'[c] = next
      /\ batch'[c] = batch[c]
  BY <1>1 DEF Alike, LikeStage
<1>3. OfOneSender(stage'[c], turn'[c], batch'[c])
  BY <1>2 DEF OfOneSender, TurnStages
<1>4. ChainInv' /\ NoneResolves(c)
  BY <1>1, <1>2, <1>3, QuietKeeps DEF IInv
<1>5. NoneResolves(NoOne)
  BY <1>2, <1>4 DEF NoneResolves
<1> QED BY <1>1, <1>4, <1>5 DEF Moves, Kept

\* The send route.
LEMMA SendMessageMoves ==
  ASSUME IInv, NEW c \in Chains, NEW m \in Msgs, SendMessage(c, m)
  PROVE  ChainInv' /\ Moves
<1>1. /\ stage[c] = "idle" /\ outcome[m] = "unsent"
      /\ stage[c] \notin HandStages /\ stage[c] \notin TurnStages
  BY DEF SendMessage, HandStages, SendStages, TurnStages
<1>2. Fresh(c, m)
  BY <1>1, IdleHasNone DEF Fresh
<1>3. CASE isProcessing /\ EnqueueMessage(c, m) /\ UNCHANGED lockVars
  <2>1. FlagKept
    BY <1>3, FlagAlone DEF lockVars, IInv, ChainInv
  <2>2. LikeStage(stage) /\ EnqueueAmong(c, stage, m)
    BY <1>3, StagesAlike DEF EnqueueMessage, IInv, ChainInv, ChainTypes
  <2> QED BY <1>1, <1>2, <2>1, <2>2, EnqueueMoves
<1>4. CASE ~isProcessing /\ Accept(c, m, "sending") /\ UNCHANGED lockVars
  <2>1. FlagKept
    BY <1>4, FlagAlone DEF lockVars, IInv, ChainInv
  <2> QED BY <1>1, <1>4, <2>1, AcceptMoves
<1>5. CASE /\ isProcessing /\ MayInterrupt(m)
           /\ Accept(c, m, "interrupting")
           /\ abortController' = "aborted"
           /\ UNCHANGED <<owner, barrier>>
  <2>1. FlagKept
    BY <1>5 DEF FlagKept, MayInterrupt, IInv, ChainInv, ChainTypes
  <2> QED BY <1>1, <1>5, <2>1, AcceptMoves
<1> QED BY <1>3, <1>4, <1>5 DEF SendMessage

\* completeSend: a send whose conversation has become busy is queued.
LEMMA CompleteSendMoves ==
  ASSUME IInv, NEW c \in Chains, CompleteSend(c)
  PROVE  ChainInv' /\ Moves
<1> DEFINE m == Head(batch[c])
<1>0. stage[c] = "sending" /\ stage[c] \in SendStages \cup {"slashing"}
  BY DEF CompleteSend, SendStages
<1>1. /\ batch[c] = <<m>> /\ m \in Msgs /\ Len(batch[c]) = 1 /\ batch[c] # <<>>
      /\ stage[c] \notin TurnStages /\ Fresh(c, m)
  BY <1>0, SendHasOne
<1>2. LikeStage(stage)
  BY StagesAlike DEF IInv, ChainInv, ChainTypes
<1>3. CASE isProcessing
  <2>1. EnqueueAmong(c, stage, m) /\ UNCHANGED lockVars
    BY <1>3 DEF CompleteSend, EnqueueMessage
  <2>2. FlagKept
    BY <2>1, FlagAlone DEF lockVars, IInv, ChainInv
  <2> QED BY <1>1, <1>2, <2>1, <2>2, EnqueueMoves
<1>4. CASE ~isProcessing
  <2>1. /\ owner = NoOne /\ owner' = c
        /\ abortController' = IF m \in Slash THEN abortController ELSE "live"
        /\ stage' = [stage EXCEPT ![c] = IF m \in Slash THEN "holding" ELSE "persisting"]
        /\ UNCHANGED <<queue, batch, turn, outcome, view>>
    BY <1>4 DEF CompleteSend, isProcessing, queueVars, rowVars
  <2>2. abortController = "none"
    BY <2>1 DEF IInv, ChainInv, OneTurn
  <2> HIDE DEF m
  <2>3. CASE m \in Slash
    <3>1. FlagKept
      BY <2>1, <2>2, <2>3 DEF FlagKept
    <3>2. InHand("holding", batch[c])
      BY <1>1 DEF InHand, HandStages, SendStages
    <3>3. "holding" \in Stages /\ "holding" \notin TurnStages
      BY DEF Stages, TurnStages
    <3> QED BY <1>1, <1>2, <2>1, <2>3, <3>1, <3>2, <3>3, OnwardMoves
  <2>4. CASE m \notin Slash
    <3>1. "persisting" \in Stages /\ "persisting" \in HandStages
      BY DEF Stages, HandStages
    <3>2. /\ turn' = turn /\ batch' = batch
          /\ stage' = [stage EXCEPT ![c] = "persisting"]
      BY <2>1, <2>4
    <3>3. /\ Alike(c) /\ stage' \in [Chains -> Stages] /\ stage'[c] = "persisting"
          /\ batch'[c] = batch[c] /\ turn'[c] = turn[c]
      BY <3>1, <3>2 DEF IInv, ChainInv, ChainTypes, Alike
    <3>4. InHand(stage'[c], batch'[c])
      BY <1>1, <3>1, <3>3 DEF InHand, SendStages
    <3>5. OfOneSender(stage'[c], turn'[c], batch'[c])
      <4>1. ToSet(batch[c]) = {m}
        BY <1>1, ShortElements
      <4>2. turn[c] = {}
        BY <1>1 DEF IInv, ChainInv, OneTurn
      <4> QED BY <4>1, <4>2, <3>3 DEF OfOneSender
    <3>6. ChainInv' /\ NoneResolves(c)
      BY <1>1, <2>1, <2>4, <3>2, <3>3, <3>4, <3>5, TurnStarts DEF IInv
    <3>7. NoneResolves(NoOne)
      BY <3>3, <3>6 DEF NoneResolves
    <3> QED BY <2>1, <3>6, <3>7 DEF Moves, Kept
  <2> QED BY <2>3, <2>4
<1> QED BY <1>3, <1>4

\* queueSend's kick after its awaits.
LEMMA QueueSendKickMoves ==
  ASSUME IInv, NEW c \in Chains, QueueSendKick(c)
  PROVE  ChainInv' /\ Moves
<1>1. stage[c] = "queued" /\ stage[c] \notin HandStages /\ stage[c] \notin TurnStages
  BY DEF QueueSendKick, HandStages, SendStages, TurnStages
<1>2. LikeStage(stage)
  BY StagesAlike DEF IInv, ChainInv, ChainTypes
<1>3. FlagKept
  BY FlagAlone DEF QueueSendKick, lockVars, IInv, ChainInv
<1>4. PICK next \in {"idle", "queued", "drain", "awaiting"} : RestAmong(c, stage, next)
  BY DEF QueueSendKick, Rest
<1>5. /\ ChainInv' /\ NoneResolves(NoOne) /\ turn' = turn
      /\ batch' = [batch EXCEPT ![c] = <<>>]
  BY <1>1, <1>2, <1>3, <1>4, RestKeeps
<1>6. batch' = batch
  BY <1>1, <1>5, IdleHasNone, SameAgain DEF IInv, MsgInv, ChainInv
<1>7. Kept
  BY <1>6 DEF Kept, QueueSendKick, queueVars, rowVars
<1> QED BY <1>5, <1>7 DEF Moves

\* A chain that gives back a flag without a controller, its own if any.
LEMMA OwnReleased ==
  ASSUME IInv, NEW c \in Chains, stage[c] \notin TurnStages,
         owner' = IF owner = c THEN NoOne ELSE owner, UNCHANGED abortController
  PROVE  FlagKept /\ LikeStage(AmongReleased(c))
<1>1. LikeStage(AmongReleased(c))
  BY StagesAlike DEF IInv, ChainInv, ChainTypes
<1>2. abortController # "none" => owner # c
  BY DEF IInv, ChainInv, OneTurn
<1>3. FlagKept
  BY <1>2 DEF FlagKept, IInv, ChainInv, ChainTypes
<1> QED BY <1>1, <1>3

\* The /compact or /clean that held the flag.
LEMMA ReleaseHoldMoves ==
  ASSUME IInv, NEW c \in Chains, ReleaseHold(c)
  PROVE  ChainInv' /\ Moves
<1>1. stage[c] \in SendStages \cup {"slashing"}
  BY DEF ReleaseHold, SendStages
<1>2. /\ batch[c] # <<>> /\ Tail(batch[c]) = <<>> /\ stage[c] \notin TurnStages
  BY <1>1, SendHasOne
<1>3. FlagKept /\ LikeStage(AmongReleased(c))
  BY <1>2, OwnReleased DEF ReleaseHold
<1>4. RestAmong(c, AmongReleased(c), "drain")
  BY DEF ReleaseHold
<1>5. /\ ChainInv' /\ NoneResolves(c) /\ turn' = turn
      /\ batch' = [batch EXCEPT ![c] = <<>>]
  BY <1>2, <1>3, <1>4, RestKeeps
<1>6. PICK end \in {"answered", "duplicate", "error"} :
        outcome' = [outcome EXCEPT ![Head(batch[c])] = end]
  BY DEF ReleaseHold
<1>7. Ended(c, end)
  BY <1>2, <1>5, <1>6 DEF Ended, Outcomes, ReleaseHold, queueVars
<1> QED BY <1>5, <1>7 DEF Moves

\* A send that goes from one stage to the next with its message.
LEMMA SendGoesOn ==
  ASSUME IInv, NEW c \in Chains, NEW f, LikeStage(f), stage[c] \in SendStages,
         NEW next \in SendStages, stage' = [f EXCEPT ![c] = next],
         UNCHANGED <<queue, batch, outcome, view, turn>>, FlagKept
  PROVE  ChainInv' /\ Moves
<1>1. Len(batch[c]) = 1 /\ batch[c] # <<>> /\ stage[c] \notin TurnStages
  BY SendHasOne
<1>2. /\ next \in Stages /\ next \notin TurnStages /\ next # "resolving"
      /\ next \in HandStages
  BY DEF SendStages, Stages, TurnStages, HandStages
<1>3. InHand(next, batch[c])
  BY <1>1, <1>2 DEF InHand
<1> QED BY <1>1, <1>2, <1>3, OnwardMoves

\* interruptRunningTurn: the steps that keep the message in hand.
LEMMA InterruptGoesOn ==
  ASSUME IInv, NEW c \in Chains,
         InterruptUnwound(c) \/ InterruptFencePass(c) \/ InterruptRepaired(c)
  PROVE  ChainInv' /\ Moves
<1>1. LikeStage(stage)
  BY StagesAlike DEF IInv, ChainInv, ChainTypes
<1>2. CASE InterruptUnwound(c)
  <2>1. stage[c] \in SendStages
    BY <1>2 DEF InterruptUnwound, SendStages
  <2>2. PICK next \in SendStages : stage' = [stage EXCEPT ![c] = next]
    BY <1>2 DEF InterruptUnwound, SendStages
  <2>3. UNCHANGED <<queue, batch, outcome, view, turn>> /\ UNCHANGED <<owner, abortController>>
    BY <1>2 DEF InterruptUnwound, queueVars, rowVars, lockVars
  <2>4. FlagKept
    BY <2>3, FlagAlone DEF IInv, ChainInv
  <2> QED BY <1>1, <2>1, <2>2, <2>3, <2>4, SendGoesOn
<1>3. CASE InterruptFencePass(c)
  <2>1. stage[c] \in SendStages /\ "mending" \in SendStages
    BY <1>3 DEF InterruptFencePass, SendStages
  <2>2. stage' = [stage EXCEPT ![c] = "mending"]
    BY <1>3 DEF InterruptFencePass
  <2>3. UNCHANGED <<queue, batch, outcome, view, turn>> /\ UNCHANGED <<owner, abortController>>
    BY <1>3 DEF InterruptFencePass, queueVars, rowVars, lockVars
  <2>4. FlagKept
    BY <2>3, FlagAlone DEF IInv, ChainInv
  <2> QED BY <1>1, <2>1, <2>2, <2>3, <2>4, SendGoesOn
<1>4. CASE InterruptRepaired(c)
  <2>1. stage[c] \in SendStages /\ "sending" \in SendStages /\ stage[c] \notin TurnStages
    BY <1>4 DEF InterruptRepaired, SendStages, TurnStages
  <2>2. stage' = [AmongReleased(c) EXCEPT ![c] = "sending"]
    BY <1>4 DEF InterruptRepaired
  <2>3. UNCHANGED <<queue, batch, outcome, view, turn>>
    BY <1>4 DEF InterruptRepaired, queueVars, rowVars
  <2>4. FlagKept /\ LikeStage(AmongReleased(c))
    BY <1>4, <2>1, OwnReleased DEF InterruptRepaired, ReleaseInterrupt
  <2> QED BY <2>1, <2>2, <2>3, <2>4, SendGoesOn
<1> QED BY <1>2, <1>3, <1>4

\* interruptRunningTurn: the ways its message takes to the queue, and the claim.
LEMMA InterruptQueues ==
  ASSUME IInv, NEW c \in Chains,
         InterruptBusy(c) \/ InterruptClaim(c) \/ InterruptFails(c)
  PROVE  ChainInv' /\ Moves
<1> DEFINE m == Head(batch[c])
<1>1. LikeStage(stage)
  BY StagesAlike DEF IInv, ChainInv, ChainTypes
<1>2. stage[c] \in SendStages
  BY DEF InterruptBusy, InterruptClaim, InterruptFails, SendStages
<1>3. m \in Msgs /\ Fresh(c, m) /\ stage[c] \notin TurnStages
  BY <1>2, SendHasOne
<1>4. CASE InterruptBusy(c)
  <2>1. EnqueueAmong(c, stage, m) /\ UNCHANGED <<owner, abortController>>
    BY <1>4 DEF InterruptBusy, EnqueueMessage, lockVars
  <2>2. FlagKept
    BY <2>1, FlagAlone DEF IInv, ChainInv
  <2> QED BY <1>1, <1>3, <2>1, <2>2, EnqueueMoves
<1>5. CASE InterruptClaim(c) /\ isProcessing
  <2>1. EnqueueAmong(c, stage, m) /\ UNCHANGED <<owner, abortController>>
    BY <1>5 DEF InterruptClaim, EnqueueMessage, lockVars
  <2>2. FlagKept
    BY <2>1, FlagAlone DEF IInv, ChainInv
  <2> QED BY <1>1, <1>3, <2>1, <2>2, EnqueueMoves
<1>6. CASE InterruptClaim(c) /\ ~isProcessing
  <2>1. /\ owner = NoOne /\ owner' = c /\ stage' = [stage EXCEPT ![c] = "fencing"]
        /\ UNCHANGED <<queue, batch, outcome, view, turn>> /\ UNCHANGED abortController
    BY <1>6 DEF InterruptClaim, isProcessing, queueVars, rowVars
  <2>2. abortController = "none"
    BY <2>1 DEF IInv, ChainInv, OneTurn
  <2>3. FlagKept
    BY <2>1, <2>2 DEF FlagKept
  <2>4. "fencing" \in SendStages
    BY DEF SendStages
  <2> QED BY <1>1, <1>2, <2>1, <2>3, <2>4, SendGoesOn
<1>7. CASE InterruptFails(c)
  <2>1. EnqueueAmong(c, AmongReleased(c), m) /\ ReleaseInterrupt(c)
    BY <1>7 DEF InterruptFails
  <2>2. FlagKept /\ LikeStage(AmongReleased(c))
    BY <1>3, <2>1, OwnReleased DEF ReleaseInterrupt
  <2> QED BY <1>3, <2>1, <2>2, EnqueueMoves
<1> QED BY <1>4, <1>5, <1>6, <1>7

\* What a drain takes: messages of one sender, or one message.
LEMMA TakenOfOneSender ==
  ASSUME queue \in Seq(Msgs), queue # <<>>, NEW n,
         n = 1 \/ n = PassthroughRun(queue)
  PROVE  /\ n \in 1 .. Len(queue) /\ n \in Nat
         /\ InHand("resolving", SubSeq(queue, 1, n))
         /\ OfOneSender("resolving", {}, SubSeq(queue, 1, n))
<1> DEFINE a == SubSeq(queue, 1, n)
<1>1. Len(queue) \in Nat /\ 1 \in 1 .. Len(queue)
  BY EmptySeq, LenProperties
<1>2. /\ n \in 1 .. Len(queue)
      /\ \A i \in 1..n : Sender[queue[i]] = Sender[queue[1]]
      /\ n > 1 => \A i \in 1..n : queue[i] \notin Slash
  BY <1>1, RunOfOneSender
<1>3. n \in Nat /\ n >= 1 /\ n \in 0 .. Len(queue)
  BY <1>1, <1>2
<1>4. a \in Seq(Msgs) /\ Len(a) = n /\ \A i \in 1..n : a[i] = queue[i]
  BY <1>3, SplitElements
<1>5. DOMAIN a = 1..n /\ a # <<>>
  <2> HIDE DEF a
  <2> QED BY <1>3, <1>4, LenProperties
<1> HIDE DEF a
<1>6. \A m \in ToSet(a) : Sender[m] = Sender[queue[1]]
  BY <1>2, <1>4, <1>5 DEF ToSet
<1>7. n > 1 => \A m \in ToSet(a) : m \notin Slash
  BY <1>2, <1>4, <1>5 DEF ToSet
<1>8. InHand("resolving", a)
  BY <1>4, <1>5, <1>7 DEF InHand, HandStages, SendStages
<1>9. OfOneSender("resolving", {}, a)
  BY <1>6 DEF OfOneSender
<1> QED BY <1>2, <1>3, <1>8, <1>9 DEF a

\* drainQueue's take, after a repair or without one.
LEMMA DrainTakeMoves ==
  ASSUME IInv, NEW c \in Chains, NEW st, DrainTake(c, st),
         stage[c] \in {"drain", "repairing", "repairingDurable"},
         UNCHANGED <<owner, abortController, outcome>>
  PROVE  ChainInv' /\ Moves
<1>1. stage[c] \notin HandStages /\ stage[c] \notin TurnStages
  BY DEF HandStages, SendStages, TurnStages
<1>2. LikeStage(stage)
  BY StagesAlike DEF IInv, ChainInv, ChainTypes
<1>3. FlagKept
  BY FlagAlone DEF IInv, ChainInv
<1>4. batch[c] = <<>>
  BY <1>1, IdleHasNone
<1>5. CASE Rest(c, "idle") /\ UNCHANGED <<queueVars, view>>
  <2>1. RestAmong(c, stage, "idle")
    BY <1>5 DEF Rest
  <2>2. /\ ChainInv' /\ NoneResolves(NoOne) /\ turn' = turn
        /\ batch' = [batch EXCEPT ![c] = <<>>]
    BY <1>1, <1>2, <1>3, <2>1, RestKeeps
  <2>3. batch' = batch
    BY <1>4, <2>2, SameAgain DEF IInv, MsgInv, ChainInv
  <2>4. Kept
    BY <1>5, <2>3 DEF Kept, queueVars
  <2> QED BY <2>2, <2>4 DEF Moves
<1>6. ASSUME NEW n, n = 1 \/ n = PassthroughRun(queue), queue # <<>>,
             batch' = [batch EXCEPT ![c] = SubSeq(queue, 1, n)],
             queue' = SubSeq(queue, n + 1, Len(queue)),
             view' = Announced(view, Head(queue)),
             stage' = [stage EXCEPT ![c] = "resolving"],
             turn' = [turn EXCEPT ![c] = {}]
      PROVE  ChainInv' /\ Moves
  <2>1. /\ n \in 1 .. Len(queue) /\ n \in Nat
        /\ InHand("resolving", SubSeq(queue, 1, n))
        /\ OfOneSender("resolving", {}, SubSeq(queue, 1, n))
    BY <1>6, TakenOfOneSender DEF IInv, MsgInv, MsgTypes
  <2>2. Taken(c, n)
    BY <1>4, <1>6, <2>1 DEF Taken
  <2>3. turn[c] = {} /\ turn' = turn
    BY <1>1, <1>6, SameAgain DEF IInv, MsgInv, ChainInv, OneTurn
  <2> DEFINE a == SubSeq(queue, 1, n)
  <2>4. batch' = [batch EXCEPT ![c] = a]
    BY <1>6
  <2> HIDE DEF a
  <2>5. /\ Alike(c) /\ stage' \in [Chains -> Stages] /\ stage'[c] = "resolving"
        /\ batch'[c] = a /\ turn'[c] = {}
    BY <1>6, <2>3, <2>4
       DEF Alike, IInv, MsgInv, MsgTypes, ChainInv, ChainTypes, Stages
  <2>6. InHand(stage'[c], batch'[c]) /\ OfOneSender(stage'[c], turn'[c], batch'[c])
    BY <2>1, <2>5 DEF a
  <2>7. stage'[c] \notin TurnStages
    BY <2>5 DEF TurnStages
  <2>8. ChainInv' /\ NoneResolves(c)
    BY <1>1, <1>3, <2>3, <2>5, <2>6, <2>7, QuietKeeps DEF IInv
  <2> QED BY <2>1, <2>2, <2>3, <2>8 DEF Moves
<1> DEFINE k == IF st THEN 1 ELSE PassthroughRun(queue)
<1>7. k = 1 \/ k = PassthroughRun(queue)
  OBVIOUS
<1>8. \/ Rest(c, "idle") /\ UNCHANGED <<queueVars, view>>
      \/ /\ queue # <<>>
         /\ batch' = [batch EXCEPT ![c] = SubSeq(queue, 1, k)]
         /\ queue' = SubSeq(queue, k + 1, Len(queue))
         /\ view' = Announced(view, Head(queue))
         /\ stage' = [stage EXCEPT ![c] = "resolving"]
         /\ turn' = [turn EXCEPT ![c] = {}]
  BY DEF DrainTake
<1> HIDE DEF k
<1> QED BY <1>5, <1>6, <1>7, <1>8

\* drainQueue, and its continuation after the repair.
LEMMA DrainMoves ==
  ASSUME IInv, NEW c \in Chains, DrainQueue(c) \/ RepairDone(c)
  PROVE  ChainInv' /\ Moves
<1>1. LikeStage(stage)
  BY StagesAlike DEF IInv, ChainInv, ChainTypes
<1>2. UNCHANGED <<owner, abortController, outcome>>
  BY DEF DrainQueue, RepairDone, lockVars
<1>3. stage[c] \in {"drain", "repairing", "repairingDurable"}
  BY DEF DrainQueue, RepairDone
<1>4. CASE DrainTake(c, FALSE) \/ DrainTake(c, steered[c])
  BY <1>2, <1>3, <1>4, DrainTakeMoves
<1>5. CASE /\ UNCHANGED <<queueVars, batch, turn, view>>
           /\ stage' = [stage EXCEPT ![c] = IF pendingInterruptRepair
                                            THEN "repairingDurable" ELSE "repairing"]
  <2>1. stage[c] \notin HandStages /\ stage[c] \notin TurnStages
    BY <1>3 DEF HandStages, SendStages, TurnStages
  <2>2. FlagKept
    BY <1>2, FlagAlone DEF IInv, ChainInv
  <2>3. batch[c] = <<>>
    BY <2>1, IdleHasNone
  <2>4. PICK next \in {"repairingDurable", "repairing"} : stage' = [stage EXCEPT ![c] = next]
    BY <1>5
  <2>5. next \in Stages /\ next \notin TurnStages /\ next # "resolving" /\ next \notin HandStages
    BY DEF Stages, TurnStages, HandStages, SendStages
  <2>6. InHand(next, batch[c])
    <3>1. Len(<<>>) = 0
      BY EmptySeq
    <3> QED BY <2>3, <2>5, <3>1 DEF InHand, HandStages
  <2>7. UNCHANGED <<queue, batch, outcome, view, turn>>
    BY <1>2, <1>5 DEF queueVars
  <2> QED BY <1>1, <2>1, <2>2, <2>4, <2>5, <2>6, <2>7, OnwardMoves
<1> QED BY <1>4, <1>5 DEF DrainQueue, RepairDone

\* kickQueueDrain's catch: the chain retries or rests, and has nothing in hand.
LEMMA RejectedKeeps ==
  ASSUME IInv, NEW c \in Chains, DrainRejected(c), stage[c] \notin TurnStages, FlagKept
  PROVE  /\ ChainInv' /\ NoneResolves(c) /\ NoneResolves(NoOne) /\ turn' = turn
         /\ stage'[c] # "resolving" /\ batch' = [batch EXCEPT ![c] = <<>>]
<1>1. PICK next \in {"drain", "idle"} : stage' = [stage EXCEPT ![c] = next]
  BY DEF DrainRejected
<1>2. next \in Stages /\ next \notin HandStages /\ next \notin TurnStages /\ next # "resolving"
  BY DEF Stages, HandStages, SendStages, TurnStages
<1>3. /\ batch' = [batch EXCEPT ![c] = <<>>] /\ turn' = [turn EXCEPT ![c] = {}]
      /\ turn[c] = {}
  BY DEF DrainRejected, IInv, ChainInv, OneTurn
<1>4. turn' = turn
  BY <1>3, SameAgain DEF IInv, MsgInv, ChainInv
<1>5. /\ Alike(c) /\ stage' \in [Chains -> Stages] /\ stage'[c] = next
      /\ batch'[c] = <<>> /\ turn'[c] = {}
  BY <1>1, <1>2, <1>3, <1>4
     DEF Alike, IInv, MsgInv, MsgTypes, ChainInv, ChainTypes
<1>6. InHand(stage'[c], batch'[c]) /\ OfOneSender(stage'[c], turn'[c], batch'[c])
  <2>1. Len(<<>>) = 0
    BY EmptySeq
  <2> QED BY <2>1, <1>2, <1>5 DEF InHand, OfOneSender, HandStages
<1>7. ChainInv' /\ NoneResolves(c)
  BY <1>2, <1>4, <1>5, <1>6, QuietKeeps DEF IInv
<1>8. NoneResolves(NoOne)
  BY <1>2, <1>5, <1>7 DEF NoneResolves
<1> QED BY <1>2, <1>3, <1>4, <1>5, <1>7, <1>8

\* A repair that could not be made durable; a dispatch that threw.
LEMMA DrainFailsMoves ==
  ASSUME IInv, NEW c \in Chains, RepairFails(c) \/ DispatchThrows(c)
  PROVE  ChainInv' /\ Moves
<1>1. stage[c] \notin TurnStages /\ DrainRejected(c)
  BY DEF RepairFails, DispatchThrows, TurnStages
<1>2. FlagKept
  BY FlagAlone DEF RepairFails, DispatchThrows, lockVars, IInv, ChainInv
<1>3. /\ ChainInv' /\ NoneResolves(c) /\ NoneResolves(NoOne) /\ turn' = turn
      /\ stage'[c] # "resolving" /\ batch' = [batch EXCEPT ![c] = <<>>]
  BY <1>1, <1>2, RejectedKeeps
<1>4. CASE RepairFails(c)
  <2>1. stage[c] \notin HandStages
    BY <1>4 DEF RepairFails, HandStages, SendStages
  <2>2. batch' = batch
    BY <1>3, <2>1, IdleHasNone, SameAgain DEF IInv, MsgInv, ChainInv
  <2>3. Kept
    BY <1>4, <2>2 DEF Kept, RepairFails, queueVars
  <2> QED BY <1>3, <2>3 DEF Moves
<1>5. CASE DispatchThrows(c)
  <2>1. Returned(c)
    BY <1>3, <1>5 DEF Returned, DispatchThrows, RequeueDrainedMessages
  <2> QED BY <1>3, <2>1 DEF Moves
<1> QED BY <1>4, <1>5

\* The head of a drained batch is resolved.
LEMMA ResolveSlashMoves ==
  ASSUME IInv, NEW c \in Chains, ResolveSlash(c)
  PROVE  ChainInv' /\ Moves
<1> DEFINE s == batch[c]
<1>1. /\ stage[c] = "resolving" /\ stage[c] \notin TurnStages /\ stage[c] \in HandStages
      /\ outcome' = outcome
  BY DEF ResolveSlash, TurnStages, HandStages
<1>2. /\ s \in Seq(Msgs) /\ s # <<>> /\ InHand("resolving", s)
      /\ OfOneSender("resolving", turn[c], s)
  BY <1>1 DEF IInv, MsgInv, MsgTypes, ChainInv, Hands, InHand, OneSender
<1>3. LikeStage(stage)
  BY StagesAlike DEF IInv, ChainInv, ChainTypes
<1>4. CASE /\ Head(s) \in Slash /\ stage' = [stage EXCEPT ![c] = "slashing"]
           /\ UNCHANGED <<queueVars, lockVars, batch, turn, view>>
  <2>1. FlagKept
    BY <1>4, FlagAlone DEF lockVars, IInv, ChainInv
  <2>2. Len(s) = 1
    <3> HIDE DEF s
    <3>1. Head(s) \in ToSet(s)
      BY <1>2, TailElements
    <3>2. Len(s) \in Nat /\ Len(s) # 0
      BY <1>2, EmptySeq
    <3>3. ~(Len(s) > 1)
      BY <1>2, <1>4, <3>1 DEF InHand
    <3> QED BY <3>2, <3>3
  <2>3. InHand("slashing", s)
    <3> HIDE DEF s
    <3> QED BY <1>2, <2>2 DEF InHand, HandStages
  <2>4. "slashing" \in Stages /\ "slashing" \notin TurnStages
    BY DEF Stages, TurnStages
  <2>5. UNCHANGED <<queue, batch, outcome, view, turn>>
    BY <1>1, <1>4 DEF queueVars
  <2> QED BY <1>1, <1>3, <1>4, <2>1, <2>3, <2>4, <2>5, OnwardMoves
<1>5. CASE RequeueDrainedMessages(c) /\ Rest(c, "idle") /\ UNCHANGED lockVars
  <2>1. FlagKept
    BY <1>5, FlagAlone DEF lockVars, IInv, ChainInv
  <2>2. RestAmong(c, stage, "idle")
    BY <1>5 DEF Rest
  <2>3. /\ ChainInv' /\ NoneResolves(c) /\ turn' = turn
        /\ stage'[c] # "resolving" /\ batch' = [batch EXCEPT ![c] = <<>>]
    BY <1>1, <1>3, <2>1, <2>2, RestKeeps
  <2>4. Returned(c)
    BY <1>1, <1>5, <2>3 DEF Returned, RequeueDrainedMessages
  <2> QED BY <2>3, <2>4 DEF Moves
<1>6. CASE /\ ~isProcessing /\ owner' = c /\ abortController' = "live"
           /\ stage' = [stage EXCEPT ![c] = "persisting"]
           /\ UNCHANGED <<queueVars, batch, turn, view>>
  <2>1. owner = NoOne /\ UNCHANGED <<queue, batch, turn, view>>
    BY <1>6 DEF isProcessing, queueVars
  <2>2. /\ Alike(c) /\ stage' \in [Chains -> Stages] /\ stage'[c] = "persisting"
        /\ batch'[c] = batch[c] /\ turn'[c] = turn[c]
    BY <1>6, <2>1 DEF Alike, IInv, ChainInv, ChainTypes, Stages
  <2>3. InHand("persisting", s) /\ OfOneSender("persisting", turn[c], s)
    <3> HIDE DEF s
    <3> QED BY <1>2 DEF InHand, OfOneSender, HandStages, SendStages
  <2>4. InHand(stage'[c], batch'[c]) /\ OfOneSender(stage'[c], turn'[c], batch'[c])
    BY <2>2, <2>3
  <2>5. ChainInv' /\ NoneResolves(c)
    BY <1>1, <1>6, <2>1, <2>2, <2>4, TurnStarts DEF IInv
  <2>6. NoneResolves(NoOne)
    BY <2>2, <2>5 DEF NoneResolves
  <2> QED BY <1>1, <2>1, <2>5, <2>6 DEF Moves, Kept
<1> QED BY <1>4, <1>5, <1>6 DEF ResolveSlash

\* A drained slash command is over.
LEMMA SlashDoneMoves ==
  ASSUME IInv, NEW c \in Chains, SlashDone(c)
  PROVE  ChainInv' /\ Moves
<1>1. stage[c] = "slashing" /\ stage[c] \in SendStages \cup {"slashing"}
  BY DEF SlashDone
<1>2. batch[c] # <<>> /\ Tail(batch[c]) = <<>> /\ stage[c] \notin TurnStages
  BY <1>1, SendHasOne
<1>3. /\ batch' = [batch EXCEPT ![c] = <<>>] /\ stage' = [stage EXCEPT ![c] = "drain"]
      /\ turn' = turn /\ UNCHANGED <<queue, view, owner, abortController>>
  BY DEF SlashDone, queueVars, lockVars
<1>4. FlagKept
  BY <1>3, FlagAlone DEF IInv, ChainInv
<1>5. /\ Alike(c) /\ stage' \in [Chains -> Stages] /\ stage'[c] = "drain"
      /\ batch'[c] = <<>>
  BY <1>3 DEF Alike, IInv, MsgInv, MsgTypes, ChainInv, ChainTypes, Stages
<1>6. /\ InHand(stage'[c], batch'[c]) /\ OfOneSender(stage'[c], turn'[c], batch'[c])
      /\ stage'[c] \notin TurnStages
  <2>1. Len(<<>>) = 0
    BY EmptySeq
  <2> QED BY <2>1, <1>5 DEF InHand, OfOneSender, HandStages, SendStages, TurnStages
<1>7. ChainInv' /\ NoneResolves(c)
  BY <1>2, <1>3, <1>4, <1>5, <1>6, QuietKeeps DEF IInv
<1>8. PICK end \in {"answered", "error"} :
        outcome' = [outcome EXCEPT ![Head(batch[c])] = end]
  BY DEF SlashDone
<1>9. Ended(c, end) /\ end \in {"answered", "duplicate", "error"}
  BY <1>2, <1>3, <1>8 DEF Ended, Outcomes
<1> QED BY <1>3, <1>7, <1>9 DEF Moves

\* What is in hand while a turn is being started, and what is left of it.
LEMMA PersistingHas ==
  ASSUME IInv, NEW c \in Chains, stage[c] = "persisting"
  PROVE  /\ batch[c] \in Seq(Msgs) /\ batch[c] # <<>> /\ Head(batch[c]) \in Msgs
         /\ Tail(batch[c]) \in Seq(Msgs) /\ stage[c] \in TurnStages
         /\ Tail(batch[c]) # <<>> => /\ InHand("persisting", Tail(batch[c]))
                                     /\ InHand("resolving", Tail(batch[c]))
         /\ OfOneSender("persisting", turn[c], batch[c])
         /\ \A t : t \subseteq turn[c] \cup {Head(batch[c])} =>
              /\ OfOneSender("persisting", t, Tail(batch[c]))
              /\ OfOneSender("resolving", t, Tail(batch[c]))
         /\ owner = c /\ abortController # "none"
<1> DEFINE s == batch[c]  r == Tail(s)
<1>1. /\ s \in Seq(Msgs) /\ s # <<>> /\ InHand("persisting", s)
      /\ OfOneSender("persisting", turn[c], s)
  BY DEF IInv, MsgInv, MsgTypes, ChainInv, Hands, InHand, HandStages, OneSender
<1>2. stage[c] \in TurnStages /\ owner = c /\ abortController # "none"
  BY DEF TurnStages, IInv, ChainInv, OneTurn
<1>3. /\ Head(s) \in Msgs /\ r \in Seq(Msgs) /\ ToSet(s) = {Head(s)} \cup ToSet(r)
      /\ Len(r) = Len(s) - 1 /\ Len(s) \in Nat
  <2> HIDE DEF s
  <2> QED BY <1>1, TailElements, LenProperties
<1> HIDE DEF s, r
<1>4. r # <<>> => InHand("persisting", r) /\ InHand("resolving", r)
  BY <1>1, <1>3 DEF InHand, HandStages, SendStages
<1>5. ASSUME NEW t, t \subseteq turn[c] \cup {Head(s)}
      PROVE  OfOneSender("persisting", t, r) /\ OfOneSender("resolving", t, r)
  BY <1>1, <1>3, <1>5 DEF OfOneSender
<1> QED BY <1>1, <1>2, <1>3, <1>4, <1>5 DEF s, r

\* The agent loop starts with nothing left in hand.
LEMMA LoopStarts ==
  ASSUME IInv, NEW c \in Chains, stage[c] = "persisting", StartLoop(c),
         turn' \in [Chains -> SUBSET Msgs], \A d \in Chains \ {c} : turn'[d] = turn[d],
         UNCHANGED <<owner, abortController>>
  PROVE  ChainInv' /\ NoneResolves(c)
<1>1. stage[c] \in TurnStages /\ "running" \in TurnStages
  BY DEF TurnStages
<1>2. LikeStage(Settled(stage))
  BY StagesAlike DEF IInv, ChainInv, ChainTypes
<1>3. /\ stage' = [Settled(stage) EXCEPT ![c] = "running"]
      /\ batch' = [batch EXCEPT ![c] = <<>>]
  BY DEF StartLoop
<1>4. /\ Alike(c) /\ stage' \in [Chains -> Stages] /\ stage'[c] = "running"
      /\ batch'[c] = <<>>
  BY <1>2, <1>3 DEF Alike, LikeStage, IInv, MsgInv, MsgTypes, Stages
<1>5. InHand(stage'[c], batch'[c]) /\ OfOneSender(stage'[c], turn'[c], batch'[c])
  <2>1. Len(<<>>) = 0
    BY EmptySeq
  <2> QED BY <2>1, <1>4 DEF InHand, OfOneSender, HandStages, SendStages
<1> QED BY <1>1, <1>4, <1>5, TurnGoesOn DEF IInv

\* The turn goes on to the next message of its batch.
LEMMA NextMember ==
  ASSUME IInv, NEW c \in Chains, stage[c] = "persisting", Tail(batch[c]) # <<>>,
         batch' = [batch EXCEPT ![c] = Tail(batch[c])], UNCHANGED <<stage, owner, abortController>>,
         turn' \in [Chains -> SUBSET Msgs], \A d \in Chains \ {c} : turn'[d] = turn[d],
         turn'[c] \subseteq turn[c] \cup {Head(batch[c])}
  PROVE  ChainInv' /\ NoneResolves(c)
<1> DEFINE r == Tail(batch[c])
<1>1. /\ r \in Seq(Msgs) /\ stage[c] \in TurnStages /\ InHand("persisting", r)
      /\ OfOneSender("persisting", turn'[c], r)
  BY PersistingHas
<1>2. batch' = [batch EXCEPT ![c] = r]
  OBVIOUS
<1> HIDE DEF r
<1>3. /\ Alike(c) /\ stage' \in [Chains -> Stages] /\ stage'[c] = "persisting"
      /\ batch'[c] = r
  BY <1>2 DEF Alike, IInv, MsgInv, MsgTypes, ChainInv, ChainTypes
<1>4. /\ InHand(stage'[c], batch'[c]) /\ OfOneSender(stage'[c], turn'[c], batch'[c])
      /\ stage'[c] \in TurnStages
  BY <1>1, <1>3
<1> QED BY <1>1, <1>3, <1>4, TurnGoesOn DEF IInv

\* The row of a member is written, and the turn starts or goes on.
LEMMA PersistDoneMoves ==
  ASSUME IInv, NEW c \in Chains, PersistDone(c)
  PROVE  ChainInv' /\ Moves
<1> DEFINE m == Head(batch[c])  r == Tail(batch[c])
<1>1. /\ stage[c] = "persisting" /\ outcome' = [outcome EXCEPT ![m] = "persisted"]
      /\ turn' = [turn EXCEPT ![c] = @ \cup {m}]
      /\ UNCHANGED <<queue, owner, abortController>>
  BY DEF PersistDone, queueVars
<1>2. batch[c] # <<>> /\ m \in Msgs
  BY <1>1, PersistingHas
<1>3. /\ turn' \in [Chains -> SUBSET Msgs] /\ turn'[c] = turn[c] \cup {m}
      /\ \A d \in Chains \ {c} : turn'[d] = turn[d]
  <2> HIDE DEF m
  <2> QED BY <1>1, <1>2 DEF IInv, ChainInv, ChainTypes
<1>4. "persisted" \in Outcomes \ {"unsent", "pending"}
  BY DEF Outcomes
<1>5. CASE /\ r = <<>> \/ abortController = "aborted"
           /\ StartLoop(c) /\ UNCHANGED view
  <2>1. ChainInv' /\ NoneResolves(c)
    BY <1>1, <1>3, <1>5, LoopStarts
  <2>2. Ended(c, "persisted")
    BY <1>1, <1>2, <1>4, <1>5 DEF Ended, StartLoop
  <2> QED BY <1>1, <2>1, <2>2 DEF Moves
<1>6. CASE /\ r # <<>> /\ batch' = [batch EXCEPT ![c] = r]
           /\ view' = Announced(view, Head(r)) /\ UNCHANGED <<stage, barrier>>
  <2>1. ChainInv' /\ NoneResolves(c)
    BY <1>1, <1>3, <1>6, NextMember
  <2>2. Ended(c, "persisted")
    BY <1>1, <1>2, <1>4, <1>6 DEF Ended
  <2> QED BY <1>1, <2>1, <2>2 DEF Moves
<1> QED BY <1>5, <1>6 DEF PersistDone

\* The head is skipped, and the flag given back.
LEMMA HeadSkippedMoves ==
  ASSUME IInv, NEW c \in Chains, HeadSkipped(c)
  PROVE  ChainInv' /\ Moves
<1> DEFINE m == Head(batch[c])  r == Tail(batch[c])
           next == IF r # <<>> THEN "resolving" ELSE IF origin[c] = "drain" THEN "drain" ELSE "idle"
<1>1. /\ stage[c] = "persisting" /\ turn[c] = {} /\ turn' = turn
      /\ owner' = IF owner = c THEN NoOne ELSE owner
      /\ abortController' = "none" /\ batch' = [batch EXCEPT ![c] = r]
      /\ stage' = [AmongReleased(c) EXCEPT ![c] = next]
      /\ view' = IF r # <<>> THEN Announced(view, Head(r)) ELSE view
      /\ queue' = queue
  BY DEF HeadSkipped, queueVars
<1>2. /\ batch[c] # <<>> /\ m \in Msgs /\ r \in Seq(Msgs) /\ stage[c] \in TurnStages
      /\ owner = c /\ (r # <<>> => InHand("resolving", r))
  BY <1>1, PersistingHas
<1>3. OfOneSender("resolving", {}, r)
  BY <1>1, PersistingHas
<1>4. PICK end \in {"duplicate", "error"} : outcome' = [outcome EXCEPT ![m] = end]
  BY DEF HeadSkipped
<1>5. Ended(c, end) /\ end \in {"answered", "duplicate", "error"}
  <2>1. end \in Outcomes \ {"unsent", "pending"}
    BY DEF Outcomes
  <2> QED BY <1>1, <1>2, <1>4, <2>1 DEF Ended
<1>6. LikeStage(AmongReleased(c))
  BY StagesAlike DEF IInv, ChainInv, ChainTypes
<1>7. next \in Stages /\ next \notin TurnStages
  BY DEF Stages, TurnStages
<1>8. InHand(next, r) /\ OfOneSender(next, {}, r)
  <2>1. CASE r # <<>>
    <3>1. next = "resolving" /\ InHand("resolving", r)
      BY <2>1, <1>2
    <3> HIDE DEF r, next
    <3> QED BY <3>1, <1>3
  <2>2. CASE r = <<>>
    <3>1. next \in {"drain", "idle"}
      BY <2>2
    <3>2. Len(<<>>) = 0
      BY EmptySeq
    <3> HIDE DEF r, next
    <3> QED BY <2>2, <3>1, <3>2 DEF InHand, OfOneSender, HandStages, SendStages
  <2> QED BY <2>1, <2>2
<1> HIDE DEF m, r, next
<1>9. /\ Alike(c) /\ stage' \in [Chains -> Stages] /\ stage'[c] = next
      /\ batch'[c] = r /\ turn'[c] = {} /\ turn' \in [Chains -> SUBSET Msgs]
  <2>1. /\ batch \in [Chains -> Seq(Msgs)] /\ turn \in [Chains -> SUBSET Msgs]
        /\ AmongReleased(c) \in [Chains -> Stages]
    BY <1>6 DEF LikeStage, IInv, MsgInv, MsgTypes, ChainInv, ChainTypes
  <2>2. /\ stage' \in [Chains -> Stages] /\ stage'[c] = next /\ batch'[c] = r
        /\ turn'[c] = {} /\ turn' \in [Chains -> SUBSET Msgs]
    BY <1>1, <1>7, <2>1
  <2>3. \A d \in Chains \ {c} : /\ batch'[d] = batch[d] /\ turn'[d] = turn[d]
                               /\ stage'[d] = AmongReleased(c)[d]
    BY <1>1, <2>1
  <2>4. Alike(c)
    BY <1>6, <2>3 DEF Alike, LikeStage
  <2> QED BY <2>2, <2>4
<1>10. ChainInv' /\ NoneResolves(c)
  BY <1>1, <1>2, <1>7, <1>8, <1>9, TurnEnds DEF IInv
<1> QED BY <1>1, <1>5, <1>10 DEF Moves

\* The hand-over of an interrupting send fails: the message goes to the queue,
\* and the flag, if the send had taken it, is given back.
LEMMA HandoverFailsMoves ==
  ASSUME IInv, NEW c \in Chains, HandoverFails(c)
  PROVE  ChainInv' /\ Moves
<1>1. PICK m \in Msgs, refused \in Rests :
        batch[c] = <<m>> /\ EnqueueElse(c, AmongReleased(c), m, refused)
  <2>1. PICK m \in Msgs :
          batch[c] = <<m>> /\ EnqueueElse(c, AmongReleased(c), m,
                                 IF stage[c] = "holding" THEN "drain" ELSE "idle")
    BY DEF HandoverFails
  <2>2. (IF stage[c] = "holding" THEN "drain" ELSE "idle") \in Rests
    BY DEF Rests
  <2> QED BY <2>1, <2>2
<1>2. Fresh(c, m) /\ LikeStage(AmongReleased(c))
  BY <1>1, StagesAlike DEF Fresh, IInv, ChainInv, ChainTypes
<1>3. /\ stage[c] \in {"sending", "holding", "persisting"} /\ turn[c] = {}
      /\ owner' = IF owner = c THEN NoOne ELSE owner
      /\ abortController' = IF stage[c] = "persisting" THEN "none" ELSE abortController
  BY DEF HandoverFails
<1>4. CASE stage[c] # "persisting"
  <2>1. stage[c] \notin TurnStages
    BY <1>3, <1>4 DEF TurnStages
  <2>2. FlagKept
    BY <1>3, <1>4, <2>1, OwnReleased
  <2> QED BY <1>1, <1>2, <2>1, <2>2, QuietEnqueueMoves
<1>5. CASE stage[c] = "persisting"
  <2>1. stage[c] \in TurnStages /\ owner' = NoOne /\ abortController' = "none"
    BY <1>3, <1>5, PersistingHas
  <2>2. ASSUME NEW next \in Rests, RestAmong(c, AmongReleased(c), next)
        PROVE  /\ ChainInv' /\ NoneResolves(c) /\ turn' = turn /\ stage'[c] # "resolving"
               /\ batch' = [batch EXCEPT ![c] = <<>>]
    <3>1. /\ stage' = [AmongReleased(c) EXCEPT ![c] = next]
          /\ batch' = [batch EXCEPT ![c] = <<>>] /\ turn' = [turn EXCEPT ![c] = {}]
      BY <2>2 DEF RestAmong
    <3>2. turn' = turn /\ turn' \in [Chains -> SUBSET Msgs]
      BY <1>3, <3>1 DEF IInv, ChainInv, ChainTypes
    <3>3. next \in Stages /\ next \notin TurnStages /\ next \notin HandStages
          /\ next # "resolving"
      BY DEF Rests, Stages, TurnStages, HandStages, SendStages
    <3>4. /\ Alike(c) /\ stage' \in [Chains -> Stages]
          /\ stage'[c] = next /\ batch'[c] = <<>> /\ turn'[c] = {}
      BY <1>2, <3>1, <3>3, StepOf DEF IInv, MsgInv, ChainInv
    <3>5. InHand(stage'[c], batch'[c]) /\ OfOneSender(stage'[c], turn'[c], batch'[c])
      <4>1. Len(<<>>) = 0
        BY EmptySeq
      <4>2. next \notin SendStages \cup {"slashing"} /\ next \notin {"resolving", "persisting"}
        BY <3>3 DEF HandStages
      <4> QED BY <3>3, <3>4, <4>1, <4>2 DEF InHand, OfOneSender
    <3>6. ChainInv' /\ NoneResolves(c)
      BY <2>1, <3>2, <3>3, <3>4, <3>5, TurnEnds DEF IInv
    <3> QED BY <3>1, <3>2, <3>3, <3>4, <3>6
  <2> QED BY <1>1, <1>2, <2>2, EnqueueElseMoves
<1> QED BY <1>4, <1>5

\* A later member is skipped: the turn of the head goes on without it.
LEMMA TailSkippedMoves ==
  ASSUME IInv, NEW c \in Chains, TailSkipped(c)
  PROVE  ChainInv' /\ Moves
<1> DEFINE m == Head(batch[c])  r == Tail(batch[c])
<1>1. /\ stage[c] = "persisting" /\ turn' = turn
      /\ UNCHANGED <<queue, owner, abortController>>
  BY DEF TailSkipped, queueVars
<1>2. batch[c] # <<>> /\ m \in Msgs
  BY <1>1, PersistingHas
<1>3. /\ turn' \in [Chains -> SUBSET Msgs] /\ \A d \in Chains \ {c} : turn'[d] = turn[d]
      /\ turn'[c] \subseteq turn[c] \cup {m}
  BY <1>1 DEF IInv, ChainInv, ChainTypes
<1>4. PICK end \in {"duplicate", "error"} : outcome' = [outcome EXCEPT ![m] = end]
  BY DEF TailSkipped
<1>5. end \in Outcomes \ {"unsent", "pending"} /\ end \in {"answered", "duplicate", "error"}
  BY DEF Outcomes
<1>6. CASE r = <<>> /\ StartLoop(c) /\ UNCHANGED view
  <2>1. ChainInv' /\ NoneResolves(c)
    BY <1>1, <1>3, <1>6, LoopStarts
  <2>2. Ended(c, end)
    BY <1>1, <1>2, <1>4, <1>5, <1>6 DEF Ended, StartLoop
  <2> QED BY <1>1, <1>5, <2>1, <2>2 DEF Moves
<1>7. CASE /\ r # <<>> /\ batch' = [batch EXCEPT ![c] = r]
           /\ view' = Announced(view, Head(r)) /\ UNCHANGED <<stage, barrier>>
  <2>1. ChainInv' /\ NoneResolves(c)
    BY <1>1, <1>3, <1>7, NextMember
  <2>2. Ended(c, end)
    BY <1>1, <1>2, <1>4, <1>5, <1>7 DEF Ended
  <2> QED BY <1>1, <1>5, <2>1, <2>2 DEF Moves
<1> QED BY <1>6, <1>7 DEF TailSkipped

\* releaseTurn.
LEMMA ReleaseTurnMoves ==
  ASSUME IInv, NEW c \in Chains, ReleaseTurn(c)
  PROVE  ChainInv' /\ Moves
<1>1. /\ stage[c] = "running" /\ stage[c] \in TurnStages /\ stage[c] \notin HandStages
      /\ owner' = NoOne /\ abortController' = "none"
      /\ stage' = [NotifyIdle(stage) EXCEPT ![c] = "finalizing"]
      /\ batch' = [batch EXCEPT ![c] = <<>>] /\ turn' = [turn EXCEPT ![c] = {}]
      /\ UNCHANGED <<queue, outcome, view>>
  BY DEF ReleaseTurn, RestAmong, queueVars, rowVars, TurnStages, HandStages, SendStages
<1>2. LikeStage(NotifyIdle(stage))
  BY StagesAlike DEF IInv, ChainInv, ChainTypes
<1>3. /\ Alike(c) /\ stage' \in [Chains -> Stages] /\ stage'[c] = "finalizing"
      /\ batch'[c] = <<>> /\ turn'[c] = {} /\ turn' \in [Chains -> SUBSET Msgs]
  BY <1>1, <1>2
     DEF Alike, LikeStage, IInv, MsgInv, MsgTypes, ChainInv, ChainTypes, Stages
<1>4. /\ InHand(stage'[c], batch'[c]) /\ OfOneSender(stage'[c], turn'[c], batch'[c])
      /\ stage'[c] \notin TurnStages
  <2>1. Len(<<>>) = 0
    BY EmptySeq
  <2> QED BY <2>1, <1>3 DEF InHand, OfOneSender, HandStages, SendStages, TurnStages
<1>5. ChainInv' /\ NoneResolves(c)
  BY <1>1, <1>3, <1>4, TurnEnds DEF IInv
<1>6. NoneResolves(NoOne)
  BY <1>3, <1>5 DEF NoneResolves
<1>7. batch' = batch
  BY <1>1, IdleHasNone, SameAgain DEF IInv, MsgInv, ChainInv
<1>8. turn' = [d \in Chains |-> {}]
  <2>1. \A d \in Chains : d # c => turn[d] = {}
    BY <1>1 DEF IInv, ChainInv, OneTurn
  <2> QED BY <2>1, <1>1 DEF IInv, ChainInv, ChainTypes
<1> QED BY <1>1, <1>5, <1>6, <1>7, <1>8 DEF Moves, Kept

\* The finally of a turn, and a commit that outran its turn.
LEMMA CommitMoves ==
  ASSUME IInv, OutstandingCommitSettles \/ \E c \in Chains : TurnFinally(c)
  PROVE  ChainInv' /\ Moves
<1>1. UNCHANGED <<queue, batch, outcome, view, turn>> /\ UNCHANGED <<owner, abortController>>
  BY DEF OutstandingCommitSettles, TurnFinally, queueVars, rowVars
<1>2. FlagKept
  BY <1>1, FlagAlone DEF IInv, ChainInv
<1>3. CASE OutstandingCommitSettles
  <2>1. stage' = Settled(stage) /\ LikeStage(Settled(stage))
    BY <1>3, StagesAlike DEF OutstandingCommitSettles, IInv, ChainInv, ChainTypes
  <2>2. Alike(NoOne) /\ stage' \in [Chains -> Stages]
    BY <1>1, <2>1, QueueAssumption DEF Alike, LikeStage
  <2>3. ChainInv' /\ NoneResolves(NoOne)
    BY <1>1, <1>2, <2>2, QuietKeeps, QueueAssumption DEF IInv
  <2> QED BY <1>1, <2>3 DEF Moves, Kept
<1>4. ASSUME NEW c \in Chains, TurnFinally(c) PROVE ChainInv' /\ Moves
  <2> DEFINE f == [stage EXCEPT ![c] = "drain"]
  <2>1. /\ stage[c] = "finalizing" /\ stage[c] \notin HandStages /\ stage[c] \notin TurnStages
        /\ stage' = Settled(f) \/ stage' = f
    BY <1>4 DEF TurnFinally, HandStages, SendStages, TurnStages
  <2>2. /\ Alike(c) /\ stage' \in [Chains -> Stages] /\ stage'[c] = "drain"
    <3>1. stage \in [Chains -> Stages] /\ f \in [Chains -> Stages] /\ f[c] = "drain"
          /\ \A d \in Chains \ {c} : f[d] = stage[d]
      BY DEF IInv, ChainInv, ChainTypes, Stages
    <3> HIDE DEF f
    <3>2. CASE stage' = f
      BY <3>1, <3>2, <1>1 DEF Alike
    <3>3. CASE stage' = Settled(f)
      BY <3>1, <3>3, <1>1 DEF Alike, Settled, Stages
    <3> QED BY <2>1, <3>2, <3>3
  <2>3. batch[c] = <<>> /\ batch'[c] = <<>>
    BY <1>1, <2>1, IdleHasNone
  <2>4. /\ InHand(stage'[c], batch'[c]) /\ OfOneSender(stage'[c], turn'[c], batch'[c])
        /\ stage'[c] \notin TurnStages
    <3>1. Len(<<>>) = 0
      BY EmptySeq
    <3> QED BY <3>1, <2>2, <2>3 DEF InHand, OfOneSender, HandStages, SendStages, TurnStages
  <2>5. ChainInv' /\ NoneResolves(c)
    BY <1>1, <1>2, <2>1, <2>2, <2>4, QuietKeeps DEF IInv
  <2>6. NoneResolves(NoOne)
    BY <2>2, <2>5 DEF NoneResolves
  <2> QED BY <1>1, <2>5, <2>6 DEF Moves, Kept
<1> QED BY <1>3, <1>4

\* What Stop, steer and teardown do to the flag and to the chains.
LEMMA KickKeeps ==
  ASSUME IInv, SignalOrClear, NEW kick, KickDrain(kick)
  PROVE  ChainInv' /\ NoneResolves(NoOne) /\ turn' = turn /\ batch' = batch
<1>1. FlagKept
  BY DEF SignalOrClear, FlagKept, isProcessing, IInv, ChainInv, ChainTypes, OneTurn
<1>2. LikeStage(AmongCleared)
  BY StagesAlike DEF IInv, ChainInv, ChainTypes
<1>3. ASSUME NEW c \in Chains, stage[c] = "idle", RestAmong(c, AmongCleared, "drain")
      PROVE  ChainInv' /\ NoneResolves(NoOne) /\ turn' = turn /\ batch' = batch
  <2>1. stage[c] \notin TurnStages /\ stage[c] \notin HandStages
    BY <1>3 DEF TurnStages, HandStages, SendStages
  <2>2. /\ ChainInv' /\ NoneResolves(NoOne) /\ turn' = turn
        /\ batch' = [batch EXCEPT ![c] = <<>>]
    BY <1>1, <1>2, <1>3, <2>1, RestKeeps
  <2>3. batch' = batch
    BY <2>1, <2>2, IdleHasNone, SameAgain DEF IInv, MsgInv, ChainInv
  <2> QED BY <2>2, <2>3
<1>4. CASE stage' = AmongCleared /\ UNCHANGED <<batch, turn>>
  <2>1. Alike(NoOne) /\ stage' \in [Chains -> Stages] /\ turn' = turn /\ batch' = batch
    BY <1>2, <1>4 DEF Alike, LikeStage
  <2>2. ChainInv' /\ NoneResolves(NoOne)
    BY <1>1, <2>1, QuietKeeps, QueueAssumption DEF IInv
  <2> QED BY <2>1, <2>2
<1> QED BY <1>3, <1>4 DEF KickDrain

\* What users do to the queue.
LEMMA UserMoves ==
  ASSUME IInv,
         \/ UserInterrupt \/ DiscardQueueOnAbort
         \/ \E m \in Msgs : SteerToMessage(m) \/ DeleteQueuedMessage(m)
  PROVE  ChainInv' /\ Moves
<1>0. /\ queue \in Seq(Msgs) /\ IsInjective(queue) /\ ToSet(queue) \subseteq Msgs
  BY ElementsAreMsgs DEF IInv, MsgInv, MsgTypes, HeldOnce
<1>1. CASE UserInterrupt
  <2>1. ChainInv' /\ NoneResolves(NoOne) /\ turn' = turn /\ batch' = batch
    BY <1>1, KickKeeps DEF UserInterrupt
  <2>2. Kept
    BY <1>1, <2>1 DEF UserInterrupt, Kept, queueVars, rowVars
  <2> QED BY <2>1, <2>2 DEF Moves
<1>2. CASE DiscardQueueOnAbort
  <2>1. ChainInv' /\ NoneResolves(NoOne) /\ turn' = turn /\ batch' = batch
    BY <1>2, KickKeeps DEF DiscardQueueOnAbort
  <2>2. <<>> \in Seq(Msgs) /\ ToSet(<<>>) = {} /\ IsInjective(<<>>)
    BY ShortElements
  <2>3. Deleted(ToSet(queue))
    BY <1>0, <1>2, <2>1, <2>2 DEF Deleted, DiscardQueueOnAbort
  <2> QED BY <1>0, <2>1, <2>3 DEF Moves
<1>3. ASSUME NEW m \in Msgs, SteerToMessage(m) PROVE ChainInv' /\ Moves
  <2>1. ChainInv' /\ NoneResolves(NoOne) /\ turn' = turn /\ batch' = batch
    BY <1>3, KickKeeps DEF SteerToMessage
  <2>2. m \in ToSet(queue) /\ queue' = <<m>> \o Spliced(m) /\ UNCHANGED <<outcome, view>>
    BY <1>3 DEF SteerToMessage
  <2>3. /\ Spliced(m) \in Seq(Msgs) /\ IsInjective(Spliced(m))
        /\ ToSet(Spliced(m)) = ToSet(queue) \ {m}
    BY <1>0, <2>2, SplicedElements
  <2>4. <<m>> \in Seq(Msgs) /\ ToSet(<<m>>) = {m} /\ IsInjective(<<m>>)
    BY ShortElements
  <2>5. /\ queue' \in Seq(Msgs) /\ IsInjective(queue')
        /\ ToSet(queue') = {m} \cup (ToSet(queue) \ {m})
    <3>1. ToSet(<<m>>) \cap ToSet(Spliced(m)) = {}
      BY <2>3, <2>4
    <3>2. /\ <<m>> \o Spliced(m) \in Seq(Msgs)
          /\ ToSet(<<m>> \o Spliced(m)) = ToSet(<<m>>) \cup ToSet(Spliced(m))
          /\ IsInjective(<<m>> \o Spliced(m))
      <4>1. ASSUME NEW s \in Seq(Msgs), NEW t \in Seq(Msgs), IsInjective(s),
                   IsInjective(t), ToSet(s) \cap ToSet(t) = {}
            PROVE  /\ s \o t \in Seq(Msgs) /\ ToSet(s \o t) = ToSet(s) \cup ToSet(t)
                   /\ IsInjective(s \o t)
        BY <4>1, ConcatElements
      <4> QED BY <2>3, <2>4, <3>1, <4>1, Zenon
    <3> QED BY <2>2, <2>3, <2>4, <3>2, Zenon
  <2>6. Reordered
    BY <2>1, <2>2, <2>5 DEF Reordered
  <2> QED BY <2>1, <2>6 DEF Moves
<1>4. ASSUME NEW m \in Msgs, DeleteQueuedMessage(m) PROVE ChainInv' /\ Moves
  <2>1. /\ m \in ToSet(queue) /\ queue' = Spliced(m)
        /\ outcome' = [outcome EXCEPT ![m] = "deleted"]
        /\ view' = IF m \in Hidden THEN view ELSE [view EXCEPT ![m] = "deleted"]
        /\ UNCHANGED <<stage, batch, turn, owner, abortController>>
    BY <1>4 DEF DeleteQueuedMessage, lockVars, chainVars
  <2>2. /\ queue' \in Seq(Msgs) /\ IsInjective(queue')
        /\ ToSet(queue') = ToSet(queue) \ {m}
    BY <1>0, <2>1, SplicedElements
  <2>3. outcome' = [n \in Msgs |-> IF n \in {m} THEN "deleted" ELSE outcome[n]]
    BY <2>1 DEF IInv, MsgInv, MsgTypes
  <2>4. view' = [n \in Msgs |-> IF n \in {m} \ Hidden THEN "deleted" ELSE view[n]]
    BY <2>1 DEF IInv, MsgInv, MsgTypes
  <2>5. Deleted({m})
    BY <2>1, <2>2, <2>3, <2>4 DEF Deleted
  <2>6. FlagKept
    BY <2>1, FlagAlone DEF IInv, ChainInv
  <2>7. Alike(NoOne) /\ stage' \in [Chains -> Stages] /\ turn' = turn
    BY <2>1 DEF Alike, IInv, ChainInv, ChainTypes
  <2>8. ChainInv' /\ NoneResolves(NoOne)
    BY <2>6, <2>7, QuietKeeps, QueueAssumption DEF IInv
  <2> QED BY <2>5, <2>7, <2>8 DEF Moves
<1> QED BY <1>1, <1>2, <1>3, <1>4

\* Every step is a move and keeps what is said of the chains.
LEMMA NextMoves == IInv /\ Next => ChainInv' /\ Moves
<1> SUFFICES ASSUME IInv, Next PROVE ChainInv' /\ Moves
  OBVIOUS
<1>1. ASSUME NEW c \in Chains,
             \/ CompleteSend(c) \/ ResolveSlash(c) \/ DispatchThrows(c)
             \/ InterruptUnwound(c) \/ InterruptClaim(c)
      PROVE  ChainInv' /\ Moves
  BY <1>1, CompleteSendMoves, ResolveSlashMoves, DrainFailsMoves, InterruptGoesOn,
     InterruptQueues, Zenon
<1>2. ASSUME NEW c \in Chains,
             \/ QueueSendKick(c) \/ ReleaseHold(c)
             \/ DrainQueue(c) \/ RepairDone(c) \/ RepairFails(c) \/ SlashDone(c)
      PROVE  ChainInv' /\ Moves
  BY <1>2, QueueSendKickMoves, ReleaseHoldMoves, DrainMoves, DrainFailsMoves,
     SlashDoneMoves, Zenon
<1>3. ASSUME NEW c \in Chains,
             \/ PersistDone(c) \/ HeadSkipped(c) \/ TailSkipped(c)
             \/ ReleaseTurn(c) \/ TurnFinally(c)
      PROVE  ChainInv' /\ Moves
  BY <1>3, PersistDoneMoves, HeadSkippedMoves, TailSkippedMoves, ReleaseTurnMoves,
     CommitMoves, Zenon
<1>4. ASSUME NEW c \in Chains,
             \/ InterruptBusy(c) \/ InterruptFencePass(c)
             \/ InterruptRepaired(c) \/ InterruptFails(c) \/ HandoverFails(c)
      PROVE  ChainInv' /\ Moves
  BY <1>4, InterruptGoesOn, InterruptQueues, HandoverFailsMoves, Zenon
<1>5. ASSUME NEW c \in Chains, NEW m \in Msgs, SendMessage(c, m)
      PROVE  ChainInv' /\ Moves
  BY <1>5, SendMessageMoves
<1>6. CASE OutstandingCommitSettles
  BY <1>6, CommitMoves, Zenon
<1>7. CASE \/ UserInterrupt \/ DiscardQueueOnAbort
           \/ \E m \in Msgs : SteerToMessage(m) \/ DeleteQueuedMessage(m)
  BY <1>7, UserMoves, Zenon
<1>8. CASE Microtasks
  BY <1>1, <1>8, Zenon DEF Microtasks
<1>9. CASE Tasks
  BY <1>2, <1>3, <1>4, <1>5, <1>6, <1>7, <1>9, Zenon DEF Tasks
<1> QED BY <1>8, <1>9 DEF Next

\* Every move keeps what is said of the messages.
LEMMA MovesKeepMsgs == MsgInv /\ Moves => MsgInv'
<1> SUFFICES ASSUME MsgInv, Moves PROVE MsgInv'
  OBVIOUS
<1>1. CASE (Kept \/ Reordered) /\ NoneResolves(NoOne)
  BY <1>1, ReorderedStep, Zenon
<1>2. ASSUME NEW S \in SUBSET Msgs, Deleted(S), NoneResolves(NoOne) PROVE MsgInv'
  BY <1>2, DeletedStep
<1>3. ASSUME NEW c \in Chains, NoneResolves(c), stage'[c] # "resolving",
             \E m \in Msgs : Brought(c, m) \/ Queued(c, m) \/ Refused(c, m)
      PROVE  MsgInv'
  BY <1>3, BroughtStep, QueuedStep, RefusedStep, Zenon
<1>4. ASSUME NEW c \in Chains, NoneResolves(c), NEW n \in Nat, Taken(c, n) PROVE MsgInv'
  BY <1>4, TakenStep
<1>5. ASSUME NEW c \in Chains, NoneResolves(c), stage'[c] # "resolving", Returned(c)
      PROVE  MsgInv'
  BY <1>5, ReturnedStep
<1>6. ASSUME NEW c \in Chains, NoneResolves(c), NEW end, Ended(c, end) PROVE MsgInv'
  BY <1>6, EndedStep
<1> QED BY <1>1, <1>2, <1>3, <1>4, <1>5, <1>6, Zenon DEF Moves

----------------------------------------------------------------------------
(* The theorems.                                                           *)

\* A new conversation has nothing queued and no turn.
LEMMA InitQueue == Init => IInv
<1> SUFFICES ASSUME Init PROVE IInv
  OBVIOUS
<1>1. <<>> \in Seq(Msgs) /\ ToSet(<<>>) = {} /\ IsInjective(<<>>) /\ Len(<<>>) = 0
  BY ShortElements, EmptySeq
<1>2. MsgTypes
  BY <1>1 DEF Init, MsgTypes, Outcomes
<1>3. HeldOnce
  BY <1>1 DEF Init, HeldOnce
<1>4. RowsInHand
  BY <1>1 DEF Init, RowsInHand
<1>5. RowsRight
  BY <1>1 DEF Init, RowsRight, ClientRowsMatch
<1>6. ChainTypes
  BY DEF Init, ChainTypes, Stages
<1>7. Hands
  BY <1>1 DEF Init, Hands, InHand, HandStages, SendStages
<1>8. OneTurn
  BY DEF Init, OneTurn, TurnStages
<1>9. OneSender
  BY DEF Init, OneSender, OfOneSender
<1> QED BY <1>2, <1>3, <1>4, <1>5, <1>6, <1>7, <1>8, <1>9 DEF IInv, MsgInv, ChainInv

\* Every step of the conversation keeps the invariant.
LEMMA NextQueue == IInv /\ [Next]_vars => IInv'
<1> SUFFICES ASSUME IInv, [Next]_vars PROVE IInv'
  OBVIOUS
<1>1. CASE Next
  BY <1>1, NextMoves, MovesKeepMsgs DEF IInv
<1>2. CASE UNCHANGED vars
  <2>1. UNCHANGED <<queue, batch, outcome, view, owner, abortController, stage, turn>>
    BY <1>2 DEF vars, queueVars, lockVars, chainVars, rowVars
  <2>2. MsgInv'
    BY <2>1 DEF IInv, MsgInv, MsgTypes, HeldOnce, RowsInHand, RowsRight, ClientRowsMatch
  <2>3. ChainInv'
    BY <2>1 DEF IInv, ChainInv, ChainTypes, Hands, OneTurn, OneSender
  <2> QED BY <2>2, <2>3 DEF IInv
<1> QED BY <1>1, <1>2

\* An accepted message is in one place, the queue or the hands of one chain,
\* whatever drains, requeues, restores and interrupts do (drainQueue,
\* requeueDrainedMessages, dispatchDrainWithRestore).
THEOREM QueueHeldOnce == Spec => []HeldOnce
<1>1. IInv => HeldOnce
  BY DEF IInv, MsgInv
<1> QED BY InitQueue, NextQueue, <1>1, PTL DEF Spec

\* A client shows a queued row for what is in the queue and for nothing that
\* has ended (announceDequeue, message_requeued, message_queued_deleted).
THEOREM QueueRows == Spec => []ClientRowsMatch
<1>1. IInv => ClientRowsMatch
  BY DEF IInv, MsgInv, RowsRight
<1> QED BY InitQueue, NextQueue, <1>1, PTL DEF Spec

\* What a move means to MessageLifecycle.
LEMMA MovesKeepPromises == IInv /\ Moves => [Lifecycle!Next]_(Lifecycle!vars)
<1> SUFFICES ASSUME IInv, Moves PROVE [Lifecycle!Next]_(Lifecycle!vars)
  OBVIOUS
<1> DEFINE T == UNION {turn[c] : c \in Chains}
<1>0. outcome \in [Msgs -> Outcomes] /\ turn \in [Chains -> SUBSET Msgs]
  BY DEF IInv, MsgInv, MsgTypes, ChainInv, ChainTypes
<1>1. turn' = turn => T' = T
  OBVIOUS
<1>2. ASSUME outcome' = outcome, turn' = turn PROVE [Lifecycle!Next]_(Lifecycle!vars)
  BY <1>2 DEF Lifecycle!vars
<1>3. ASSUME Kept, turn' = [d \in Chains |-> {}] PROVE [Lifecycle!Next]_(Lifecycle!vars)
  <2>1. T' = {} /\ outcome' = outcome
    BY <1>3 DEF Kept
  <2>2. Lifecycle!End
    BY <2>1 DEF Lifecycle!End
  <2> QED BY <2>2 DEF Lifecycle!Next
<1>4. ASSUME turn' = turn, NEW S \in SUBSET Msgs, Deleted(S)
      PROVE  [Lifecycle!Next]_(Lifecycle!vars)
  <2>1. \A m \in S : outcome[m] = "pending"
    BY <1>4 DEF Deleted, IInv, MsgInv, HeldOnce
  <2>2. Lifecycle!Delete(S)
    BY <1>1, <1>4, <2>1 DEF Deleted, Lifecycle!Delete
  <2> QED BY <2>2 DEF Lifecycle!Next
<1>5. ASSUME NEW c \in Chains, turn' = turn, NEW m \in Msgs,
             Brought(c, m) \/ Queued(c, m) \/ Refused(c, m)
      PROVE  [Lifecycle!Next]_(Lifecycle!vars)
  <2>1. outcome[m] \in {"unsent", "pending"}
    <3>1. ToSet(<<m>>) = {m}
      BY ShortElements
    <3> QED BY <1>5, <3>1 DEF Brought, Queued, Refused, Fresh, IInv, MsgInv, HeldOnce
  <2>2. CASE outcome' = [outcome EXCEPT ![m] = "pending"] /\ outcome[m] = "unsent"
    <3>1. Lifecycle!Accept(m)
      BY <1>1, <1>5, <2>2 DEF Lifecycle!Accept
    <3> QED BY <3>1 DEF Lifecycle!Next
  <2>3. CASE outcome' = [outcome EXCEPT ![m] = "pending"] /\ outcome[m] = "pending"
    <3>1. outcome' = outcome
      BY <1>0, <2>3
    <3> QED BY <1>2, <1>5, <3>1
  <2>4. CASE outcome' = [outcome EXCEPT ![m] = "rejected"]
    <3>1. Lifecycle!Reject(m)
      BY <1>1, <1>5, <2>1, <2>4 DEF Lifecycle!Reject
    <3> QED BY <3>1 DEF Lifecycle!Next
  <2> QED BY <1>5, <2>1, <2>2, <2>3, <2>4 DEF Brought, Queued, Refused
<1>6. ASSUME NEW c \in Chains, turn' = turn,
             NEW end \in {"answered", "duplicate", "error"}, Ended(c, end)
      PROVE  [Lifecycle!Next]_(Lifecycle!vars)
  <2> DEFINE m == Head(batch[c])
  <2>1. m \in Msgs /\ outcome[m] = "pending"
    <3>1. batch[c] \in Seq(Msgs) /\ batch[c] # <<>>
      BY <1>6 DEF Ended, IInv, MsgInv, MsgTypes
    <3>2. m \in Msgs /\ m \in ToSet(batch[c])
      BY <3>1, TailElements
    <3> QED BY <3>2 DEF IInv, MsgInv, HeldOnce
  <2>2. outcome' = [outcome EXCEPT ![m] = end]
    BY <1>6 DEF Ended
  <2> HIDE DEF m
  <2>3. Lifecycle!Conclude(m, end)
    BY <1>1, <1>6, <2>1, <2>2 DEF Lifecycle!Conclude
  <2> QED BY <2>1, <2>3 DEF Lifecycle!Next
<1>7. ASSUME NEW c \in Chains, stage[c] = "persisting", Ended(c, "persisted"),
             turn' = [turn EXCEPT ![c] = @ \cup {Head(batch[c])}]
      PROVE  [Lifecycle!Next]_(Lifecycle!vars)
  <2>0. PICK m \in Msgs : m = Head(batch[c])
    BY <1>7, PersistingHas
  <2>1. /\ batch[c] \in Seq(Msgs) /\ batch[c] # <<>>
        /\ OfOneSender("persisting", turn[c], batch[c]) /\ owner = c
    BY <1>7, PersistingHas
  <2>2. m \in ToSet(batch[c])
    BY <2>0, <2>1, TailElements
  <2>3. outcome[m] = "pending"
    BY <2>2 DEF IInv, MsgInv, HeldOnce
  <2>4. /\ outcome' = [outcome EXCEPT ![m] = "persisted"]
        /\ turn' = [turn EXCEPT ![c] = @ \cup {m}]
    BY <1>7, <2>0 DEF Ended
  <2>5. \A n \in turn[c] : Sender[n] = Sender[m]
    BY <2>1, <2>2 DEF OfOneSender
  <2>6. \A d \in Chains : d # c => turn[d] = {}
    BY <2>1 DEF IInv, ChainInv, OneTurn
  <2>7. T = turn[c]
    BY <2>6
  <2>8. turn'[c] = turn[c] \cup {m} /\ \A d \in Chains : d # c => turn'[d] = {}
    BY <1>0, <2>4, <2>6
  <2>9. T' = T \cup {m}
    BY <2>7, <2>8
  <2>10. Lifecycle!Join(m)
    <3> HIDE DEF T
    <3>1. /\ \A n \in T : Sender[n] = Sender[m]
          /\ T' = T \cup {m}
      BY <2>5, <2>7, <2>9
    <3> QED BY <2>3, <2>4, <3>1 DEF Lifecycle!Join, T
  <2>11. \E n \in Msgs : Lifecycle!Join(n)
    BY <2>10
  <2>12. Lifecycle!Next
    BY <2>11, Zenon DEF Lifecycle!Next
  <2> QED BY <2>12
<1>8. ASSUME NEW c \in Chains, turn' = turn, NEW n, Taken(c, n) \/ Returned(c)
      PROVE  [Lifecycle!Next]_(Lifecycle!vars)
  BY <1>2, <1>8 DEF Taken, Returned
<1>9. ASSUME turn' = turn, Kept \/ Reordered PROVE [Lifecycle!Next]_(Lifecycle!vars)
  BY <1>2, <1>9 DEF Kept, Reordered
<1> QED BY <1>3, <1>4, <1>5, <1>6, <1>7, <1>8, <1>9, Zenon DEF Moves

\* The conversation implements MessageLifecycle: one turn at a time, of one
\* sender, and one end for each message, through every requeue, restore,
\* interrupt and race for the flag.
THEOREM QueueKeepsPromises == Spec => KeepsPromises
<1>1. Init => Lifecycle!Init
  <2>1. Init => UNION {turn[c] : c \in Chains} = {}
    BY DEF Init
  <2> QED BY <2>1 DEF Init, Lifecycle!Init
<1>2. IInv /\ [Next]_vars => [Lifecycle!Next]_(Lifecycle!vars)
  <2> SUFFICES ASSUME IInv, [Next]_vars PROVE [Lifecycle!Next]_(Lifecycle!vars)
    OBVIOUS
  <2>1. CASE Next
    BY <2>1, NextMoves, MovesKeepPromises
  <2>2. CASE UNCHANGED vars
    BY <2>2 DEF vars, chainVars, rowVars, Lifecycle!vars
  <2> QED BY <2>1, <2>2
<1> QED BY InitQueue, NextQueue, <1>1, <1>2, PTL DEF Spec, KeepsPromises, Lifecycle!Spec

----------------------------------------------------------------------------
(* Nothing is lost, unless a Stop falls between two persists.              *)

\* The messages that are queued or in the hands of a chain.
Held == ToSet(queue) \cup UNION {ToSet(batch[c]) : c \in Chains}

\* A move keeps hold of every message that is not over, but for a stopped turn
\* with more than one message in hand.
LEMMA MovesLoseNothing ==
  ASSUME IInv, Moves, NothingLost,
         abortController # "aborted"
           \/ \A c \in Chains : batch[c] # <<>> => Tail(batch[c]) = <<>>
  PROVE  NothingLost'
<1>0. /\ queue \in Seq(Msgs) /\ batch \in [Chains -> Seq(Msgs)]
      /\ outcome \in [Msgs -> Outcomes]
  BY DEF IInv, MsgInv, MsgTypes
<1>1. \A m \in Msgs : outcome[m] = "pending" => m \in Held
  BY DEF NothingLost, Held
<1>2. SUFFICES ASSUME NEW m \in Msgs, outcome'[m] = "pending" PROVE m \in Held'
  BY DEF NothingLost, Held
<1>3. CASE Kept \/ Reordered
  <2>1. outcome' = outcome /\ batch' = batch /\ ToSet(queue') = ToSet(queue)
    BY <1>3 DEF Kept, Reordered
  <2> QED BY <1>1, <1>2, <2>1 DEF Held
<1>4. ASSUME NEW S \in SUBSET Msgs, Deleted(S) PROVE m \in Held'
  <2>1. /\ batch' = batch /\ ToSet(queue') = ToSet(queue) \ S
        /\ m \notin S /\ outcome'[m] = outcome[m]
    BY <1>2, <1>4 DEF Deleted
  <2> QED BY <1>1, <1>2, <2>1 DEF Held
<1>5. ASSUME NEW c \in Chains, NEW n \in Msgs, Brought(c, n) PROVE m \in Held'
  <2>1. /\ batch' = [batch EXCEPT ![c] = <<n>>] /\ queue' = queue /\ batch[c] = <<>>
        /\ m # n => outcome[m] = "pending"
    BY <1>0, <1>2, <1>5 DEF Brought
  <2>2. ToSet(<<n>>) = {n} /\ ToSet(<<>>) = {}
    BY ShortElements
  <2>3. \A d \in Chains : ToSet(batch'[d]) = IF d = c THEN {n} ELSE ToSet(batch[d])
    BY <1>0, <2>1, <2>2
  <2>4. ToSet(batch[c]) = {}
    BY <2>1, <2>2
  <2> QED BY <1>1, <2>1, <2>3, <2>4 DEF Held
<1>6. ASSUME NEW c \in Chains, NEW n \in Msgs, Queued(c, n) PROVE m \in Held'
  <2>1. /\ batch' = [batch EXCEPT ![c] = <<>>] /\ queue' = Append(queue, n)
        /\ m # n => outcome[m] = "pending"
    BY <1>0, <1>2, <1>6 DEF Queued
  <2>2. ToSet(queue') = ToSet(queue) \cup {n}
    BY <1>0, <2>1, AppendElements
  <2>3. ToSet(batch[c]) \subseteq {n}
    BY <1>6, FreshIsElsewhere DEF Queued, IInv
  <2>4. \A d \in Chains : d # c => batch'[d] = batch[d]
    BY <1>0, <2>1
  <2> QED BY <1>1, <2>1, <2>2, <2>3, <2>4 DEF Held
<1>7. ASSUME NEW c \in Chains, NEW n \in Msgs, Refused(c, n) PROVE m \in Held'
  <2>1. /\ batch' = [batch EXCEPT ![c] = <<>>] /\ queue' = queue
        /\ m # n /\ outcome[m] = "pending"
    BY <1>0, <1>2, <1>7 DEF Refused
  <2>2. ToSet(batch[c]) \subseteq {n}
    BY <1>7, FreshIsElsewhere DEF Refused, IInv
  <2>3. \A d \in Chains : d # c => batch'[d] = batch[d]
    BY <1>0, <2>1
  <2> QED BY <1>1, <2>1, <2>2, <2>3 DEF Held
<1>8. ASSUME NEW c \in Chains, NEW n \in Nat, Taken(c, n) PROVE m \in Held'
  <2> DEFINE a == SubSeq(queue, 1, n)  b == SubSeq(queue, n + 1, Len(queue))
  <2>1. /\ batch' = [batch EXCEPT ![c] = a] /\ queue' = b /\ outcome[m] = "pending"
        /\ batch[c] = <<>> /\ n \in 1 .. Len(queue)
    BY <1>2, <1>8 DEF Taken
  <2>2. ToSet(queue) = ToSet(a) \cup ToSet(b)
    <3>1. n \in 0 .. Len(queue)
      BY <2>1
    <3> QED BY <1>0, <3>1, SplitElements
  <2> HIDE DEF a, b
  <2>3. /\ batch'[c] = a /\ \A d \in Chains : d # c => batch'[d] = batch[d]
    BY <1>0, <2>1
  <2>4. ToSet(batch[c]) = {}
    BY <2>1, ShortElements
  <2> QED BY <1>1, <2>1, <2>2, <2>3, <2>4 DEF Held
<1>9. ASSUME NEW c \in Chains, Returned(c) PROVE m \in Held'
  <2>1. /\ batch' = [batch EXCEPT ![c] = <<>>] /\ queue' = batch[c] \o queue
        /\ outcome[m] = "pending"
    BY <1>2, <1>9 DEF Returned
  <2>2. ToSet(queue') = ToSet(batch[c]) \cup ToSet(queue)
    BY <1>0, <2>1, ConcatElements
  <2>3. \A d \in Chains : d # c => batch'[d] = batch[d]
    BY <1>0, <2>1
  <2> QED BY <1>1, <2>1, <2>2, <2>3 DEF Held
<1>10. ASSUME NEW c \in Chains, NEW end, Ended(c, end) PROVE m \in Held'
  <2> DEFINE h == Head(batch[c])  r == Tail(batch[c])
  <2>1. /\ batch[c] # <<>> /\ batch[c] \in Seq(Msgs) /\ end # "pending"
        /\ outcome' = [outcome EXCEPT ![h] = end] /\ queue' = queue
        /\ \/ batch' = [batch EXCEPT ![c] = r]
           \/ /\ r = <<>> \/ abortController = "aborted"
              /\ batch' = [batch EXCEPT ![c] = <<>>]
    BY <1>0, <1>10 DEF Ended
  <2>2. h \in Msgs /\ ToSet(batch[c]) = {h} \cup ToSet(r) /\ r \in Seq(Msgs)
    BY <2>1, TailElements
  <2>3. batch' = [batch EXCEPT ![c] = r]
    BY <2>1
  <2> HIDE DEF h, r
  <2>4. m # h /\ outcome[m] = "pending"
    BY <1>0, <1>2, <2>1, <2>2
  <2>5. batch'[c] = r /\ \A d \in Chains : d # c => batch'[d] = batch[d]
    BY <1>0, <2>3
  <2> QED BY <1>1, <2>1, <2>2, <2>4, <2>5 DEF Held
<1> QED BY <1>3, <1>4, <1>5, <1>6, <1>7, <1>8, <1>9, <1>10, Zenon DEF Moves

\* Only a turn that was stopped drops a message: the tails that a Stop finds
\* popped and not yet persisted are the one way in which an accepted message
\* gets lost (drainBatch's persist loop).
THEOREM OnlyAStoppedTurnDrops ==
  Spec => [][NothingLost /\ abortController # "aborted" => NothingLost']_vars
<1>1. IInv /\ [Next]_vars
        => [NothingLost /\ abortController # "aborted" => NothingLost']_vars
  <2> SUFFICES ASSUME IInv, Next, NothingLost, abortController # "aborted"
               PROVE  NothingLost'
    OBVIOUS
  <2> QED BY NextMoves, MovesLoseNothing
<1> QED BY InitQueue, NextQueue, <1>1, PTL DEF Spec

\* Without Stop, steer, teardown and interrupting sends no turn is aborted.
LEMMA NoAbort ==
  ASSUME ~Interrupts, ~InterruptOnSend, [Next]_vars, abortController # "aborted"
  PROVE  abortController' # "aborted"
<1>1. CASE UNCHANGED vars
  BY <1>1 DEF vars, lockVars
<1>2. ASSUME NEW c \in Chains,
             \/ CompleteSend(c) \/ ResolveSlash(c) \/ DispatchThrows(c)
             \/ InterruptUnwound(c) \/ InterruptClaim(c)
      PROVE  abortController' # "aborted"
  BY <1>2 DEF CompleteSend, ResolveSlash, DispatchThrows, InterruptUnwound, InterruptClaim,
              lockVars
<1>3. ASSUME NEW c \in Chains,
             \/ QueueSendKick(c) \/ ReleaseHold(c)
             \/ DrainQueue(c) \/ RepairDone(c) \/ RepairFails(c) \/ SlashDone(c)
      PROVE  abortController' # "aborted"
  BY <1>3 DEF QueueSendKick, ReleaseHold, DrainQueue, RepairDone, RepairFails, SlashDone,
              lockVars
<1>4. ASSUME NEW c \in Chains,
             \/ PersistDone(c) \/ HeadSkipped(c) \/ TailSkipped(c)
             \/ ReleaseTurn(c) \/ TurnFinally(c)
      PROVE  abortController' # "aborted"
  BY <1>4 DEF PersistDone, HeadSkipped, TailSkipped, ReleaseTurn, TurnFinally
<1>5. ASSUME NEW c \in Chains,
             \/ InterruptBusy(c) \/ InterruptFencePass(c)
             \/ InterruptRepaired(c) \/ InterruptFails(c) \/ HandoverFails(c)
      PROVE  abortController' # "aborted"
  BY <1>5 DEF InterruptBusy, InterruptFencePass, InterruptRepaired, InterruptFails,
              HandoverFails, ReleaseInterrupt, lockVars
<1>6. ASSUME NEW c \in Chains, NEW m \in Msgs, SendMessage(c, m)
      PROVE  abortController' # "aborted"
  BY <1>6 DEF SendMessage, MayInterrupt, lockVars
<1>7. ~UserInterrupt /\ ~DiscardQueueOnAbort
      /\ \A m \in Msgs : ~SteerToMessage(m) /\ ~DeleteQueuedMessage(m)
  BY DEF UserInterrupt, DiscardQueueOnAbort, SteerToMessage, DeleteQueuedMessage
<1>8. CASE OutstandingCommitSettles
  BY <1>8 DEF OutstandingCommitSettles
<1>9. CASE Microtasks
  BY <1>2, <1>9, Zenon DEF Microtasks
<1>10. CASE Tasks
  BY <1>3, <1>4, <1>5, <1>6, <1>7, <1>8, <1>10, Zenon DEF Tasks
<1> QED BY <1>1, <1>9, <1>10 DEF Next

\* Where no two messages share a sender, no chain has two messages in hand.
LEMMA DistinctSendersTakeOne ==
  ASSUME IInv, \A m, n \in Msgs : Sender[m] = Sender[n] => m = n, NEW c \in Chains
  PROVE  batch[c] # <<>> => Tail(batch[c]) = <<>>
<1> DEFINE s == batch[c]  r == Tail(s)
<1> SUFFICES ASSUME s # <<>> PROVE r = <<>>
  OBVIOUS
<1>1. s \in Seq(Msgs) /\ IsInjective(s)
  BY DEF IInv, MsgInv, MsgTypes, HeldOnce
<1>2. /\ Head(s) \in Msgs /\ r \in Seq(Msgs) /\ ToSet(s) = {Head(s)} \cup ToSet(r)
      /\ Head(s) \notin ToSet(r)
  <2> HIDE DEF s
  <2> QED BY <1>1, TailElements
<1>3. stage[c] \in HandStages
  BY DEF IInv, ChainInv, Hands, InHand
<1>4. CASE stage[c] \in SendStages \cup {"slashing"}
  BY <1>4, SendHasOne
<1>5. CASE stage[c] \in {"resolving", "persisting"}
  <2>1. \A m, n \in ToSet(s) : Sender[m] = Sender[n]
    BY <1>5 DEF IInv, ChainInv, OneSender, OfOneSender
  <2>2. ToSet(r) \subseteq Msgs
    BY <1>2, ElementsAreMsgs
  <2> HIDE DEF s, r
  <2>3. ToSet(r) = {}
    BY <1>2, <2>1, <2>2
  <2>4. r # <<>> => Head(r) \in ToSet(r)
    BY <1>2, TailElements
  <2> QED BY <2>3, <2>4 DEF r
<1> QED BY <1>3, <1>4, <1>5 DEF HandStages

\* An accepted message is queued or in hand until it has ended, where nothing
\* aborts a turn and where no two messages are of one sender; the batch of
\* several messages that a Stop cuts short is the exception of the code.
THEOREM QueueLosesNothing ==
  ASSUME \/ ~Interrupts /\ ~InterruptOnSend
         \/ \A m, n \in Msgs : Sender[m] = Sender[n] => m = n
  PROVE  Spec => []NothingLost
<1> DEFINE Calm == ~Interrupts /\ ~InterruptOnSend => abortController # "aborted"
<1>1. Init => NothingLost /\ Calm
  BY DEF Init, NothingLost
<1>2. IInv /\ NothingLost /\ Calm /\ [Next]_vars => (NothingLost /\ Calm)'
  <2> SUFFICES ASSUME IInv, NothingLost, Calm, [Next]_vars PROVE (NothingLost /\ Calm)'
    OBVIOUS
  <2>1. Calm'
    BY NoAbort
  <2>2. CASE Next /\ abortController # "aborted"
    BY <2>1, <2>2, NextMoves, MovesLoseNothing
  <2>3. CASE Next /\ abortController = "aborted"
    <3>1. \A m, n \in Msgs : Sender[m] = Sender[n] => m = n
      BY <2>3
    <3>2. \A c \in Chains : batch[c] # <<>> => Tail(batch[c]) = <<>>
      BY <3>1, DistinctSendersTakeOne
    <3> QED BY <2>1, <2>3, <3>2, NextMoves, MovesLoseNothing
  <2>4. CASE UNCHANGED vars
    <3>1. UNCHANGED <<queue, batch, outcome>>
      BY <2>4 DEF vars, queueVars, chainVars, rowVars
    <3>2. NothingLost'
      BY <3>1 DEF NothingLost
    <3> QED BY <2>1, <3>2
  <2> QED BY <2>2, <2>3, <2>4
<1> QED BY InitQueue, NextQueue, <1>1, <1>2, PTL DEF Spec
=============================================================================
