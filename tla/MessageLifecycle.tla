--------------------------- MODULE MessageLifecycle ---------------------------
(***************************************************************************)
(* What a conversation promises of the messages sent to it, whatever       *)
(* queue, drain, interrupt and requeue do behind it: a message has one end  *)
(* and keeps it, and at most one turn runs, of messages of one sender that  *)
(* were all waiting when it took them.  ConversationQueue implements it.    *)
(***************************************************************************)
CONSTANTS Msgs, Sender

VARIABLES life,  \* how far each message has come
          turn   \* the messages of the turn that is being started or run

vars == <<life, turn>>

Init ==
  /\ life = [m \in Msgs |-> "unsent"]
  /\ turn = {}

\* A send is accepted.
Accept(m) ==
  /\ life[m] = "unsent"
  /\ life' = [life EXCEPT ![m] = "pending"]
  /\ UNCHANGED turn

\* The queue is full: the send is refused, or, once accepted, reported failed.
Reject(m) ==
  /\ life[m] \in {"unsent", "pending"}
  /\ life' = [life EXCEPT ![m] = "rejected"]
  /\ UNCHANGED turn

\* A waiting message ends without a turn: a command that was executed, a
\* repetition of an earlier send, a failure its sender is told of.
Conclude(m, end) ==
  /\ life[m] = "pending"
  /\ life' = [life EXCEPT ![m] = end]
  /\ UNCHANGED turn

\* A waiting message joins the turn that is being started.
Join(m) ==
  /\ life[m] = "pending"
  /\ \A n \in turn : Sender[n] = Sender[m]
  /\ life' = [life EXCEPT ![m] = "persisted"]
  /\ turn' = turn \cup {m}

\* The turn is over.
End ==
  /\ turn' = {}
  /\ UNCHANGED life

\* Waiting messages are deleted, one by its sender or all by a teardown.
Delete(S) ==
  /\ \A m \in S : life[m] = "pending"
  /\ life' = [m \in Msgs |-> IF m \in S THEN "deleted" ELSE life[m]]
  /\ UNCHANGED turn

Next ==
  \/ \E m \in Msgs :
       \/ Accept(m) \/ Reject(m) \/ Join(m)
       \/ \E end \in {"answered", "duplicate", "error"} : Conclude(m, end)
  \/ End
  \/ \E S \in SUBSET Msgs : Delete(S)

Spec == Init /\ [][Next]_vars
=============================================================================
