----------------------- MODULE MCConversationQueue -----------------------
(* Instances of ConversationQueue for TLC.                                *)
EXTENDS ConversationQueue, TLC

CONSTANTS m1, m2, m3, m4

\* m1, m2 and m4 come from one sender, m3 from another.
TwoSenders == [m \in Msgs |-> IF m = m3 THEN "contact" ELSE "guardian"]
\* No two messages share a sender, so nothing coalesces.
AllDistinct == [m \in Msgs |-> m]
\* Everything comes from one sender and may coalesce.
OneSender == [m \in Msgs |-> "guardian"]

\* m1 is small, the others are not: some sets fit the budget, some do not.
Sizes == [m \in Msgs |-> IF m = m1 THEN 1 ELSE 2]

Symmetry == Permutations(Chains)
==========================================================================
