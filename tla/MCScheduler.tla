---------------------------- MODULE MCScheduler ----------------------------
(* Instances of Scheduler for TLC.                                         *)
EXTENDS Scheduler

Once(m) == [once |-> TRUE, mode |-> m]
Often(m) == [once |-> FALSE, mode |-> m]

\* One schedule of any kind.
EachAlone ==
  [Jobs -> [once : BOOLEAN, mode : {"notify", "script", "workflow", "execute", "wake",
                                    "legacy", "incomplete"}]]

\* Two schedules that one tick claims together.
Pairs == {[a |-> Once("notify"), b |-> Often("script")],
          [a |-> Once("execute"), b |-> Once("wake")],
          [a |-> Once("incomplete"), b |-> Once("script")],
          [a |-> Once("legacy"), b |-> Once("workflow")]}
=============================================================================
