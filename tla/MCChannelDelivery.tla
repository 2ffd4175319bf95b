-------------------------- MODULE MCChannelDelivery --------------------------
(* ChannelDelivery with two events: one Slack message repeated, with a short  *)
(* reply and two incidents or a longer one and one incident, or a Slack      *)
(* beside a Telegram message.                                               *)
EXTENDS ChannelDelivery

Replies(m) == IF m = "thread" THEN 2 ELSE 1

Repeated(m) == [e \in Events |-> m]
TwoEvents == {Repeated("slack"), Repeated("thread"),
              [e \in Events |-> IF e = "e1" THEN "slack" ELSE "telegram"]}

Incidents(f) == IF f = Repeated("slack") THEN 2 ELSE 1
=============================================================================
