--------------------------- MODULE MCUmqttExchange ---------------------------
(* Names for the threads of the small instances of UmqttExchange, and what may *)
(* happen in them.                                                             *)
EXTENDS UmqttExchange

CONSTANTS Alarm, Shell

\* A call together with the callback, PINGREQ and a lost connection.
Shared == [calls |-> 1, inbound |-> 1, pings |-> 1, losses |-> 1,
           kinds |-> {"pub1", "sub", "async"}, exclusive |-> FALSE]

\* Calls of one thread at a time, PINGREQ and a lost connection.
Exclusive == [calls |-> 3, inbound |-> 0, pings |-> 1, losses |-> 1,
              kinds |-> {"pub1", "pub2", "sub", "unsub"}, exclusive |-> TRUE]

\* The status reply and an alarm.
Reply == [calls |-> 1, inbound |-> 1, pings |-> 0, losses |-> 0,
          kinds |-> {"pub1"}, exclusive |-> FALSE]

\* Two threads with a call each over a connection that may be lost.
TwoCallers == [calls |-> 2, inbound |-> 0, pings |-> 0, losses |-> 1,
               kinds |-> {"pub1", "unsub"}, exclusive |-> FALSE]

CallBudgets == {Shared, Exclusive, TwoCallers}
ReplyBudget == {Reply}
=============================================================================
