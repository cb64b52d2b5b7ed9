----------------------------- MODULE MCUmqttSubs -----------------------------
(* Filters, topics and plans for the small instances of UmqttSubs. *)
EXTENDS UmqttSubs

A == <<"a">>
AB == <<"a", "b">>
AC == <<"a", "c">>
AD == <<"a", "d">>

\* A filter that begins with another, a loss, a refusal, a message, unsubscribes.
Rough == [calls |-> 3, inbound |-> 1, losses |-> 1, filters |-> {A, AB}, topics |-> {AB},
          unsubscribes |-> TRUE, inTurn |-> FALSE, refuses |-> TRUE, steady |-> FALSE]

\* One connection, with late answers and a callback.
Steady == [calls |-> 3, inbound |-> 1, losses |-> 0, filters |-> {AB, AC},
           topics |-> {AB}, unsubscribes |-> FALSE, inTurn |-> FALSE, refuses |-> FALSE,
           steady |-> TRUE]

\* More subscriptions than the list is meant for.
Crowd == [Steady EXCEPT !.calls = 4, !.inbound = 0, !.filters = {AB, AC, AD}]

\* Subscribing and unsubscribing in turn.
InTurn == [calls |-> 6, inbound |-> 0, losses |-> 0, filters |-> {AB, AC, AD},
           topics |-> {}, unsubscribes |-> TRUE, inTurn |-> TRUE, refuses |-> FALSE, steady |-> TRUE]

\* Every kind of filter, against topics with one to three levels, some of them empty.
Wild == [calls |-> 2, inbound |-> 1, losses |-> 0,
         filters |-> {A, <<"+">>, <<"#">>, <<"a", "/", "b">>, <<"a", "/", "+">>,
                      <<"+", "/", "b">>, <<"a", "/", "#">>, <<"/", "+">>},
         topics |-> {A, AB, <<"/", "a">>, <<"a", "/">>, <<"a", "b", "/", "b">>,
                     <<"a", "/", "a", "b", "/", "b">>},
         unsubscribes |-> FALSE, inTurn |-> TRUE, refuses |-> FALSE, steady |-> FALSE]

StatusTopic == {AB}
SubsPlans == {Rough, Steady, Crowd, InTurn, Wild}

\* Two calls in turn, for one filter, on a connection that may be lost.
LossPlan == {[Wild EXCEPT !.inbound = 0, !.topics = {}, !.filters = {AB}, !.losses = 1]}
=============================================================================
