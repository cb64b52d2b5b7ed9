------------------------------ MODULE UmqttSubs ------------------------------
(***************************************************************************)
(* The subscriptions of the MQTT client (packages/umqtt-v1.0.0/src/umqtt.c): *)
(* the list sub_recv_list that umqtt_subscribe and umqtt_unsubscribe change  *)
(* when their acknowledgement has come, the receive thread Rx that walks it  *)
(* for every message without a lock, and the broker, which forgets all       *)
(* subscriptions with the connection, since every CONNECT asks for a clean   *)
(* session.  main subscribes once at the start, the shell whatever its user  *)
(* types; the callback publishes an answer from inside the walk              *)
(* (applications/umqtt_sample.c).                                            *)
(*                                                                           *)
(* Rx has the highest priority: the others only run while it reads or is     *)
(* blocked in its callback.  A call encodes and sends in one step here; what *)
(* the threads do to each other's packets is the subject of UmqttExchange.   *)
(***************************************************************************)
EXTENDS UmqttTopics

CONSTANTS
  Main, Shell,  \* the threads that subscribe
  Limit,        \* PKG_UMQTT_SUBRECV_DEF_LENGTH
  QueueSize,    \* PKG_UMQTT_MSG_QUEUE_ACK_DEF_SIZE
  ReconMax,     \* PKG_UMQTT_PUBLISH_RECON_MAX
  Watched,      \* the topics whose delivery is followed
  Plans         \* what may happen in a run

\* A plan bounds the calls, the messages from others and the connections that are
\* lost; it names the filters and topics; inTurn says that there is one call at a
\* time, answered before its wait times out; refuses, that the broker may refuse a
\* subscription.  A steady plan has one connection, no refusal, and unsubscribes only
\* if nothing can come between an unsubscribe and its answer.
Plan == [calls : Nat, inbound : Nat, losses : Nat,
         filters : SUBSET Seq(STRING), topics : SUBSET Seq(STRING),
         unsubscribes : BOOLEAN, inTurn : BOOLEAN, refuses : BOOLEAN, steady : BOOLEAN]

PrefixFree(F) == \A f, g \in F : Begins(f, g) => f = g

ASSUME SubsAssumption ==
  /\ Main # Shell
  /\ Limit \in Nat /\ QueueSize \in Nat \ {0} /\ ReconMax \in Nat \ {0}
  /\ Plans \subseteq Plan
  /\ \A p \in Plans : p.steady => /\ p.losses = 0 /\ ~ p.refuses /\ PrefixFree(p.filters)
                                  /\ p.unsubscribes => p.inTurn /\ p.inbound = 0

\* No other filter is valid in MQTT; the client itself checks none.
ASSUME FilterAssumption == \A p \in Plans : \A f \in p.filters : WellFormed(f)

Callers == {Main, Shell}

VARIABLES
  subs,      \* the filters of sub_recv_list, its head first
  pc,        \* where main and the shell are: "idle", "wait" or "done"
  call,      \* the call each is in: kind, topic, and the entry p_subtop
  rx,        \* what Rx does: read, or run a callback of a message, or loop for ever
  msgQueue,  \* msg_queue: the types of the acknowledgements
  link,      \* the connection: "up", "lost" (not noticed yet), "closed"
  known,     \* the filters the broker has subscriptions for
  toBroker, toClient,
  plan,      \* what is left of the plan
  promised   \* history: filters whose last subscribe returned success and that no
             \* unsubscribe was called for since

caller == <<pc, call, promised>>
network == <<link, known, toBroker, toClient>>
vars == <<subs, caller, rx, msgQueue, network, plan>>

NoCall == [kind |-> "none", topic |-> <<>>, entry |-> 0]
Reading == [at |-> "read", topic |-> <<>>, entry |-> 0, tries |-> 0]

\* Entries are counted from the end of the list: one that is inserted at the head
\* changes the number of no other.
Entry(k) == subs[Len(subs) + 1 - k]
Entries == 1 .. Len(subs)
MaxOf(S) == CHOOSE k \in S : \A j \in S : j <= k

Send(packet) == toBroker' = IF link = "up" THEN Append(toBroker, packet) ELSE toBroker

-----------------------------------------------------------------------------
(* umqtt_subscribe *)

\* main is done after its one call.
Return(t) == /\ pc' = [pc EXCEPT ![t] = IF t = Main THEN "done" ELSE "idle"]
             /\ call' = [call EXCEPT ![t] = NoCall]

NewCall(t) == /\ pc[t] = "idle" /\ rx.at # "stuck" /\ plan.calls > 0
              /\ plan.inTurn => \A u \in Callers : pc[u] # "wait"
              /\ plan' = [plan EXCEPT !.calls = @ - 1]

\* Variants of the next two: no limit; only the first character is compared.
Unlimited == FALSE
SameStart(f) == {k \in Entries : Entry(k)[1] = f[1]}

Full == Len(subs) > Limit
Found(f) == {k \in Entries : Begins(Entry(k), f)}

\* An entry that begins with the topic is enough: success, and nothing is sent.
SubscribeAgain(t, f) ==
  /\ NewCall(t)
  /\ Found(f) # {}
  /\ promised' = promised \cup {f}
  /\ Return(t)
  /\ UNCHANGED <<subs, rx, msgQueue, network>>

\* The list is full, or the socket closed: failure.
SubscribeRefused(t, f) ==
  /\ NewCall(t)
  /\ Found(f) = {} /\ (Full \/ link = "closed")
  /\ Return(t)
  /\ UNCHANGED <<subs, rx, msgQueue, network, promised>>

Subscribe(t, f) ==
  /\ NewCall(t)
  /\ Found(f) = {} /\ ~ Full /\ link # "closed"
  /\ Send([type |-> "SUBSCRIBE", topic |-> f])
  /\ call' = [call EXCEPT ![t] = [kind |-> "SUBACK", topic |-> f, entry |-> 0]]
  /\ pc' = [pc EXCEPT ![t] = "wait"]
  /\ UNCHANGED <<subs, rx, msgQueue, link, known, toClient, promised>>

-----------------------------------------------------------------------------
(* umqtt_unsubscribe *)

\* The first entry of the list that begins with the topic is the one to remove,
\* but what is sent is the topic.
Unsubscribe(f) ==
  /\ plan.unsubscribes /\ NewCall(Shell)
  /\ Found(f) # {} /\ link # "closed"
  /\ Send([type |-> "UNSUBSCRIBE", topic |-> f])
  /\ call' = [call EXCEPT ![Shell] =
                [kind |-> "UNSUBACK", topic |-> f, entry |-> MaxOf(Found(f))]]
  /\ pc' = [pc EXCEPT ![Shell] = "wait"]
  /\ promised' = promised \ {f}
  /\ UNCHANGED <<subs, rx, msgQueue, link, known, toClient>>

UnsubscribeFails(f) ==
  /\ plan.unsubscribes /\ NewCall(Shell)
  /\ Found(f) = {} \/ link = "closed"
  /\ promised' = promised \ {f}
  /\ UNCHANGED <<subs, pc, call, rx, msgQueue, network>>

\* rt_list_remove and rt_free.  Rx may be in a callback of that very entry: it
\* holds on to memory that is free (entry 0).
RemoveEntry(k) ==
  /\ subs' = RemoveAt(subs, Len(subs) + 1 - k)
  /\ rx' = [rx EXCEPT !.entry = IF k < @ THEN @ - 1 ELSE IF k = @ THEN 0 ELSE @]

-----------------------------------------------------------------------------
(* The end of a call *)

RightAck(t) == Head(msgQueue) = call[t].kind

\* rt_mq_recv returns an acknowledgement; only its type is compared.  The entry of
\* a subscription goes to the head of the list.
TakeAck(t) ==
  /\ pc[t] = "wait" /\ msgQueue # <<>> /\ rx.at # "stuck"
  /\ msgQueue' = Tail(msgQueue)
  /\ Return(t)
  /\ \/ /\ RightAck(t) /\ call[t].kind = "SUBACK"
        /\ subs' = <<call[t].topic>> \o subs
        /\ promised' = promised \cup {call[t].topic}
        /\ UNCHANGED rx
     \/ /\ RightAck(t) /\ call[t].kind = "UNSUBACK"
        /\ RemoveEntry(call[t].entry)
        /\ UNCHANGED promised
     \/ /\ ~ RightAck(t)
        /\ UNCHANGED <<subs, rx, promised>>
  /\ UNCHANGED <<network, plan>>

Underway == link = "up" /\ (toBroker # <<>> \/ toClient # <<>>)
Timeout(t) ==
  /\ pc[t] = "wait" /\ msgQueue = <<>> /\ rx.at # "stuck"
  /\ plan.inTurn => ~ Underway
  /\ Return(t)
  /\ UNCHANGED <<subs, rx, msgQueue, network, plan, promised>>

-----------------------------------------------------------------------------
(* umqtt_thread *)

\* A variant of FirstFrom: the walk starts behind the head.
BehindHead(topic, k) ==
  LET S == {j \in 1 .. k : j < Len(subs) /\ Matched(Entry(j), topic)}
  IN  IF S = {} THEN 0 ELSE MaxOf(S)

\* The next entry at or after k whose filter matches; 0 at the end of the list.
FirstFrom(topic, k) ==
  LET S == {j \in 1 .. k : Matched(Entry(j), topic)} IN IF S = {} THEN 0 ELSE MaxOf(S)

\* umqtt_deliver_message, up to the next callback.
WalkFrom(topic, k) ==
  LET e == FirstFrom(topic, k)
  IN  rx' = IF e = 0 THEN Reading
            ELSE [at |-> "answer", topic |-> topic, entry |-> e, tries |-> 0]

QueuedAlways(ack) == Append(msgQueue, ack)  \* a variant of Queued
Queued(ack) == IF Len(msgQueue) < QueueSize THEN Append(msgQueue, ack) ELSE msgQueue

\* An acknowledgement joins the queue, unless that is full; a message is delivered.
Receive ==
  /\ rx.at = "read" /\ link = "up" /\ toClient # <<>>
  /\ LET p == Head(toClient)
     IN  IF p.type = "PUBLISH"
         THEN WalkFrom(p.topic, Len(subs)) /\ UNCHANGED msgQueue
         ELSE msgQueue' = Queued(p.type) /\ UNCHANGED rx
  /\ toClient' = Tail(toClient)
  /\ UNCHANGED <<subs, caller, link, known, toBroker, plan>>

\* umqtt_topic_recv_callback publishes the status with QoS 1, to a topic of its own.
Publish ==
  /\ rx.at = "answer"
  /\ Send([type |-> "PUBLISH", topic |-> <<>>])
  /\ rx' = [rx EXCEPT !.at = "await"]
  /\ UNCHANGED <<subs, caller, msgQueue, link, known, toClient, plan>>

\* The callback returns.  If its entry was freed meanwhile, node->next is what
\* rt_list_remove has left there, the entry itself, or what the memory holds by now.
CallbackReturns ==
  IF rx.entry = 0 THEN rx' \in {[Reading EXCEPT !.at = "stuck"], Reading}
                  ELSE WalkFrom(rx.topic, rx.entry - 1)

\* Its umqtt_publish takes whatever acknowledgement is there.  None that arrives
\* later can get there, since Rx does not read.
CallbackAck ==
  /\ rx.at = "await" /\ msgQueue # <<>>
  /\ msgQueue' = Tail(msgQueue)
  /\ CallbackReturns
  /\ UNCHANGED <<subs, caller, network, plan>>

WaitOn == rx  \* a variant of OnceMore: the wait has no end
OnceMore == [rx EXCEPT !.at = "answer", !.tries = @ + 1]

CallbackTimeout ==
  /\ rx.at = "await" /\ msgQueue = <<>>
  /\ IF rx.tries + 1 >= ReconMax THEN CallbackReturns ELSE rx' = OnceMore
  /\ UNCHANGED <<subs, caller, msgQueue, network, plan>>

\* FIN is read: the socket is closed, and five seconds later umqtt_connect opens
\* another.  It subscribes to nothing.
CloseLink ==
  /\ rx.at = "read" /\ link = "lost"
  /\ link' = "closed"
  /\ UNCHANGED <<subs, caller, rx, msgQueue, known, toBroker, toClient, plan>>

Reconnect ==
  /\ rx.at = "read" /\ link = "closed"
  /\ link' = "up"
  /\ UNCHANGED <<subs, caller, rx, msgQueue, known, toBroker, toClient, plan>>

-----------------------------------------------------------------------------
(* The broker and the network *)

AckOf == [SUBSCRIBE |-> "SUBACK", UNSUBSCRIBE |-> "UNSUBACK", PUBLISH |-> "PUBACK"]

\* A subscription that is refused is answered by a SUBACK too.
Broker ==
  /\ link = "up" /\ toBroker # <<>>
  /\ LET p == Head(toBroker)
     IN  /\ \/ known' = IF p.type = "SUBSCRIBE" THEN known \cup {p.topic}
                        ELSE IF p.type = "UNSUBSCRIBE" THEN known \ {p.topic} ELSE known
            \/ plan.refuses /\ p.type = "SUBSCRIBE" /\ UNCHANGED known
         /\ toClient' = Append(toClient, [type |-> AckOf[p.type], topic |-> <<>>])
  /\ toBroker' = Tail(toBroker)
  /\ UNCHANGED <<subs, caller, rx, msgQueue, link, plan>>

\* A message of another client, on a topic the gateway has a subscription for.
Inbound(topic) ==
  /\ link = "up" /\ plan.inbound > 0
  /\ \E f \in known : ByTheRules(f, topic)
  /\ toClient' = Append(toClient, [type |-> "PUBLISH", topic |-> topic])
  /\ plan' = [plan EXCEPT !.inbound = @ - 1]
  /\ UNCHANGED <<subs, caller, rx, msgQueue, link, known, toBroker>>

\* The connection is lost, and with it the session.
Lose ==
  /\ link = "up" /\ plan.losses > 0
  /\ link' = "lost" /\ known' = {} /\ toBroker' = <<>> /\ toClient' = <<>>
  /\ plan' = [plan EXCEPT !.losses = @ - 1]
  /\ UNCHANGED <<subs, caller, rx, msgQueue>>

-----------------------------------------------------------------------------
Init ==
  /\ subs = <<>>
  /\ pc = [t \in Callers |-> "idle"]
  /\ call = [t \in Callers |-> NoCall]
  /\ rx = Reading
  /\ msgQueue = <<>>
  /\ link = "up" /\ known = {} /\ toBroker = <<>> /\ toClient = <<>>
  /\ plan \in Plans
  /\ promised = {}

SomeSubscribe(t, f) == SubscribeAgain(t, f) \/ SubscribeRefused(t, f) \/ Subscribe(t, f)
EndOfCall(t) == TakeAck(t) \/ Timeout(t)
RxStep == \/ Receive \/ Publish \/ CallbackAck \/ CallbackTimeout
          \/ CloseLink \/ Reconnect

Next ==
  \/ \E f \in plan.filters : \/ \E t \in Callers : SomeSubscribe(t, f)
                             \/ Unsubscribe(f) \/ UnsubscribeFails(f)
  \/ \E t \in Callers : EndOfCall(t)
  \/ RxStep \/ Broker \/ Lose
  \/ \E topic \in plan.topics : Inbound(topic)

\* The threads run when they can, a wait ends at its timeout, the broker reads its
\* connection.
Spec == /\ Init /\ [][Next]_vars
        /\ \A t \in Callers : WF_vars(EndOfCall(t))
        /\ WF_vars(RxStep) /\ WF_vars(Broker)

-----------------------------------------------------------------------------
(* Properties *)

TypeOK ==
  /\ subs \in Seq(plan.filters) /\ promised \subseteq plan.filters
  /\ pc \in [Callers -> {"idle", "wait", "done"}]
  /\ \A t \in Callers :
       /\ call[t].kind \in {"none", "SUBACK", "UNSUBACK"}
       /\ call[t].kind = "UNSUBACK" => call[t].entry \in Entries
  /\ rx.at \in {"read", "answer", "await", "stuck"} /\ rx.entry \in 0 .. Len(subs)
  /\ rx.tries \in 0 .. ReconMax - 1
  /\ Len(msgQueue) <= QueueSize
  /\ link \in {"up", "lost", "closed"} /\ known \subseteq plan.filters

\* The list outgrows its limit by no more than the calls that test it at the same
\* time: one entry for the test that is off by one, and one for each other caller
\* that has looked before the entry is inserted.
ListBounded == Len(subs) <= Limit + Cardinality(Callers)

\* A message that arrives is for the filters that match it by the rules of MQTT and
\* for no others, except for an empty level under a wildcard and for "#" as no level.
DeliveredByTheRules ==
  \A i \in DOMAIN toClient, k \in Entries :
    toClient[i].type = "PUBLISH" =>
      LET f == Entry(k)
          topic == toClient[i].topic
      IN  Matched(f, topic) <=> ByTheRules(f, topic) /\ ~ Missed(f, topic)

\* What a subscribe has promised is known to the broker or about to be, and listed
\* for delivery, whatever acknowledgements are late, lost in a full queue or taken
\* by the callback - as long as one connection lasts and nothing is unsubscribed
\* before its answer has come.
Subscribed(f) ==
  /\ f \in known \/ [type |-> "SUBSCRIBE", topic |-> f] \in ToSet(toBroker)
  /\ f \in ToSet(subs)
PromisesKept == \A f \in promised : Subscribed(f)
PromisesKeptWhileSteady == plan.steady => PromisesKept

\* The walk comes to its end and Rx reads on, also when the callback gets no answer;
\* unless the entry it is at was freed under it.
RxReadsOn == (rx.at # "read") ~> (rx.at = "read" \/ rx.entry = 0)

\* A message that arrives for a filter that is in the list and stays there runs a
\* callback, unless the connection is lost or the walk derailed.
Arrived(topic) == \E i \in DOMAIN toClient :
                     toClient[i].type = "PUBLISH" /\ toClient[i].topic = topic
Listed(topic) == \E k \in Entries : Matched(Entry(k), topic)
ListedIsDelivered ==
  \A topic \in Watched :
    []((Arrived(topic) /\ []Listed(topic))
         => <>(rx.topic = topic \/ link # "up" \/ rx.at = "stuck"))

\* umqtt_subscribe, called while the client is connected, returns success only if
\* the subscription is in force.
SubscribeOkMeansSubscribed ==
  [][\A t \in Callers, f \in plan.filters :
       link = "up" /\ SubscribeAgain(t, f) => Subscribed(f)']_vars
=============================================================================
