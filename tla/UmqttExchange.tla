---------------------------- MODULE UmqttExchange ----------------------------
(***************************************************************************)
(* How the calls of the MQTT client get their acknowledgements              *)
(* (packages/umqtt-v1.0.0/src/umqtt.c).                                     *)
(*                                                                          *)
(* Every call encodes its packet into the one buffer send_buf, sends        *)
(* whatever that buffer holds, and waits on the one queue msg_queue for an   *)
(* acknowledgement, which it recognises by its type alone.  The receive     *)
(* thread Rx fills the queue; it also runs the subscription callback, and    *)
(* the gateway's callback publishes its answer with QoS 1 from there         *)
(* (applications/umqtt_sample.c).  A third thread overwrites the head of     *)
(* send_buf with PINGREQ.  lock_client protects none of this.                *)
(*                                                                          *)
(* A packet is its type and its identifier.  An encode is one step, so a     *)
(* packet is never half one thread's and half another's, except for the      *)
(* two bytes of PINGREQ in front of a longer one (Garbled).                  *)
(***************************************************************************)
EXTENDS Naturals, Sequences, FiniteSets

CONSTANTS
  Apps,         \* threads that call the client: alarm thread, shell
  Rx,           \* umqtt_thread
  QueueSize,    \* PKG_UMQTT_MSG_QUEUE_ACK_DEF_SIZE
  ReconMax,     \* PKG_UMQTT_PUBLISH_RECON_MAX
  MaxPacketId,  \* UMQTT_MAX_PACKET_ID
  MaxChannel,   \* bound: packets on their way to the broker
  Budgets       \* what may happen in a run

\* A budget bounds the calls of the threads in Apps, the PUBLISH packets from the
\* broker, the PINGREQ packets and the connections the network loses; it names the
\* kinds of calls, and says whether one thread at a time uses the client, which
\* awaits what it publishes and has no callback that publishes, and whether what is
\* underway ends before a wait times out (exclusive).
CallKinds == {"pub1", "pub2", "sub", "unsub", "async"}
Budget == [calls : Nat, inbound : Nat, pings : Nat, losses : Nat,
           kinds : SUBSET CallKinds, exclusive : BOOLEAN]

ASSUME ExchangeAssumption ==
  /\ Rx \notin Apps /\ MaxChannel \in Nat
  /\ QueueSize \in Nat \ {0} /\ ReconMax \in Nat \ {0} /\ MaxPacketId \in Nat \ {0}
  /\ Budgets \subseteq Budget
  /\ \A b \in Budgets : b.exclusive => b.inbound = 0 /\ "async" \notin b.kinds

Threads == Apps \cup {Rx}

VARIABLES
  packetId,   \* packet_id: the last identifier given out
  sendBuf,    \* the packet in send_buf[0 .. send_len - 1]
  msgQueue,   \* msg_queue: acknowledgements Rx has received
  pc,         \* where each thread is in its call
  call,       \* the call it is in: kind, packet identifier and _cnt
  owes,       \* the identifier Rx acknowledges once its callback returns
  ping,       \* mqtt_thread1 has encoded a PINGREQ and not yet sent it
  link,       \* the connection: "up", "lost" (FIN not yet read), "closed"
  session,    \* the broker has accepted a CONNECT on this connection
  toBroker, toClient,
  budget,     \* what is left of the budget
  accepted,   \* history: QoS 1 PUBLISH packets the broker has received, each by the
              \* latest use of its identifier
  acked,      \* history: how often it has acknowledged one
  confirmed,  \* history: QoS 1 calls that returned UMQTT_OK, by identifier likewise
  oks         \* history: how many QoS 1 calls did

client == <<packetId, sendBuf, msgQueue, pc, call, owes, ping>>
network == <<link, session, toBroker, toClient>>
history == <<accepted, acked, confirmed, oks>>
vars == <<client, network, budget, history>>

Ids == 0 .. MaxPacketId
AckOf == [pub1 |-> "PUBACK", pub2 |-> "PUBREC", rel |-> "PUBCOMP",
          sub |-> "SUBACK", unsub |-> "UNSUBACK"]
PacketOf == [pub1 |-> "PUBLISH1", async |-> "PUBLISH1", pub2 |-> "PUBLISH2",
             rel |-> "PUBREL", sub |-> "SUBSCRIBE", unsub |-> "UNSUBSCRIBE"]
Answer == [PUBLISH1 |-> "PUBACK", PUBLISH2 |-> "PUBREC", PUBREL |-> "PUBCOMP",
           SUBSCRIBE |-> "SUBACK", UNSUBSCRIBE |-> "UNSUBACK"]
Acks == {AckOf[k] : k \in DOMAIN AckOf}
Packets == [type : DOMAIN Answer \cup {"CONNECT", "PUBACK", "PINGREQ", "GARBLED"},
            id : Ids]
Connect == [type |-> "CONNECT", id |-> 0]
Garbled == [type |-> "GARBLED", id |-> 0]
NoCall == [kind |-> "none", id |-> 0, cnt |-> 0]

-----------------------------------------------------------------------------
(* The calls *)

NextId == IF packetId = MaxPacketId THEN 1 ELSE packetId + 1  \* get_next_packetID

\* Variants of the next two: a message is read and left in the queue; an attempt is
\* not counted.
LeftInQueue == msgQueue
NotCounted(n) == n

Taken == Tail(msgQueue)   \* rt_mq_recv
Counted(n) == n + 1       \* _cnt++

\* Give the call an identifier and encode its packet into send_buf.
Start(t, kind) ==
  /\ packetId' = NextId
  /\ sendBuf' = [type |-> PacketOf[kind], id |-> NextId]
  /\ call' = [call EXCEPT ![t] = [kind |-> kind, id |-> NextId, cnt |-> 0]]
  /\ pc' = [pc EXCEPT ![t] = "send"]
  /\ accepted' = accepted \ {NextId} /\ confirmed' = confirmed \ {NextId}

\* A subscribe to what is subscribed already and an unsubscribe from what is not
\* send nothing and are left out.
AppCall(t, kind) ==
  /\ pc[t] = "idle" /\ kind \in budget.kinds /\ budget.calls > 0
  /\ budget.exclusive => \A u \in Apps : pc[u] = "idle"
  /\ Start(t, kind)
  /\ budget' = [budget EXCEPT !.calls = @ - 1]
  /\ UNCHANGED <<msgQueue, owes, ping, network, acked, oks>>

Publish(t) == \E kind \in {"pub1", "pub2"} : AppCall(t, kind)  \* umqtt_publish
PublishAsync(t) == AppCall(t, "async")                         \* umqtt_publish_async
Subscribe(t) == AppCall(t, "sub")                              \* umqtt_subscribe
Unsubscribe(t) == AppCall(t, "unsub")                          \* umqtt_unsubscribe

\* umqtt_trans_send: what is in send_buf by now leaves, and is lost with a
\* connection the peer has given up; on a closed socket it fails.
CanSend == link = "up" => Len(toBroker) < MaxChannel
Transmit(packet) ==
  toBroker' = IF link = "up" THEN Append(toBroker, packet) ELSE toBroker

\* Rx goes on with its PUBLISH packet when its callback returns.
Leave(t) ==
  /\ pc' = [pc EXCEPT ![t] = IF t = Rx /\ owes # 0 THEN "reply" ELSE "idle"]
  /\ call' = [call EXCEPT ![t] = NoCall]

Return(t, ok) ==
  /\ Leave(t)
  /\ IF ok /\ call[t].kind = "pub1"
     THEN confirmed' = confirmed \cup {call[t].id} /\ oks' = oks + 1
     ELSE UNCHANGED <<confirmed, oks>>

Send(t) ==
  /\ pc[t] = "send" /\ CanSend
  /\ Transmit(sendBuf)
  /\ \/ /\ link = "closed" \/ call[t].kind = "async"
        /\ Return(t, FALSE)
     \/ /\ link # "closed" /\ call[t].kind # "async"
        /\ pc' = [pc EXCEPT ![t] = "wait"]
        /\ UNCHANGED <<call, confirmed, oks>>
  /\ UNCHANGED <<packetId, sendBuf, msgQueue, owes, ping, link, session, toClient,
                 budget, accepted, acked>>

\* _repubrel: _cnt starts again from zero, on every attempt; without PUBCOMP the
\* call never ends.
Pubrel(t) ==
  /\ call' = [call EXCEPT ![t].kind = "rel", ![t].cnt = 0]
  /\ sendBuf' = [type |-> "PUBREL", id |-> call[t].id]
  /\ pc' = [pc EXCEPT ![t] = "send"]

\* rt_mq_recv returns the oldest acknowledgement: its type decides.
TakeAck(t) ==
  /\ pc[t] = "wait" /\ msgQueue # <<>>
  /\ msgQueue' = Taken
  /\ LET ok == Head(msgQueue).type = AckOf[call[t].kind]
     IN  IF ok /\ call[t].kind = "pub2"
         THEN Pubrel(t) /\ UNCHANGED <<confirmed, oks>>
         ELSE Return(t, ok) /\ UNCHANGED sendBuf
  /\ UNCHANGED <<packetId, owes, ping, network, budget, accepted, acked>>

\* rt_mq_recv times out.  A publish sends again what send_buf holds by now.
\* Underway is what takes no longer than a round trip.
Underway == \/ link = "up" /\ (toBroker # <<>> \/ toClient # <<>>)
            \/ pc[Rx] = "finish"
Timeout(t) ==
  /\ pc[t] = "wait" /\ msgQueue = <<>>
  /\ budget.exclusive => ~ Underway
  /\ CASE call[t].kind \in {"sub", "unsub"} ->
            Return(t, FALSE) /\ UNCHANGED sendBuf
       [] call[t].kind = "rel" ->
            IF Counted(call[t].cnt) >= ReconMax
            THEN Return(t, FALSE) /\ UNCHANGED sendBuf
            ELSE Pubrel(t) /\ UNCHANGED <<confirmed, oks>>
       [] OTHER ->
            IF Counted(call[t].cnt) >= ReconMax
            THEN Return(t, FALSE) /\ UNCHANGED sendBuf
            ELSE /\ call' = [call EXCEPT ![t].cnt = Counted(@)]
                 /\ pc' = [pc EXCEPT ![t] = "send"]
                 /\ UNCHANGED <<sendBuf, confirmed, oks>>
  /\ UNCHANGED <<packetId, msgQueue, owes, ping, network, budget, accepted, acked>>

-----------------------------------------------------------------------------
(* umqtt_thread *)

\* Variants of the next two: another thread reads for Rx while it waits; the
\* queue grows.
ReadsWhileWaiting == pc[Rx] \in {"idle", "wait"}
QueuedAlways(p) == Append(msgQueue, p)

Reads == pc[Rx] = "idle"
Queued(p) == IF Len(msgQueue) < QueueSize THEN Append(msgQueue, p) ELSE msgQueue

\* umqtt_handle_readpacket: an acknowledgement joins the queue, or is lost
\* when the queue is full; a PUBLISH runs the callback, which publishes.
Receive ==
  /\ Reads /\ link = "up" /\ toClient # <<>>
  /\ LET p == Head(toClient)
     IN  IF p.type \in Acks
         THEN /\ msgQueue' = Queued(p)
              /\ UNCHANGED <<packetId, sendBuf, call, pc, owes, accepted, confirmed>>
         ELSE /\ Start(Rx, "pub1")
              /\ owes' = p.id
              /\ UNCHANGED msgQueue
  /\ toClient' = Tail(toClient)
  /\ UNCHANGED <<ping, link, session, toBroker, budget, acked, oks>>

\* The PUBACK of a PUBLISH of QoS 1, after its callback.
EncodePuback ==
  /\ pc[Rx] = "reply"
  /\ sendBuf' = [type |-> "PUBACK", id |-> owes]
  /\ owes' = 0
  /\ pc' = [pc EXCEPT ![Rx] = "finish"]
  /\ UNCHANGED <<packetId, msgQueue, call, ping, network, budget, history>>

\* umqtt_thread has read FIN: it closes the socket, ...
CloseLink ==
  /\ pc[Rx] = "idle" /\ link = "lost"
  /\ link' = "closed"
  /\ UNCHANGED <<client, session, toBroker, toClient, budget, history>>

\* ... and umqtt_connect opens another and encodes CONNECT; msg_queue and the
\* calls that wait on it stay as they are.
Reconnect ==
  /\ pc[Rx] = "idle" /\ link = "closed"
  /\ link' = "up"
  /\ sendBuf' = Connect
  /\ pc' = [pc EXCEPT ![Rx] = "finish"]
  /\ UNCHANGED <<packetId, msgQueue, call, owes, ping, session, toBroker, toClient,
                 budget, history>>

\* The last send of the PUBACK or CONNECT that Rx has encoded.
FinishRx ==
  /\ pc[Rx] = "finish" /\ CanSend
  /\ Transmit(sendBuf)
  /\ pc' = [pc EXCEPT ![Rx] = "idle"]
  /\ UNCHANGED <<packetId, sendBuf, msgQueue, call, owes, ping, link, session,
                 toClient, budget, history>>

-----------------------------------------------------------------------------
(* mqtt_thread1: the PINGREQ of umqtt_keepalive_callback is put over the head *)
(* of send_buf, and send_len still has the length of the packet behind it.    *)

EncodePing ==
  /\ ~ ping /\ budget.pings > 0 /\ link # "closed"
  /\ ping' = TRUE
  /\ sendBuf' = Garbled
  /\ budget' = [budget EXCEPT !.pings = @ - 1]
  /\ UNCHANGED <<packetId, msgQueue, pc, call, owes, network, history>>

SendPing ==
  /\ ping /\ CanSend
  /\ ping' = FALSE
  /\ Transmit(IF sendBuf = Garbled THEN [type |-> "PINGREQ", id |-> 0] ELSE Garbled)
  /\ UNCHANGED <<packetId, sendBuf, msgQueue, pc, call, owes, link, session,
                 toClient, budget, history>>

-----------------------------------------------------------------------------
(* The broker and the network *)

Drop == /\ link' = "lost" /\ session' = FALSE
        /\ toBroker' = <<>> /\ toClient' = <<>>

\* The broker answers each request and closes the connection on a packet that
\* has no place on it.
Broker ==
  /\ link = "up" /\ toBroker # <<>>
  /\ LET p == Head(toBroker)
     IN  IF p.type = "GARBLED" \/ session = (p.type = "CONNECT")
         THEN Drop /\ UNCHANGED <<accepted, acked>>
         ELSE /\ session' = TRUE
              /\ toBroker' = Tail(toBroker)
              /\ toClient' = IF p.type \in DOMAIN Answer
                             THEN Append(toClient, [type |-> Answer[p.type], id |-> p.id])
                             ELSE toClient
              /\ accepted' = IF p.type = "PUBLISH1" THEN accepted \cup {p.id}
                             ELSE accepted
              /\ acked' = IF p.type = "PUBLISH1" THEN acked + 1 ELSE acked
              /\ UNCHANGED link
  /\ UNCHANGED <<client, budget, confirmed, oks>>

\* A PUBLISH of QoS 0 (identifier 0) or QoS 1 on the topic of the gateway.
Inbound ==
  /\ link = "up" /\ session /\ budget.inbound > 0
  /\ \E id \in {0, 1} : toClient' = Append(toClient, [type |-> "PUBLISH", id |-> id])
  /\ budget' = [budget EXCEPT !.inbound = @ - 1]
  /\ UNCHANGED <<client, link, session, toBroker, history>>

Lose ==
  /\ link = "up" /\ budget.losses > 0
  /\ Drop
  /\ budget' = [budget EXCEPT !.losses = @ - 1]
  /\ UNCHANGED <<client, history>>

-----------------------------------------------------------------------------
Init ==
  /\ packetId = 0
  /\ sendBuf = Connect
  /\ msgQueue = <<>>
  /\ pc = [t \in Threads |-> "idle"]
  /\ call = [t \in Threads |-> NoCall]
  /\ owes = 0
  /\ ping = FALSE
  /\ link = "up" /\ session = TRUE
  /\ toBroker = <<>> /\ toClient = <<>>
  /\ budget \in Budgets
  /\ accepted = {} /\ acked = 0 /\ confirmed = {} /\ oks = 0

CallStep(t) == Send(t) \/ TakeAck(t) \/ Timeout(t)
NewCall(t) == Publish(t) \/ PublishAsync(t) \/ Subscribe(t) \/ Unsubscribe(t)
RxStep == Receive \/ EncodePuback \/ CloseLink \/ Reconnect \/ FinishRx
Pinger == EncodePing \/ SendPing

Next == \/ \E t \in Threads : CallStep(t)
        \/ \E t \in Apps : NewCall(t)
        \/ RxStep \/ Pinger
        \/ Broker \/ Inbound \/ Lose

\* The threads run when they can and a wait ends after its timeout; the broker
\* reads its connection.
Spec == /\ Init /\ [][Next]_vars
        /\ \A t \in Threads : WF_vars(CallStep(t))
        /\ WF_vars(RxStep) /\ WF_vars(SendPing) /\ WF_vars(Broker)

-----------------------------------------------------------------------------
(* Properties *)

AckPackets == [type : Acks, id : Ids]

TypeOK ==
  /\ packetId \in Ids /\ sendBuf \in Packets /\ owes \in Ids /\ ping \in BOOLEAN
  /\ msgQueue \in Seq(AckPackets) /\ Len(msgQueue) <= QueueSize
  /\ pc \in [Threads -> {"idle", "send", "wait", "reply", "finish"}]
  /\ call \in [Threads -> [kind : CallKinds \cup {"rel", "none"}, id : Ids,
                           cnt : 0 .. ReconMax]]
  /\ link \in {"up", "lost", "closed"} /\ session \in BOOLEAN
  /\ toBroker \in Seq(Packets)
  /\ toClient \in Seq(AckPackets \cup [type : {"PUBLISH"}, id : {0, 1}])
  /\ accepted \subseteq Ids /\ confirmed \subseteq Ids
  /\ acked \in Nat /\ oks \in Nat /\ budget \in Budget

Count(s, type) == Cardinality({i \in DOMAIN s : s[i].type = type})
Pubacks(s) == Count(s, "PUBACK")

\* A PUBACK confirms at most one call: whatever is resent, misdelivered, stale
\* or lost with a connection, the QoS 1 calls that returned UMQTT_OK and the
\* acknowledgements still to be read never outnumber those of the broker.
AcksConserved ==
  oks + Pubacks(msgQueue) + Pubacks(toClient) <= acked

\* The answer a callback publishes with QoS 1 can be confirmed by another
\* acknowledgement or not at all: while Rx waits for its own, the only thread
\* that could put it in the queue is Rx.
AnswerNeverAcked ==
  pc[Rx] \in {"send", "wait"} =>
    \A i \in DOMAIN msgQueue :
      ~ (msgQueue[i].type = "PUBACK" /\ msgQueue[i].id = call[Rx].id)

\* Every QoS 1 publish, subscribe and unsubscribe returns, although the
\* connection is lost, its packet is overwritten, its acknowledgement is taken
\* by another thread or its thread is the one that ought to receive it.
CallsReturn ==
  \A t \in Threads :
    (pc[t] # "idle" /\ call[t].kind \in {"pub1", "sub", "unsub"}) ~> (pc[t] = "idle")

\* umqtt_publish returns success for a QoS 1 message only if the broker has
\* received that message.
OkMeansAccepted == confirmed \subseteq accepted

\* It does for a client that one thread at a time uses, with answers in time and no
\* callback that publishes: although connections are lost, a retry sends whatever
\* PINGREQ or CONNECT has left in send_buf, Rx may send the caller's packet for its
\* CONNECT, and the identifiers start again.
OkMeansAcceptedAlone == budget.exclusive => OkMeansAccepted
=============================================================================
